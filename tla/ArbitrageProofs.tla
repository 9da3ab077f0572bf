--------------------------- MODULE ArbitrageProofs --------------------------
(***************************************************************************)
(* What bellman_ford promises on a graph of any size: the predecessors     *)
(* that the walk follows never run out, the route it returns is a cycle    *)
(* that gains, and if it returns none no cycle in reach gains.             *)
(*                                                                         *)
(* Sums along a cycle are taken by induction over sets (Climb), and no     *)
(* path is ever summed up otherwise: a path or a cycle carries labels, a   *)
(* bound on what it costs to get to each of its mints.                     *)
(***************************************************************************)
EXTENDS Arbitrage, FiniteSetTheorems, WellFoundedInduction, TLAPS

(* Induction.                                                              *)

\* Of a collection of subsets of a finite set, one has no proper subset in it.
LEMMA SmallestOf ==
  ASSUME NEW S, IsFiniteSet(S), NEW C \in SUBSET (SUBSET S), C # {}
  PROVE  \E U \in C : \A V \in C : ~(V \subseteq U /\ V # U)
<1> DEFINE R == StrictSubsetOrdering(S)
<1>1. IsWellFoundedOn(R, FiniteSubsetsOf(S))
  BY FS_StrictSubsetOrderingWellFounded
<1>2. C \subseteq FiniteSubsetsOf(S)
  BY FS_Subset DEF FiniteSubsetsOf
<1>3. PICK U \in C : \A V \in C : <<V, U>> \notin R
  <2> HIDE DEF R
  <2> QED BY <1>1, <1>2, WFMin
<1>4. \A V \in C : ~(V \subseteq U /\ V # U)
  BY <1>2, <1>3 DEF StrictSubsetOrdering
<1> QED BY <1>4

\* Induction up to n: a set that holds 0, and i + 1 whenever it holds i < n,
\* holds 0 .. n.
LEMMA Climb ==
  ASSUME NEW n \in Nat, NEW S, 0 \in S,
         \A i \in 0 .. n : (i < n /\ i \in S) => i + 1 \in S
  PROVE  0 .. n \subseteq S
<1> DEFINE T == {i \in 0 .. n : i \notin S}
           C == {1 .. i : i \in T}
<1> SUFFICES ASSUME T # {} PROVE FALSE
  OBVIOUS
<1>1. IsFiniteSet(1 .. n) /\ C \in SUBSET (SUBSET (1 .. n)) /\ C # {}
  <2>1. IsFiniteSet(1 .. n)
    BY FS_Interval
  <2>2. \A i \in T : 1 .. i \in SUBSET (1 .. n)
    OBVIOUS
  <2> QED BY <2>1, <2>2
<1>2. PICK U \in C : \A V \in C : ~(V \subseteq U /\ V # U)
  <2> DEFINE A == 1 .. n
  <2>1. IsFiniteSet(A) /\ C \in SUBSET (SUBSET A) /\ C # {}
    BY <1>1
  <2> HIDE DEF C, T, A
  <2> QED BY <2>1, SmallestOf
<1>3. PICK m \in T : U = 1 .. m
  BY <1>2
<1>4. m \in 1 .. n /\ m - 1 \in 0 .. n /\ m - 1 < n
  BY <1>3
<1>5. m - 1 \notin T
  <2> SUFFICES ASSUME m - 1 \in T PROVE FALSE
    OBVIOUS
  <2>1. 1 .. m - 1 \in C
    OBVIOUS
  <2>2. 1 .. m - 1 \subseteq 1 .. m /\ m \in 1 .. m /\ m \notin 1 .. m - 1
    BY <1>4
  <2> QED BY <2>1, <2>2, <1>2, <1>3
<1> QED BY <1>3, <1>4, <1>5

(* Sums over sets of edges.                                                *)

\* The edge that MapThenSumSet takes out of a set.
Pick(s) == CHOOSE x \in s : TRUE

\* One step of the sum of the weights in s.
SumStep(g, s) == IF s = {} THEN 0 ELSE Weight(Pick(s)) + g[s \ {Pick(s)}]

\* g holds the sum of the weights for every set of edges out of S.
Sums(S, g) == g = [s \in SUBSET S |-> SumStep(g, s)]

\* There are such sums: those of the sets of at most k edges give those of the
\* sets of k + 1.
LEMMA SumsExist ==
  ASSUME NEW S, IsFiniteSet(S)
  PROVE  \E g : Sums(S, g)
<1> DEFINE n == Cardinality(S)
           UpToSize(k) == {s \in SUBSET S : Cardinality(s) <= k}
           Part(k, g) == g = [s \in UpToSize(k) |-> SumStep(g, s)]
           T == {k \in 0 .. n : \E g : Part(k, g)}
<1>1. n \in Nat
  BY FS_CardinalityType
<1>2. \A s \in SUBSET S : IsFiniteSet(s) /\ Cardinality(s) \in 0 .. n
  BY <1>1, FS_Subset, FS_CardinalityType
<1>3. \A s \in SUBSET S :
         s # {} => /\ Pick(s) \in s
                   /\ s \ {Pick(s)} \in SUBSET S
                   /\ Cardinality(s \ {Pick(s)}) = Cardinality(s) - 1
  <2> SUFFICES ASSUME NEW s \in SUBSET S, s # {}
               PROVE  /\ Pick(s) \in s
                      /\ s \ {Pick(s)} \in SUBSET S
                      /\ Cardinality(s \ {Pick(s)}) = Cardinality(s) - 1
    OBVIOUS
  <2>1. Pick(s) \in s
    BY DEF Pick
  <2> QED BY <2>1, <1>2, FS_RemoveElement
<1>4. 0 \in T
  <2> DEFINE g == [s \in UpToSize(0) |-> 0]
  <2>1. \A s \in UpToSize(0) : s = {}
    BY <1>2, FS_EmptySet
  <2>2. \A s \in UpToSize(0) : SumStep(g, s) = 0
    BY <2>1 DEF SumStep
  <2>3. Part(0, g)
    BY <2>2
  <2> HIDE DEF Part
  <2> QED BY <2>3, <1>1
<1>5. ASSUME NEW k \in 0 .. n, k < n, k \in T
      PROVE  k + 1 \in T
  <2>1. PICK g : Part(k, g)
    BY <1>5
  <2> DEFINE h == [s \in UpToSize(k + 1) |-> SumStep(g, s)]
  <2>2. ASSUME NEW s \in UpToSize(k + 1), s # {}
        PROVE  h[s \ {Pick(s)}] = g[s \ {Pick(s)}]
    <3> DEFINE r == s \ {Pick(s)}
    <3>1. r \in UpToSize(k) /\ r \in UpToSize(k + 1)
      <4>1. s \in SUBSET S /\ Cardinality(s) <= k + 1
        BY <2>2
      <4>2. r \in SUBSET S /\ Cardinality(r) = Cardinality(s) - 1 /\ Cardinality(r) \in 0 .. n
            /\ Cardinality(s) \in 0 .. n
        BY <4>1, <2>2, <1>2, <1>3
      <4> HIDE DEF r, n
      <4> QED BY <4>1, <4>2
    <3>2. h[r] = SumStep(g, r)
      BY <3>1
    <3>3. g[r] = SumStep(g, r)
      BY <3>1, <2>1
    <3> QED BY <3>2, <3>3
  <2>3. ASSUME NEW s \in UpToSize(k + 1)
        PROVE  SumStep(h, s) = SumStep(g, s)
    <3> HIDE DEF h
    <3>1. CASE s = {}
      BY <3>1 DEF SumStep
    <3>2. CASE s # {}
      BY <3>2, <2>2 DEF SumStep
    <3> QED BY <3>1, <3>2
  <2>4. Part(k + 1, h)
    <3>1. h = [s \in UpToSize(k + 1) |-> SumStep(g, s)]
      OBVIOUS
    <3> HIDE DEF h, UpToSize
    <3> QED BY <3>1, <2>3
  <2>5. k + 1 \in 0 .. n
    BY <1>5, <1>1
  <2> HIDE DEF Part
  <2> QED BY <2>4, <2>5
<1>6. PICK g : Part(n, g)
  <2> HIDE DEF T
  <2>1. n \in T
    BY <1>1, <1>4, <1>5, Climb
  <2> QED BY <2>1 DEF T
<1>7. UpToSize(n) = SUBSET S
  BY <1>2
<1>8. Sums(S, g)
  <2> HIDE DEF UpToSize
  <2> QED BY <1>6, <1>7 DEF Sums
<1> QED BY <1>8

\* Sums of whole numbers are whole numbers.
LEMMA SumsAreInts ==
  ASSUME NEW S, IsFiniteSet(S), \A x \in S : Weight(x) \in Int,
         NEW g, Sums(S, g)
  PROVE  \A s \in SUBSET S : g[s] \in Int
<1> DEFINE C == {s \in SUBSET S : g[s] \notin Int}
<1> SUFFICES ASSUME C # {} PROVE FALSE
  OBVIOUS
<1>1. PICK U \in C : \A V \in C : ~(V \subseteq U /\ V # U)
  <2>1. C \in SUBSET (SUBSET S)
    OBVIOUS
  <2> HIDE DEF C
  <2> QED BY <2>1, SmallestOf
<1>2. g[U] = SumStep(g, U)
  BY DEF Sums
<1>3. CASE U = {}
  BY <1>1, <1>2, <1>3 DEF SumStep
<1>4. CASE U # {}
  <2>1. Pick(U) \in U
    BY <1>4 DEF Pick
  <2>2. U \ {Pick(U)} \notin C /\ U \ {Pick(U)} \in SUBSET S
    BY <2>1, <1>1
  <2>3. Weight(Pick(U)) \in Int /\ g[U \ {Pick(U)}] \in Int
    BY <2>1, <2>2
  <2>4. g[U] \in Int
    BY <1>2, <1>4, <2>3 DEF SumStep
  <2> QED BY <2>4, <1>1
<1> QED BY <1>3, <1>4

\* In whatever order the edges are taken out, each adds its weight.
LEMMA SumsTakeOut ==
  ASSUME NEW S, IsFiniteSet(S), \A x \in S : Weight(x) \in Int,
         NEW g, Sums(S, g)
  PROVE  \A s \in SUBSET S : \A x \in s : g[s] = Weight(x) + g[s \ {x}]
<1> DEFINE C == {s \in SUBSET S : \E x \in s : g[s] # Weight(x) + g[s \ {x}]}
<1> SUFFICES ASSUME C # {} PROVE FALSE
  OBVIOUS
<1>1. PICK U \in C : \A V \in C : ~(V \subseteq U /\ V # U)
  <2>1. C \in SUBSET (SUBSET S)
    OBVIOUS
  <2> HIDE DEF C
  <2> QED BY <2>1, SmallestOf
<1>2. PICK x \in U : g[U] # Weight(x) + g[U \ {x}]
  BY <1>1
<1> DEFINE y == Pick(U)
<1>3. U \in SUBSET S /\ y \in U
  BY <1>1, <1>2 DEF Pick
<1>4. g[U] = Weight(y) + g[U \ {y}]
  BY <1>2, <1>3 DEF Sums, SumStep
<1>5. y # x
  BY <1>2, <1>4
<1> HIDE DEF y
<1>6. U \ {y} \notin C /\ U \ {x} \notin C
  BY <1>1, <1>2, <1>3
<1>7. g[U \ {y}] = Weight(x) + g[(U \ {y}) \ {x}]
  BY <1>2, <1>3, <1>5, <1>6
<1>8. g[U \ {x}] = Weight(y) + g[(U \ {x}) \ {y}]
  BY <1>2, <1>3, <1>5, <1>6
<1>9. (U \ {x}) \ {y} = (U \ {y}) \ {x}
  OBVIOUS
<1> DEFINE R == (U \ {y}) \ {x}
<1>10. Weight(x) \in Int /\ Weight(y) \in Int /\ g[R] \in Int
  <2>1. R \in SUBSET S
    BY <1>3
  <2> HIDE DEF R
  <2> QED BY <2>1, <1>2, <1>3, SumsAreInts
<1>11. g[U \ {y}] = Weight(x) + g[R] /\ g[U \ {x}] = Weight(y) + g[R]
  BY <1>7, <1>8, <1>9
<1> HIDE DEF R
<1> QED BY <1>2, <1>4, <1>10, <1>11

\* The i-th hop of a closed route.
HopAt(c, i) == <<c[i], c[1 + (i % Len(c))]>>

\* Where the hop behind position i of a closed route leads.
LEMMA NextPosition ==
  ASSUME NEW n \in Nat, NEW i \in 1 .. n
  PROVE  1 + (i % n) = IF i = n THEN 1 ELSE i + 1
<1>1. CASE i = n
  <2>1. n \in Nat \ {0}
    OBVIOUS
  <2>2. n % n = 0
    BY <2>1
  <2> QED BY <2>2, <1>1
<1>2. CASE i < n
  <2>1. i % n = i
    BY <1>2
  <2> QED BY <2>1, <1>2
<1> QED BY <1>1, <1>2

\* What a closed route without repeated mints costs is the sum of its hops'
\* weights, one after the other.
LEMMA CostAlong ==
  ASSUME NEW c, NEW n \in Nat, Len(c) = n, DOMAIN c = 1 .. n, IsInjective(c),
         \A h \in Hops(c) : Weight(h) \in Int
  PROVE  \E s \in [0 .. n -> Int] :
           /\ s[0] = 0 /\ s[n] = Cost(c)
           /\ \A i \in 1 .. n : s[i] = s[i - 1] + Weight(HopAt(c, i))
<1> DEFINE S == Hops(c)
           Upto(k) == {HopAt(c, i) : i \in 1 .. k}
           g == CHOOSE f : Sums(S, f)
           s == [k \in 0 .. n |-> g[Upto(k)]]
<1>1. S = Upto(n)
  BY DEF Hops, HopAt
<1>2. IsFiniteSet(S)
  <2> DEFINE f == [i \in 1 .. n |-> HopAt(c, i)]
  <2>1. IsFiniteSet(1 .. n)
    BY FS_Interval
  <2>2. f \in Surjection(1 .. n, Upto(n))
    BY DEF Surjection
  <2> HIDE DEF f, S, Upto
  <2> QED BY <1>1, <2>1, <2>2, FS_Surjection
<1>3. Sums(S, g)
  <2> HIDE DEF S
  <2> QED BY <1>2, SumsExist
<1>4. Cost(c) = g[S]
  BY DEF Cost, MapThenSumSet, MapThenFoldSet, Sums, SumStep, Pick
<1> HIDE DEF g
<1>5. \A x \in SUBSET S : g[x] \in Int
  <2> HIDE DEF S
  <2>1. \A x \in S : Weight(x) \in Int
    BY DEF S
  <2> QED BY <1>2, <1>3, <2>1, SumsAreInts
<1>6. \A k \in 0 .. n : Upto(k) \in SUBSET S
  BY <1>1
<1>7. s \in [0 .. n -> Int]
  <2> HIDE DEF Upto, S
  <2> QED BY <1>5, <1>6
<1>8. s[0] = 0
  <2>1. Upto(0) = {} /\ {} \in SUBSET S
    OBVIOUS
  <2>2. g[{}] = 0
    <3> HIDE DEF S
    <3>1. g[{}] = SumStep(g, {})
      BY <1>3, <2>1 DEF Sums
    <3> QED BY <3>1 DEF SumStep
  <2>3. s[0] = g[Upto(0)]
    <3>1. 0 \in 0 .. n
      OBVIOUS
    <3> HIDE DEF Upto
    <3> QED BY <3>1
  <2> HIDE DEF s, Upto
  <2> QED BY <2>1, <2>2, <2>3
<1>9. s[n] = Cost(c)
  <2> HIDE DEF S, Upto
  <2> QED BY <1>1, <1>4
<1>10. ASSUME NEW i \in 1 .. n
       PROVE  s[i] = s[i - 1] + Weight(HopAt(c, i))
  <2>1. i \in 0 .. n /\ i - 1 \in 0 .. n
    OBVIOUS
  <2>2. HopAt(c, i) \in Upto(i)
    OBVIOUS
  <2>3. Upto(i) \ {HopAt(c, i)} = Upto(i - 1)
    <3>1. \A j \in 1 .. i - 1 : HopAt(c, j) # HopAt(c, i)
      BY DEF IsInjective, HopAt
    <3>2. \A j \in 1 .. i : j \in 1 .. i - 1 \/ j = i
      OBVIOUS
    <3>3. \A j \in 1 .. i - 1 : j \in 1 .. i
      OBVIOUS
    <3> QED BY <3>1, <3>2, <3>3
  <2>4. g[Upto(i)] = Weight(HopAt(c, i)) + g[Upto(i - 1)]
    <3> HIDE DEF Upto
    <3>1. \A x \in S : Weight(x) \in Int
      BY DEF S
    <3> HIDE DEF S
    <3>2. Upto(i) \in SUBSET S
      BY <1>6, <2>1
    <3>3. g[Upto(i)] = Weight(HopAt(c, i)) + g[Upto(i) \ {HopAt(c, i)}]
      BY <3>1, <3>2, <2>2, <1>2, <1>3, SumsTakeOut
    <3> QED BY <3>3, <2>3
  <2>5. s[i] = g[Upto(i)] /\ s[i - 1] = g[Upto(i - 1)]
    BY <2>1
  <2>6. s[i - 1] \in Int /\ Weight(HopAt(c, i)) \in Int
    <3>1. HopAt(c, i) \in S
      BY DEF Hops, HopAt
    <3> HIDE DEF s
    <3> QED BY <3>1, <1>7, <2>1 DEF S
  <2> HIDE DEF s, Upto
  <2> QED BY <2>4, <2>5, <2>6
<1> HIDE DEF s
<1> QED BY <1>7, <1>8, <1>9, <1>10

\* One hop more on both sides of a bound keeps it, and keeps or makes it strict.
LEMMA AddHop ==
  ASSUME NEW a \in Int, NEW b \in Int, NEW w \in Int, NEW x \in Int, NEW y \in Int,
         NEW z \in Int, b = a + w, a <= x - z, x + w <= y
  PROVE  /\ b <= y - z
         /\ (a < x - z \/ x + w < y) => b < y - z
OBVIOUS

\* Labels that no hop of a cycle outruns, and one hop falls short of, prove that
\* the cycle gains.
LEMMA CycleGains ==
  ASSUME NEW c, NEW n \in Nat \ {0}, Len(c) = n, DOMAIN c = 1 .. n, IsInjective(c),
         \A h \in Hops(c) : Weight(h) \in Int,
         NEW L, \A i \in 1 .. n : L[c[i]] \in Int,
         \A i \in 1 .. n : L[c[i]] + Weight(HopAt(c, i)) <= L[c[1 + (i % n)]],
         NEW j \in 1 .. n, L[c[j]] + Weight(HopAt(c, j)) < L[c[1 + (j % n)]]
  PROVE  Cost(c) < 0
<1>1. PICK s \in [0 .. n -> Int] :
         /\ s[0] = 0 /\ s[n] = Cost(c)
         /\ \A i \in 1 .. n : s[i] = s[i - 1] + Weight(HopAt(c, i))
  BY CostAlong
<1> DEFINE at(k) == IF k = 0 \/ k = n THEN L[c[1]] ELSE L[c[k + 1]]
           T == {k \in 0 .. n : /\ s[k] <= at(k) - L[c[1]]
                                /\ j <= k => s[k] < at(k) - L[c[1]]}
<1>2. \A k \in 0 .. n : at(k) \in Int
  OBVIOUS
<1>3. 0 \in T
  <2>1. L[c[1]] \in Int /\ at(0) = L[c[1]]
    OBVIOUS
  <2> HIDE DEF at
  <2> QED BY <2>1, <1>1
<1>4. ASSUME NEW k \in 0 .. n, k < n, k \in T
      PROVE  k + 1 \in T
  <2>1. k + 1 \in 1 .. n /\ k + 1 \in 0 .. n /\ (k + 1) - 1 = k
    <3> HIDE DEF T
    <3> QED BY <1>4
  <2>2. at(k) = L[c[k + 1]]
    BY <1>4
  <2>3. at(k + 1) = L[c[1 + ((k + 1) % n)]]
    <3>1. 1 + ((k + 1) % n) = IF k + 1 = n THEN 1 ELSE (k + 1) + 1
      BY <2>1, NextPosition
    <3>2. CASE k + 1 = n
      BY <3>1, <3>2
    <3>3. CASE k + 1 # n
      BY <3>1, <3>3, <2>1
    <3> QED BY <3>2, <3>3
  <2>4. s[k + 1] = s[k] + Weight(HopAt(c, k + 1))
    BY <2>1, <1>1
  <2>5. at(k) + Weight(HopAt(c, k + 1)) <= at(k + 1)
    BY <2>1, <2>2, <2>3
  <2>6. k + 1 = j => at(k) + Weight(HopAt(c, k + 1)) < at(k + 1)
    BY <2>1, <2>2, <2>3
  <2>7. /\ s[k] \in Int /\ s[k + 1] \in Int /\ at(k) \in Int /\ at(k + 1) \in Int
        /\ L[c[1]] \in Int /\ Weight(HopAt(c, k + 1)) \in Int
    <3>1. HopAt(c, k + 1) \in Hops(c)
      BY <2>1 DEF Hops, HopAt
    <3>2. at(k) \in Int /\ at(k + 1) \in Int /\ L[c[1]] \in Int
      BY <1>2, <2>1
    <3> HIDE DEF at
    <3> QED BY <3>1, <3>2, <2>1, <1>1
  <2> HIDE DEF at
  <2>8. s[k] <= at(k) - L[c[1]] /\ (j <= k => s[k] < at(k) - L[c[1]])
    BY <1>4
  <2>9. /\ s[k + 1] <= at(k + 1) - L[c[1]]
        /\ (s[k] < at(k) - L[c[1]] \/ at(k) + Weight(HopAt(c, k + 1)) < at(k + 1)) =>
             s[k + 1] < at(k + 1) - L[c[1]]
    <3> DEFINE a == s[k]
               b == s[k + 1]
               w == Weight(HopAt(c, k + 1))
               x == at(k)
               y == at(k + 1)
               z == L[c[1]]
    <3>1. /\ a \in Int /\ b \in Int /\ w \in Int /\ x \in Int /\ y \in Int /\ z \in Int
          /\ b = a + w /\ a <= x - z /\ x + w <= y
      BY <2>4, <2>5, <2>7, <2>8
    <3> HIDE DEF T, a, b, w, x, y, z
    <3>2. b <= y - z /\ ((a < x - z \/ x + w < y) => b < y - z)
      BY <3>1, AddHop
    <3> QED BY <3>2 DEF a, b, w, x, y, z
  <2>10. j <= k + 1 => (j <= k \/ k + 1 = j)
    OBVIOUS
  <2> QED BY <2>1, <2>6, <2>8, <2>9, <2>10
<1>5. n \in T
  <2> HIDE DEF T
  <2>1. 0 .. n \subseteq T
    BY <1>3, <1>4, Climb
  <2> QED BY <2>1
<1>6. at(n) = L[c[1]] /\ L[c[1]] \in Int
  OBVIOUS
<1> HIDE DEF at
<1> QED BY <1>1, <1>5, <1>6

\* Labels that every hop of a cycle keeps up with prove that it does not gain.
LEMMA CycleGainsNot ==
  ASSUME NEW c, NEW n \in Nat \ {0}, Len(c) = n, DOMAIN c = 1 .. n, IsInjective(c),
         \A h \in Hops(c) : Weight(h) \in Int,
         NEW L, \A i \in 1 .. n : L[c[i]] \in Int,
         \A i \in 1 .. n : L[c[i]] + Weight(HopAt(c, i)) >= L[c[1 + (i % n)]]
  PROVE  Cost(c) >= 0
<1>1. PICK s \in [0 .. n -> Int] :
         /\ s[0] = 0 /\ s[n] = Cost(c)
         /\ \A i \in 1 .. n : s[i] = s[i - 1] + Weight(HopAt(c, i))
  BY CostAlong
<1> DEFINE at(k) == IF k = 0 \/ k = n THEN L[c[1]] ELSE L[c[k + 1]]
           T == {k \in 0 .. n : s[k] >= at(k) - L[c[1]]}
<1>2. \A k \in 0 .. n : at(k) \in Int
  OBVIOUS
<1>3. 0 \in T
  <2>1. L[c[1]] \in Int /\ at(0) = L[c[1]]
    OBVIOUS
  <2> HIDE DEF at
  <2> QED BY <2>1, <1>1
<1>4. ASSUME NEW k \in 0 .. n, k < n, k \in T
      PROVE  k + 1 \in T
  <2>1. k + 1 \in 1 .. n /\ k + 1 \in 0 .. n /\ (k + 1) - 1 = k
    BY <1>4
  <2>2. at(k) = L[c[k + 1]]
    BY <1>4
  <2>3. at(k + 1) = L[c[1 + ((k + 1) % n)]]
    <3>1. 1 + ((k + 1) % n) = IF k + 1 = n THEN 1 ELSE (k + 1) + 1
      BY <2>1, NextPosition
    <3>2. CASE k + 1 = n
      BY <3>1, <3>2
    <3>3. CASE k + 1 # n
      BY <3>1, <3>3, <2>1
    <3> QED BY <3>2, <3>3
  <2>4. s[k + 1] = s[k] + Weight(HopAt(c, k + 1))
    BY <2>1, <1>1
  <2>5. at(k) + Weight(HopAt(c, k + 1)) >= at(k + 1)
    BY <2>1, <2>2, <2>3
  <2>6. /\ s[k] \in Int /\ s[k + 1] \in Int /\ at(k) \in Int /\ at(k + 1) \in Int
        /\ L[c[1]] \in Int /\ Weight(HopAt(c, k + 1)) \in Int
    <3>1. HopAt(c, k + 1) \in Hops(c)
      BY <2>1 DEF Hops, HopAt
    <3>2. at(k) \in Int /\ at(k + 1) \in Int /\ L[c[1]] \in Int
      BY <1>2, <2>1
    <3> HIDE DEF at
    <3> QED BY <3>1, <3>2, <2>1, <1>1
  <2> HIDE DEF at
  <2> QED BY <2>1, <2>4, <2>5, <2>6, <1>4
<1>5. n \in T
  <2> HIDE DEF T
  <2>1. 0 .. n \subseteq T
    BY <1>3, <1>4, Climb
  <2> QED BY <2>1
<1>6. at(n) = L[c[1]] /\ L[c[1]] \in Int
  OBVIOUS
<1> HIDE DEF at
<1> QED BY <1>1, <1>5, <1>6

(* The predecessors.                                                       *)

\* Whoever follows q from v stays in some set of mints.
Loops(U, q, v) == \E D \in SUBSET U : v \in D /\ \A m \in D : q[m] \in D

\* A path of n mints, none of them twice, leads by q to v from one without
\* predecessor.
RootPath(U, none, q, v, n) ==
  \E p \in Seq(U) :
    /\ Len(p) = n /\ IsInjective(p)
    /\ p[n] = v /\ q[p[1]] = none
    /\ \A i \in 1 .. n - 1 : q[p[i + 1]] = p[i]

\* Following q from v, either one stays for good in a set of mints, or a path
\* without repeated mints leads to v from one that has no predecessor.
LEMMA LoopOrRoot ==
  ASSUME NEW U, IsFiniteSet(U), NEW none, none \notin U,
         NEW q \in [U -> U \cup {none}], NEW v \in U
  PROVE  Loops(U, q, v) \/ \E n \in 1 .. Cardinality(U) : RootPath(U, none, q, v, n)
<1> DEFINE Path(n, p, m) == /\ n \in Nat \ {0}
                            /\ Len(p) = n /\ IsInjective(p)
                            /\ p[n] = m /\ q[p[1]] = none
                            /\ \A i \in 1 .. n - 1 : q[p[i + 1]] = p[i]
           Rooted == {m \in U : \E n \in Nat, p \in Seq(U) : Path(n, p, m)}
           D == U \ Rooted
<1>1. ASSUME NEW m \in U, q[m] = none
      PROVE  m \in Rooted
  <2> DEFINE p == <<m>>
  <2>1. p \in Seq(U) /\ Len(p) = 1 /\ p[1] = m /\ IsInjective(p)
    BY DEF IsInjective
  <2>2. Path(1, p, m)
    <3> HIDE DEF p
    <3> QED BY <2>1, <1>1
  <2> HIDE DEF Path, p
  <2> QED BY <2>1, <2>2
<1>2. ASSUME NEW m \in U, q[m] \in Rooted
      PROVE  m \in Rooted
  <2>1. PICK n \in Nat, p \in Seq(U) : Path(n, p, q[m])
    BY <1>2
  <2>2. n \in Nat \ {0} /\ Len(p) = n /\ DOMAIN p = 1 .. n
    BY <2>1
  <2>3. CASE \E j \in 1 .. n : p[j] = m
    <3>1. PICK j \in 1 .. n : p[j] = m
      BY <2>3
    <3> DEFINE r == SubSeq(p, 1, j)
    <3>2. /\ r \in Seq(U) /\ Len(r) = j /\ DOMAIN r = 1 .. j
          /\ \A i \in 1 .. j : r[i] = p[i]
      BY <2>2
    <3> HIDE DEF r
    <3>3. IsInjective(r)
      BY <2>1, <2>2, <3>2 DEF IsInjective
    <3>4. r[j] = m /\ r[1] = p[1] /\ q[p[1]] = none
      BY <2>1, <2>2, <3>1, <3>2
    <3>5. \A i \in 1 .. j - 1 : q[r[i + 1]] = r[i]
      <4> TAKE i \in 1 .. j - 1
      <4>1. i \in 1 .. n - 1 /\ i \in 1 .. j /\ i + 1 \in 1 .. j
        BY <2>2
      <4> QED BY <4>1, <3>2, <2>1
    <3>6. Path(j, r, m)
      BY <3>2, <3>3, <3>4, <3>5
    <3> HIDE DEF Path
    <3> QED BY <3>2, <3>6
  <2>4. CASE ~\E j \in 1 .. n : p[j] = m
    <3> DEFINE r == Append(p, m)
    <3>1. /\ r \in Seq(U) /\ Len(r) = n + 1 /\ DOMAIN r = 1 .. n + 1
          /\ r[n + 1] = m /\ \A i \in 1 .. n : r[i] = p[i]
      BY <2>2
    <3> HIDE DEF r
    <3>2. IsInjective(r)
      <4> SUFFICES ASSUME NEW a \in 1 .. n + 1, NEW b \in 1 .. n + 1, r[a] = r[b]
                   PROVE  a = b
        BY <3>1 DEF IsInjective
      <4>1. CASE a \in 1 .. n /\ b \in 1 .. n
        BY <4>1, <3>1, <2>1, <2>2 DEF IsInjective
      <4>2. CASE a = n + 1 /\ b \in 1 .. n
        BY <4>2, <3>1, <2>4
      <4>3. CASE b = n + 1 /\ a \in 1 .. n
        BY <4>3, <3>1, <2>4
      <4>4. CASE a = n + 1 /\ b = n + 1
        BY <4>4
      <4> QED BY <4>1, <4>2, <4>3, <4>4, <2>2
    <3>3. r[1] = p[1] /\ q[p[1]] = none
      BY <2>1, <2>2, <3>1
    <3>4. \A i \in 1 .. (n + 1) - 1 : q[r[i + 1]] = r[i]
      <4> TAKE i \in 1 .. (n + 1) - 1
      <4>1. CASE i = n
        BY <4>1, <3>1, <2>1, <2>2
      <4>2. CASE i # n
        <5>1. i \in 1 .. n - 1 /\ i + 1 \in 1 .. n /\ i \in 1 .. n
          BY <4>2, <2>2
        <5> QED BY <5>1, <3>1, <2>1
      <4> QED BY <4>1, <4>2
    <3>5. Path(n + 1, r, m)
      BY <3>1, <3>2, <3>3, <3>4, <2>2
    <3> HIDE DEF Path
    <3> QED BY <3>1, <3>5, <2>2
  <2> QED BY <2>3, <2>4
<1>3. CASE v \in D
  <2>1. \A m \in D : q[m] \in D
    <3> HIDE DEF Rooted
    <3> QED BY <1>1, <1>2
  <2> QED BY <2>1, <1>3 DEF Loops
<1>4. CASE v \in Rooted
  <2>1. PICK n \in Nat, p \in Seq(U) : Path(n, p, v)
    BY <1>4
  <2>2. p \in Injection(1 .. n, U)
    <3>1. DOMAIN p = 1 .. n /\ p \in [1 .. n -> U] /\ IsInjective(p)
      BY <2>1
    <3> QED BY <3>1 DEF Injection
  <2>3. n <= Cardinality(U)
    <3>1. Cardinality(1 .. n) <= Cardinality(U)
      <4> DEFINE A == 1 .. n
      <4> HIDE DEF A
      <4>1. p \in Injection(A, U)
        BY <2>2 DEF A
      <4>2. Cardinality(A) <= Cardinality(U)
        BY <4>1, FS_Injection
      <4> QED BY <4>2 DEF A
    <3>2. Cardinality(1 .. n) = n
      BY <2>1, FS_Interval
    <3> QED BY <3>1, <3>2
  <2>4. n \in 1 .. Cardinality(U)
    BY <2>1, <2>3, FS_CardinalityType
  <2>5. RootPath(U, none, q, v, n)
    BY <2>1 DEF RootPath
  <2> QED BY <2>4, <2>5
<1> QED BY <1>3, <1>4

(* The inductive invariant.                                                *)

\* No pool weighs more, and as many as there are mints still weigh less than Inf.
TopWeight ==
  CHOOSE top \in 0 .. Inf :
    (\A w \in Weights : w <= top) /\ Cardinality(Mints) * top < Inf

\* The graph that the pools span: an edge each way, each with its pools' weights.
GraphInv ==
  /\ Edges \subseteq Mints \X Mints
  /\ \A e \in Edges : <<e[2], e[1]>> \in Edges
  /\ \A e \in Edges : Weight(e) \in Weights
  /\ start \in Used

\* Mints that start has been found to reach.
Known == {m \in Used : dist[m] # Inf}

\* Distances only ever fall below those that gave rise to them, and the first one
\* given to a mint is bounded by the number of mints known.
DistInv ==
  /\ dist \in [Used -> Int] /\ pred \in [Used -> Used \cup {NoMint}]
  /\ dist[start] <= 0
  /\ \A m \in Used : dist[m] <= Inf
  /\ \A m \in Known : dist[m] <= (Cardinality(Known) - 1) * TopWeight
  /\ \A m \in Used : pred[m] # NoMint =>
       /\ <<pred[m], m>> \in Edges
       /\ dist[pred[m]] # Inf
       /\ dist[pred[m]] + Weight(<<pred[m], m>>) <= dist[m]
  /\ \A m \in Known : pred[m] = NoMint => m = start /\ dist[m] = 0

\* L labels the mints of K so that no predecessor's label and hop outrun the
\* label of a mint, and some fall short of it.
Falls(K, q, L) ==
  /\ \A m \in K : L[q[m]] + Weight(<<q[m], m>>) <= L[m]
  /\ \E m \in K : L[q[m]] + Weight(<<q[m], m>>) < L[m]

\* The predecessors of K are K again: K is made of cycles.
Cyclic(K, q) == {q[m] : m \in K} = K

\* Every cycle that the predecessors hold gains: the edge that closed it was
\* shorter than what it closed.
CyclesFall ==
  \A K \in SUBSET Used :
    (K # {} /\ Cyclic(K, pred)) => \E L \in [Used -> Int] : Falls(K, pred, L)

\* A path from start with labels that bound what it costs to get to each mint.
Labelled(p, L) ==
  /\ p \in Seq(Used) /\ L \in Seq(Int)
  /\ Len(p) > 0 /\ Len(L) = Len(p)
  /\ p[1] = start /\ L[1] = 0
  /\ \A i \in 1 .. Len(p) - 1 :
       /\ <<p[i], p[i + 1]>> \in Edges
       /\ L[i] < Inf
       /\ L[i] + Weight(<<p[i], p[i + 1]>>) <= L[i + 1]

\* The last mint of p is no farther than its label.
Kept(p, L) == dist[p[Len(p)]] <= L[Len(p)]

\* Where the passes have got to: every path of fewer than pass edges is kept to,
\* and so is every path of pass edges whose last edge this pass has visited.
PassInv ==
  /\ pass \in 1 .. N /\ todo \subseteq Edges
  /\ pc = "relax" =>
       /\ \A p, L : (Labelled(p, L) /\ Len(p) <= pass) => Kept(p, L)
       /\ \A p, L : (/\ Labelled(p, L) /\ Len(p) = pass + 1
                     /\ <<p[pass], p[pass + 1]>> \notin todo) => Kept(p, L)
  /\ pc = "nth" => \A p, L : (Labelled(p, L) /\ Len(p) <= N) => Kept(p, L)
  /\ pc = "none" => \A e \in Edges : ~Shortens(e)

\* Where the walk has got to: the set of mints it can still come to shrinks with
\* every step or is made of cycles.
WalkInv ==
  /\ node \in Used \cup {NoMint}
  /\ pc \in {"relax", "nth"} => steps = 0
  /\ pc \in {"relax", "nth", "none", "walk"} => nodes = <<>>
  /\ pc = "walk" =>
       /\ node \in Used
       /\ steps \in 0 .. N
       /\ \E D \in SUBSET Used :
            /\ node \in D
            /\ \A m \in D : pred[m] \in D
            /\ Cyclic(D, pred) \/ Cardinality(D) <= N - steps

\* The trace is backwards along one cycle.
TraceInv ==
  /\ pc = "trace" =>
       /\ nodes \in Seq(Used) /\ Len(nodes) = steps + 1 /\ steps \in Nat
       /\ IsInjective(nodes)
       /\ \A i \in 1 .. Len(nodes) - 1 : pred[nodes[i]] = nodes[i + 1]
       /\ \E D \in SUBSET Used : Range(nodes) \subseteq D /\ Cyclic(D, pred)
  /\ pc \in {"stitch", "nosol", "found"} =>
       /\ nodes \in Seq(Used) /\ Len(nodes) > 0
       /\ IsInjective(nodes)
       /\ \A i \in 1 .. Len(nodes) - 1 : pred[nodes[i]] = nodes[i + 1]
       /\ pred[nodes[Len(nodes)]] = nodes[1]

\* The route goes forward along it, from Sol.
RouteInv ==
  /\ pc # "found" => route = <<>>
  /\ pc = "found" =>
       /\ route \in Seq(Used) /\ Len(route) > 0
       /\ IsInjective(route)
       /\ route[1] = Sol
       /\ \A i \in 1 .. Len(route) : pred[route[1 + (i % Len(route))]] = route[i]

ArbitrageInv ==
  /\ pc \in {"relax", "nth", "walk", "trace", "stitch", "none", "nosol", "found"}
  /\ GraphInv /\ DistInv /\ CyclesFall /\ PassInv /\ WalkInv /\ TraceInv /\ RouteInv

(* The graph.                                                              *)

\* A finite set of whole numbers that is not empty has a least element.
LEMMA MinIs ==
  ASSUME NEW S \in SUBSET Int, IsFiniteSet(S), S # {}
  PROVE  Min(S) \in S /\ \A x \in S : Min(S) <= x
<1> DEFINE Below(x) == {y \in S : y <= x}
           C == {Below(x) : x \in S}
<1>1. \E U \in C : \A V \in C : ~(V \subseteq U /\ V # U)
  <2>1. C \in SUBSET (SUBSET S)
    OBVIOUS
  <2>2. C # {}
    OBVIOUS
  <2> DEFINE A == S
  <2>3. IsFiniteSet(A) /\ C \in SUBSET (SUBSET A)
    BY <2>1
  <2> HIDE DEF A, C
  <2> QED BY <2>2, <2>3, SmallestOf
<1>2. PICK m \in S : \A V \in C : ~(V \subseteq Below(m) /\ V # Below(m))
  BY <1>1
<1>3. ASSUME NEW k \in S, k < m PROVE FALSE
  <2>1. Below(k) \in C
    OBVIOUS
  <2>2. Below(k) \subseteq Below(m)
    <3> SUFFICES ASSUME NEW y \in S, y <= k PROVE y <= m
      OBVIOUS
    <3>1. y \in Int /\ k \in Int /\ m \in Int
      OBVIOUS
    <3> QED BY <3>1, <1>3
  <2>3. m \in Below(m) /\ m \notin Below(k)
    BY <1>3
  <2> HIDE DEF Below, C
  <2> QED BY <2>1, <2>2, <2>3, <1>2
<1>4. \A x \in S : m <= x
  BY <1>3
<1> QED BY <1>4 DEF Min

\* What the assumption says of the heaviest pool.
LEMMA TopWeightIs ==
  /\ TopWeight \in Nat
  /\ \A w \in Weights : w \in Int /\ w <= TopWeight
  /\ Cardinality(Mints) \in Nat
  /\ Cardinality(Mints) * TopWeight < Inf
<1>1. \E top \in 0 .. Inf :
        (\A w \in Weights : w <= top) /\ Cardinality(Mints) * top < Inf
  BY ArbitrageAssumption
<1>2. TopWeight \in 0 .. Inf /\ (\A w \in Weights : w <= TopWeight)
      /\ Cardinality(Mints) * TopWeight < Inf
  BY <1>1 DEF TopWeight
<1>3. Cardinality(Mints) \in Nat
  BY ArbitrageAssumption, FS_CardinalityType
<1> QED BY <1>2, <1>3, ArbitrageAssumption

\* Edges lead between mints in use, which are finitely many.
LEMMA GraphFacts ==
  ASSUME GraphInv
  PROVE  /\ Used \subseteq Mints /\ IsFiniteSet(Used)
         /\ N \in Nat \ {0} /\ N <= Cardinality(Mints)
         /\ NoMint \notin Used
         /\ \A e \in Edges : /\ e = <<e[1], e[2]>>
                             /\ e[1] \in Used /\ e[2] \in Used
                             /\ Weight(e) \in Int /\ Weight(e) <= TopWeight
<1>1. Used \subseteq Mints /\ NoMint \notin Used
  BY ArbitrageAssumption DEF GraphInv, Used
<1>2. IsFiniteSet(Used) /\ Cardinality(Used) <= Cardinality(Mints)
  BY <1>1, ArbitrageAssumption, FS_Subset
<1>3. N \in Nat \ {0}
  <2>1. Used # {}
    BY DEF GraphInv
  <2> QED BY <2>1, <1>2, FS_CardinalityType, FS_EmptySet DEF N
<1>4. \A e \in Edges : /\ e = <<e[1], e[2]>>
                       /\ e[1] \in Used /\ e[2] \in Used
                       /\ Weight(e) \in Int /\ Weight(e) <= TopWeight
  <2> SUFFICES ASSUME NEW e \in Edges
               PROVE  /\ e = <<e[1], e[2]>>
                      /\ e[1] \in Used /\ e[2] \in Used
                      /\ Weight(e) \in Int /\ Weight(e) <= TopWeight
    OBVIOUS
  <2>1. e = <<e[1], e[2]>> /\ <<e[2], e[1]>> \in Edges
    BY DEF GraphInv
  <2>2. e[1] \in Used /\ e[2] \in Used
    BY <2>1 DEF Used
  <2>3. Weight(e) \in Weights
    BY DEF GraphInv
  <2> QED BY <2>1, <2>2, <2>3, TopWeightIs
<1> QED BY <1>1, <1>2, <1>3, <1>4 DEF N

\* The pools span such a graph.
LEMMA EdgesOfPools ==
  ASSUME NEW ps \in [PoolIds -> Pool], offers = EdgesOf(ps), start \in Used
  PROVE  GraphInv
<1> DEFINE A(e) == {j \in DOMAIN ps : <<ps[j].a, ps[j].b>> = e}
           B(e) == {j \in DOMAIN ps : <<ps[j].b, ps[j].a>> = e}
           W(e) == {ps[i].ab : i \in A(e)} \cup {ps[i].ba : i \in B(e)}
           E == {x \in Mints \X Mints : W(x) # {}}
<1>1. offers = [e \in E |-> W(e)]
  BY DEF EdgesOf
<1>2. Edges = E /\ \A e \in E : offers[e] = W(e)
  <2> HIDE DEF E, W
  <2> QED BY <1>1 DEF Edges
<1>3. \A i \in PoolIds : /\ ps[i].a \in Mints /\ ps[i].b \in Mints
                         /\ ps[i].ab \in Weights /\ ps[i].ba \in Weights
  BY DEF Pool
<1>4. \A e \in Mints \X Mints : IsFiniteSet(W(e)) /\ W(e) \subseteq Weights
  <2> TAKE e \in Mints \X Mints
  <2>1. A(e) \subseteq PoolIds /\ B(e) \subseteq PoolIds
    OBVIOUS
  <2>2. IsFiniteSet(A(e)) /\ IsFiniteSet(B(e))
    <3> HIDE DEF A, B
    <3> QED BY <2>1, ArbitrageAssumption, FS_Subset
  <2> DEFINE f == [i \in A(e) |-> ps[i].ab]
             g == [i \in B(e) |-> ps[i].ba]
             F == {ps[i].ab : i \in A(e)}
             G == {ps[i].ba : i \in B(e)}
  <2>3. f \in Surjection(A(e), F) /\ g \in Surjection(B(e), G)
    <3> HIDE DEF A, B
    <3> QED BY DEF Surjection
  <2>4. IsFiniteSet(F) /\ IsFiniteSet(G)
    <3> HIDE DEF A, B, F, G, f, g
    <3> QED BY <2>2, <2>3, FS_Surjection
  <2>5. F \subseteq Weights /\ G \subseteq Weights
    BY <2>1, <1>3
  <2>6. IsFiniteSet(F \cup G)
    <3> HIDE DEF F, G
    <3> QED BY <2>4, FS_Union
  <2> QED BY <2>5, <2>6
<1>5. \A e \in E : Weight(e) \in Weights
  <2> TAKE e \in E
  <2>1. W(e) # {} /\ IsFiniteSet(W(e)) /\ W(e) \subseteq Weights
    BY <1>4
  <2> HIDE DEF W, E
  <2>2. Min(W(e)) \in W(e)
    BY <2>1, MinIs, ArbitrageAssumption
  <2> QED BY <2>1, <2>2, <1>2 DEF Weight
<1>6. \A e \in E : <<e[2], e[1]>> \in E
  <2> TAKE e \in E
  <2> DEFINE r == <<e[2], e[1]>>
  <2>1. r \in Mints \X Mints /\ e = <<e[1], e[2]>>
    OBVIOUS
  <2>2. A(e) # {} \/ B(e) # {}
    OBVIOUS
  <2>3. B(r) = A(e) /\ A(r) = B(e)
    BY <2>1
  <2>4. A(r) # {} \/ B(r) # {}
    BY <2>2, <2>3
  <2>5. W(r) # {}
    <3> HIDE DEF A, B, r
    <3> QED BY <2>4
  <2> HIDE DEF W
  <2> QED BY <2>1, <2>5
<1>7. E \subseteq Mints \X Mints
  OBVIOUS
<1> HIDE DEF E
<1> QED BY <1>2, <1>5, <1>6, <1>7 DEF GraphInv

\* The search starts in the invariant.
LEMMA InitArbInv == Init => ArbitrageInv
<1> SUFFICES ASSUME Init PROVE ArbitrageInv
  OBVIOUS
<1>1. GraphInv
  <2>1. PICK ps \in [PoolIds -> Pool] : offers = EdgesOf(ps)
    BY DEF Init
  <2>2. start \in Used
    BY DEF Init
  <2> QED BY <2>1, <2>2, EdgesOfPools
<1>2. /\ start \in Used /\ IsFiniteSet(Used) /\ N \in Nat \ {0} /\ NoMint \notin Used
      /\ Inf \in Int /\ 0 < Inf
  <2>1. Cardinality(Mints) * TopWeight >= 0
    BY TopWeightIs
  <2>2. Cardinality(Mints) * TopWeight \in Int
    BY TopWeightIs
  <2> QED BY <2>1, <2>2, <1>1, GraphFacts, TopWeightIs, ArbitrageAssumption DEF GraphInv
<1>3. /\ dist \in [Used -> Int] /\ \A m \in Used : pred[m] = NoMint
      /\ pred \in [Used -> Used \cup {NoMint}]
      /\ dist[start] = 0 /\ \A m \in Used : m # start => dist[m] = Inf
  BY <1>2 DEF Init
<1>4. DistInv
  <2>1. Known = {start}
    BY <1>2, <1>3 DEF Known
  <2>2. Cardinality(Known) - 1 = 0
    BY <2>1, FS_Singleton
  <2>3. (Cardinality(Known) - 1) * TopWeight = 0
    BY <2>2, TopWeightIs
  <2>4. \A m \in Known : m = start /\ dist[m] = 0
    BY <2>1, <1>3
  <2> QED BY <1>2, <1>3, <2>3, <2>4 DEF DistInv
<1>5. CyclesFall
  <2> SUFFICES ASSUME NEW K \in SUBSET Used, K # {}, Cyclic(K, pred) PROVE FALSE
    BY DEF CyclesFall
  <2>1. PICK m \in K : TRUE
    OBVIOUS
  <2>2. pred[m] \in K
    BY <2>1 DEF Cyclic
  <2> QED BY <2>1, <2>2, <1>2, <1>3
<1>6. PassInv
  <2>1. pass = 1 /\ todo = Edges /\ pc = "relax"
    BY DEF Init
  <2>2. ASSUME NEW p, NEW L, Labelled(p, L), Len(p) <= 1 PROVE Kept(p, L)
    <3>1. Len(p) = 1
      BY <2>2 DEF Labelled
    <3> QED BY <3>1, <2>2, <1>3 DEF Labelled, Kept
  <2>3. ASSUME NEW p, NEW L, Labelled(p, L), Len(p) = 2 PROVE <<p[1], p[2]>> \in Edges
    BY <2>3 DEF Labelled
  <2> QED BY <2>1, <2>2, <2>3, <1>2 DEF PassInv
<1>7. WalkInv /\ TraceInv /\ RouteInv
  BY DEF Init, WalkInv, TraceInv, RouteInv
<1>8. pc = "relax"
  BY DEF Init
<1> QED BY <1>1, <1>4, <1>5, <1>6, <1>7, <1>8 DEF ArbitrageInv

(* The steps.                                                              *)

\* No step changes the graph.
LEMMA SameGraph ==
  ASSUME offers' = offers, start' = start
  PROVE  /\ Edges' = Edges /\ Used' = Used /\ N' = N
         /\ \A e : Weight(e)' = Weight(e)
         /\ GraphInv => GraphInv'
         /\ \A p, L : Labelled(p, L)' <=> Labelled(p, L)
         /\ \A K, q, L : Falls(K, q, L)' <=> Falls(K, q, L)
<1>1. Edges' = Edges
  BY DEF Edges
<1>2. Used' = Used
  BY <1>1 DEF Used
<1>3. N' = N
  BY <1>2 DEF N
<1>4. \A e : Weight(e)' = Weight(e)
  BY DEF Weight
<1>5. GraphInv => GraphInv'
  BY <1>1, <1>2, <1>4 DEF GraphInv
<1>6. \A p, L : Labelled(p, L)' <=> Labelled(p, L)
  BY <1>1, <1>2, <1>4 DEF Labelled
<1>7. \A K, q, L : Falls(K, q, L)' <=> Falls(K, q, L)
  BY <1>4 DEF Falls
<1> QED BY <1>1, <1>2, <1>3, <1>4, <1>5, <1>6, <1>7

\* Setting the predecessor of e's target to its source, by an edge that shortens
\* the way there, leaves every cycle of predecessors with labels that fall: those
\* it had, or the distances if the cycle goes through e.
LEMMA ClosingGains ==
  ASSUME ArbitrageInv, NEW e \in Edges, Shortens(e),
         NEW q, q = [pred EXCEPT ![e[2]] = e[1]],
         NEW K \in SUBSET Used, K # {}, Cyclic(K, q)
  PROVE  \E L \in [Used -> Int] : Falls(K, q, L)
<1>1. /\ DistInv /\ CyclesFall /\ GraphInv
      /\ e = <<e[1], e[2]>> /\ e[1] \in Used /\ e[2] \in Used /\ NoMint \notin Used
  BY GraphFacts DEF ArbitrageInv
<1>2. q[e[2]] = e[1] /\ \A m \in Used : m # e[2] => q[m] = pred[m]
  BY <1>1 DEF DistInv
<1>3. CASE e[2] \in K
  <2>1. \A m \in K : q[m] \in Used
    BY DEF Cyclic
  <2>2. ASSUME NEW m \in K, m # e[2]
        PROVE  dist[q[m]] + Weight(<<q[m], m>>) <= dist[m]
    <3>1. m \in Used /\ q[m] = pred[m] /\ pred[m] # NoMint
      BY <2>1, <2>2, <1>1, <1>2
    <3> QED BY <3>1, <1>1 DEF DistInv
  <2>3. dist[q[e[2]]] + Weight(<<q[e[2]], e[2]>>) < dist[e[2]]
    BY <1>1, <1>2 DEF Shortens
  <2>4. dist[q[e[2]]] + Weight(<<q[e[2]], e[2]>>) <= dist[e[2]]
    <3>1. dist[e[1]] \in Int /\ dist[e[2]] \in Int /\ Weight(e) \in Int
      BY <1>1, GraphFacts DEF DistInv
    <3> QED BY <3>1, <2>3, <1>1, <1>2
  <2>5. Falls(K, q, dist)
    BY <1>3, <2>2, <2>3, <2>4 DEF Falls
  <2> QED BY <2>5, <1>1 DEF DistInv
<1>4. CASE e[2] \notin K
  <2>1. \A m \in K : q[m] = pred[m]
    BY <1>2, <1>4
  <2>2. Cyclic(K, pred)
    BY <2>1 DEF Cyclic
  <2>3. PICK L \in [Used -> Int] : Falls(K, pred, L)
    BY <2>2, <1>1 DEF CyclesFall
  <2>4. Falls(K, q, L)
    BY <2>1, <2>3 DEF Falls
  <2> QED BY <2>4
<1> QED BY <1>3, <1>4

\* The first hops of a labelled path make a labelled path.
LEMMA LabelledPrefix ==
  ASSUME NEW p, NEW L, Labelled(p, L), NEW k \in 1 .. Len(p)
  PROVE  Labelled(SubSeq(p, 1, k), SubSeq(L, 1, k))
<1> DEFINE q == SubSeq(p, 1, k)
           M == SubSeq(L, 1, k)
<1>1. /\ p \in Seq(Used) /\ L \in Seq(Int) /\ Len(L) = Len(p)
      /\ p[1] = start /\ L[1] = 0 /\ k \in Nat /\ k > 0 /\ k <= Len(p)
  BY DEF Labelled
<1>2. /\ q \in Seq(Used) /\ Len(q) = k /\ \A i \in 1 .. k : q[i] = p[i]
  BY <1>1
<1>3. /\ M \in Seq(Int) /\ Len(M) = k /\ \A i \in 1 .. k : M[i] = L[i]
  BY <1>1
<1> HIDE DEF q, M
<1>4. \A i \in 1 .. k - 1 :
        /\ <<q[i], q[i + 1]>> \in Edges
        /\ M[i] < Inf
        /\ M[i] + Weight(<<q[i], q[i + 1]>>) <= M[i + 1]
  <2> TAKE i \in 1 .. k - 1
  <2>1. i \in 1 .. Len(p) - 1 /\ i \in 1 .. k /\ i + 1 \in 1 .. k
    BY <1>1
  <2> QED BY <2>1, <1>2, <1>3 DEF Labelled
<1>5. q[1] = start /\ M[1] = 0
  BY <1>1, <1>2, <1>3
<1>6. Labelled(q, M)
  BY <1>1, <1>2, <1>3, <1>4, <1>5 DEF Labelled
<1> QED BY <1>6 DEF q, M

\* Multiples.
LEMMA OneMore ==
  ASSUME NEW c \in Nat, NEW t \in Nat
  PROVE  ((c + 1) - 1) * t = (c - 1) * t + t /\ (c - 1) * t \in Int /\ c * t \in Int
<1>1. (c - 1) * t = c * t - t
  OBVIOUS
<1>2. c * t \in Int /\ (c - 1) * t \in Int
  OBVIOUS
<1>3. (c + 1) - 1 = c
  OBVIOUS
<1> QED BY <1>1, <1>2, <1>3

\* An edge that shortens the way keeps the distances in order.
LEMMA ShortenKeepsDist ==
  ASSUME ArbitrageInv, NEW e \in Edges, Shortens(e), offers' = offers, start' = start,
         dist' = [dist EXCEPT ![e[2]] = dist[e[1]] + Weight(e)],
         pred' = [pred EXCEPT ![e[2]] = e[1]]
  PROVE  DistInv' /\ \A m \in Used : dist'[m] <= dist[m]
<1> DEFINE u == e[1]
           v == e[2]
           w == Weight(e)
           d == dist[u] + w
<1>1. /\ DistInv /\ GraphInv /\ e = <<u, v>> /\ u \in Used /\ v \in Used
      /\ w \in Int /\ w <= TopWeight /\ NoMint \notin Used /\ Inf \in Int
      /\ start \in Used /\ TopWeight \in Nat /\ IsFiniteSet(Used)
  BY GraphFacts, TopWeightIs, ArbitrageAssumption DEF ArbitrageInv, GraphInv
<1>2. /\ dist \in [Used -> Int] /\ dist[u] \in Int /\ dist[v] \in Int /\ d \in Int
      /\ dist[u] # Inf /\ d < dist[v] /\ d < Inf
  <2>1. dist \in [Used -> Int] /\ dist[v] <= Inf /\ dist[u] # Inf /\ d < dist[v]
    BY <1>1 DEF DistInv, Shortens
  <2>2. dist[u] \in Int /\ dist[v] \in Int
    BY <2>1, <1>1
  <2> HIDE DEF u, v, w
  <2> QED BY <2>1, <2>2, <1>1
<1>3. /\ Used' = Used /\ Edges' = Edges /\ \A x : Weight(x)' = Weight(x)
  BY SameGraph
<1>4. dist'[v] = d /\ \A m \in Used : m # v => dist'[m] = dist[m]
  BY <1>1, <1>2
<1>5. pred'[v] = u /\ \A m \in Used : m # v => pred'[m] = pred[m]
  BY <1>1 DEF DistInv
<1>6. dist' \in [Used -> Int] /\ pred' \in [Used -> Used \cup {NoMint}]
  BY <1>1, <1>2 DEF DistInv
<1> HIDE DEF u, v, d
<1>7. \A m \in Used : /\ dist[m] \in Int /\ dist'[m] \in Int /\ dist'[m] <= dist[m]
                      /\ dist[m] <= Inf /\ (dist[m] # Inf => dist'[m] # Inf)
  <2> TAKE m \in Used
  <2>1. dist[m] \in Int /\ dist'[m] \in Int /\ dist[m] <= Inf
    BY <1>1, <1>6 DEF DistInv
  <2>2. CASE m = v
    BY <2>1, <2>2, <1>2, <1>4, <1>1
  <2>3. CASE m # v
    BY <2>1, <2>3, <1>4
  <2> QED BY <2>2, <2>3
<1>8. dist'[start] <= 0
  <2>1. dist[start] <= 0
    BY <1>1 DEF DistInv
  <2> QED BY <2>1, <1>7, <1>1
<1>9. \A m \in Used : dist'[m] <= Inf
  BY <1>7, <1>1
<1>10. Known' = Known \cup {v}
  <2>1. dist'[v] # Inf
    BY <1>2, <1>4, <1>1
  <2>2. Known' = {m \in Used : dist'[m] # Inf}
    BY <1>3 DEF Known
  <2> QED BY <2>1, <2>2, <1>1, <1>4 DEF Known
<1> DEFINE c == Cardinality(Known)
           b == (c - 1) * TopWeight
<1>11. c \in Nat /\ b \in Int /\ IsFiniteSet(Known) /\ Known \subseteq Used
       /\ ((c + 1) - 1) * TopWeight = b + TopWeight
  <2>1. IsFiniteSet(Known) /\ Known \subseteq Used
    BY <1>1, FS_Subset DEF Known
  <2>2. c \in Nat
    BY <2>1, FS_CardinalityType
  <2> HIDE DEF c
  <2> QED BY <2>1, <2>2, <1>1, OneMore
<1>12. \A m \in Known : dist[m] <= b
  BY <1>1 DEF DistInv
<1>13. d <= b + TopWeight
  <2>1. u \in Known
    BY <1>1, <1>2 DEF Known
  <2>2. dist[u] <= b
    BY <2>1, <1>12
  <2> HIDE DEF b, w
  <2> QED BY <2>2, <1>1, <1>2, <1>11 DEF d
<1>14. \A m \in Known' : dist'[m] <= (Cardinality(Known') - 1) * TopWeight
  <2>1. CASE v \in Known
    <3>1. Known' = Known
      BY <2>1, <1>10
    <3>2. \A m \in Known : dist'[m] <= b
      <4> TAKE m \in Known
      <4>1. m \in Used /\ dist[m] <= b
        BY <1>11, <1>12
      <4> HIDE DEF b
      <4> QED BY <4>1, <1>7, <1>11
    <3> QED BY <3>1, <3>2
  <2>2. CASE v \notin Known
    <3>1. Cardinality(Known') = c + 1
      BY <2>2, <1>10, <1>11, FS_AddElement
    <3>2. (Cardinality(Known') - 1) * TopWeight = b + TopWeight
      <4> HIDE DEF b, c
      <4> QED BY <3>1, <1>11
    <3>3. \A m \in Known' : dist'[m] <= b + TopWeight
      <4> TAKE m \in Known'
      <4> HIDE DEF b, c
      <4>1. CASE m = v
        BY <4>1, <1>4, <1>13
      <4>2. CASE m # v
        <5>1. m \in Known /\ m \in Used
          BY <4>2, <1>10, <1>11
        <5> QED BY <5>1, <1>1, <1>7, <1>11, <1>12
      <4> QED BY <4>1, <4>2
    <3> QED BY <3>2, <3>3
  <2> QED BY <2>1, <2>2
<1>15. ASSUME NEW m \in Used, pred'[m] # NoMint
       PROVE  /\ <<pred'[m], m>> \in Edges
              /\ dist'[pred'[m]] # Inf
              /\ dist'[pred'[m]] + Weight(<<pred'[m], m>>) <= dist'[m]
  <2>1. CASE m = v
    <3>1. pred'[m] = u /\ <<u, v>> = e /\ dist'[m] = d
      BY <2>1, <1>1, <1>4, <1>5
    <3>2. dist'[u] # Inf
      BY <1>1, <1>2, <1>7
    <3>3. dist'[u] <= dist[u] /\ dist'[u] \in Int
      BY <1>1, <1>7
    <3>4. dist'[u] + w <= d
      <4> HIDE DEF w
      <4> QED BY <3>3, <1>1, <1>2 DEF d
    <3> QED BY <3>1, <3>2, <3>4, <2>1
  <2>2. CASE m # v
    <3>1. pred'[m] = pred[m] /\ pred[m] # NoMint /\ dist'[m] = dist[m]
      BY <2>2, <1>4, <1>5, <1>15
    <3>2. /\ <<pred[m], m>> \in Edges /\ dist[pred[m]] # Inf
          /\ dist[pred[m]] + Weight(<<pred[m], m>>) <= dist[m]
      BY <3>1, <1>1 DEF DistInv
    <3>3. pred[m] \in Used /\ Weight(<<pred[m], m>>) \in Int
      BY <3>2, <1>1, GraphFacts
    <3>4. dist'[pred[m]] # Inf /\ dist'[pred[m]] + Weight(<<pred[m], m>>) <= dist'[m]
      <4> DEFINE x == Weight(<<pred[m], m>>)
                 y == pred[m]
      <4> HIDE DEF x, y
      <4>1. /\ y \in Used /\ x \in Int /\ dist[y] # Inf /\ dist[y] + x <= dist[m]
            /\ dist'[m] = dist[m]
        BY <3>1, <3>2, <3>3 DEF x, y
      <4>2. dist'[y] # Inf /\ dist'[y] + x <= dist'[m]
        BY <4>1, <1>7
      <4> QED BY <4>2 DEF x, y
    <3> QED BY <3>1, <3>2, <3>4
  <2> QED BY <2>1, <2>2
<1>16. \A m \in Known' : pred'[m] = NoMint => m = start /\ dist'[m] = 0
  <2> SUFFICES ASSUME NEW m \in Known', pred'[m] = NoMint PROVE m = start /\ dist'[m] = 0
    OBVIOUS
  <2>1. m # v
    BY <1>1, <1>5
  <2>2. m \in Known /\ m \in Used
    BY <2>1, <1>10, <1>11
  <2>3. pred[m] = NoMint
    BY <2>1, <2>2, <1>5
  <2> QED BY <2>1, <2>2, <2>3, <1>1, <1>4 DEF DistInv
<1> HIDE DEF b, c, w
<1>17. DistInv'
  BY <1>1, <1>3, <1>6, <1>8, <1>9, <1>14, <1>15, <1>16 DEF DistInv
<1> QED BY <1>7, <1>17

\* What holds of distances and predecessors holds while they stay.
LEMMA SameDist ==
  ASSUME ArbitrageInv, offers' = offers, start' = start, dist' = dist, pred' = pred
  PROVE  /\ GraphInv' /\ DistInv' /\ CyclesFall'
         /\ \A p, L : (Labelled(p, L)' <=> Labelled(p, L)) /\ (Kept(p, L)' <=> Kept(p, L))
         /\ \A e : Shortens(e)' <=> Shortens(e)
<1>1. Used' = Used /\ GraphInv' /\ Edges' = Edges /\ (\A e : Weight(e)' = Weight(e))
      /\ \A p, L : (Labelled(p, L)' <=> Labelled(p, L))
  BY SameGraph DEF ArbitrageInv
<1>2. DistInv'
  BY <1>1 DEF ArbitrageInv, DistInv, Known
<1>3. CyclesFall'
  <2> SUFFICES ASSUME NEW K \in SUBSET Used, K # {}, Cyclic(K, pred)
               PROVE  \E L \in [Used -> Int] : Falls(K, pred, L)'
    BY <1>1 DEF CyclesFall, Cyclic
  <2>1. PICK L \in [Used -> Int] : Falls(K, pred, L)
    BY DEF ArbitrageInv, CyclesFall
  <2>2. Falls(K, pred, L)'
    BY <2>1, <1>1 DEF Falls
  <2> QED BY <2>2
<1>4. \A p, L : Kept(p, L)' <=> Kept(p, L)
  BY DEF Kept
<1>5. \A e : Shortens(e)' <=> Shortens(e)
  BY <1>1 DEF Shortens
<1> QED BY <1>1, <1>2, <1>3, <1>4, <1>5

\* Relaxing an edge keeps the invariant.
LEMMA RelaxStep ==
  ASSUME ArbitrageInv, NEW e \in Edges, Relax(e)
  PROVE  ArbitrageInv'
<1>1. /\ offers' = offers /\ start' = start /\ pc = "relax" /\ pc' = "relax" /\ e \in todo
      /\ todo' = todo \ {e} /\ pass' = pass /\ node' = node /\ steps' = steps
      /\ nodes' = nodes /\ route' = route
  BY DEF Relax
<1>2. /\ Edges' = Edges /\ Used' = Used /\ N' = N /\ GraphInv'
      /\ \A p, L : Labelled(p, L)' <=> Labelled(p, L)
  BY <1>1, SameGraph DEF ArbitrageInv
<1>3. /\ e = <<e[1], e[2]>> /\ e[1] \in Used /\ e[2] \in Used /\ Weight(e) \in Int
      /\ dist \in [Used -> Int] /\ GraphInv /\ DistInv /\ PassInv
  BY GraphFacts DEF ArbitrageInv, DistInv
<1>4. DistInv' /\ CyclesFall' /\ \A m \in Used : dist'[m] <= dist[m]
  <2>1. CASE Shortens(e)
    <3>1. /\ dist' = [dist EXCEPT ![e[2]] = dist[e[1]] + Weight(e)]
          /\ pred' = [pred EXCEPT ![e[2]] = e[1]]
      BY <2>1 DEF Relax
    <3>2. DistInv' /\ \A m \in Used : dist'[m] <= dist[m]
      BY <2>1, <3>1, <1>1, ShortenKeepsDist
    <3>3. CyclesFall'
      <4> SUFFICES ASSUME NEW K \in SUBSET Used, K # {}, Cyclic(K, pred')
                   PROVE  \E L \in [Used -> Int] : Falls(K, pred, L)'
        BY <1>2 DEF CyclesFall, Cyclic
      <4>1. PICK q : q = pred'
        OBVIOUS
      <4>2. PICK L \in [Used -> Int] : Falls(K, q, L)
        BY <4>1, <3>1, <2>1, ClosingGains
      <4>3. Falls(K, pred, L)'
        BY <4>1, <4>2, <1>1, SameGraph DEF Falls
      <4> QED BY <4>3
    <3> QED BY <3>2, <3>3
  <2>2. CASE ~Shortens(e)
    <3>1. dist' = dist /\ pred' = pred
      BY <2>2 DEF Relax
    <3>2. DistInv' /\ CyclesFall'
      BY <3>1, <1>1, SameDist
    <3> QED BY <3>1, <3>2, <1>3
  <2> QED BY <2>1, <2>2
<1>5. ASSUME NEW p, NEW L, Labelled(p, L), Kept(p, L)
      PROVE  Kept(p, L)'
  <2>1. p[Len(p)] \in Used /\ L[Len(L)] \in Int /\ Len(L) = Len(p)
    BY <1>5 DEF Labelled
  <2>2. dist'[p[Len(p)]] \in Int /\ dist[p[Len(p)]] \in Int
    BY <2>1, <1>2, <1>3, <1>4 DEF DistInv
  <2> QED BY <2>1, <2>2, <1>4, <1>5 DEF Kept
<1>6. ASSUME NEW p, NEW L, Labelled(p, L), Len(p) = pass + 1, <<p[pass], p[pass + 1]>> = e
      PROVE  Kept(p, L)'
  <2> DEFINE q == SubSeq(p, 1, pass)
             M == SubSeq(L, 1, pass)
  <2>1. /\ p \in Seq(Used) /\ L \in Seq(Int) /\ Len(L) = Len(p) /\ pass \in 1 .. N
        /\ pass \in 1 .. Len(p) /\ N \in Nat
    BY <1>3, <1>6, GraphFacts DEF Labelled, PassInv
  <2>2. Len(q) = pass /\ q[pass] = p[pass] /\ Len(M) = pass /\ M[pass] = L[pass]
    BY <2>1
  <2>3. Labelled(q, M)
    BY <2>1, <1>6, LabelledPrefix
  <2> HIDE DEF q, M
  <2>4. Kept(q, M)
    BY <2>1, <2>2, <2>3, <1>1, <1>3 DEF PassInv
  <2>5. p[pass] = e[1] /\ p[pass + 1] = e[2]
    BY <1>3, <1>6
  <2>6. dist[e[1]] <= L[pass]
    BY <2>2, <2>4, <2>5 DEF Kept
  <2>7. L[pass] < Inf /\ L[pass] + Weight(e) <= L[pass + 1]
    <3>1. pass \in 1 .. Len(p) - 1
      BY <2>1, <1>6
    <3> QED BY <3>1, <1>6 DEF Labelled
  <2>8. /\ L[pass] \in Int /\ L[pass + 1] \in Int /\ Inf \in Int
        /\ dist[e[1]] \in Int /\ dist[e[2]] \in Int
    BY <2>1, <1>3, <1>6, ArbitrageAssumption
  <2>9. dist'[e[2]] <= dist[e[1]] + Weight(e)
    <3>1. CASE Shortens(e)
      <4>1. dist'[e[2]] = dist[e[1]] + Weight(e)
        BY <3>1, <1>3 DEF Relax
      <4> QED BY <4>1, <2>8, <1>3
    <3>2. CASE ~Shortens(e)
      <4>1. dist' = dist
        BY <3>2 DEF Relax
      <4>2. dist[e[1]] # Inf
        BY <2>6, <2>7, <2>8
      <4> QED BY <3>2, <4>1, <4>2, <2>8, <1>3 DEF Shortens
    <3> QED BY <3>1, <3>2
  <2>10. dist'[e[2]] \in Int
    BY <1>2, <1>3, <1>4 DEF DistInv
  <2>11. dist'[e[2]] <= L[pass + 1]
    BY <2>6, <2>7, <2>8, <2>9, <2>10, <1>3
  <2> QED BY <2>5, <2>11, <1>6 DEF Kept
<1>7. PassInv'
  <2>1. pass' \in 1 .. N' /\ todo' \subseteq Edges'
    BY <1>1, <1>2, <1>3 DEF PassInv
  <2>2. ASSUME NEW p, NEW L, Labelled(p, L), Len(p) <= pass PROVE Kept(p, L)'
    BY <2>2, <1>1, <1>3, <1>5 DEF PassInv
  <2>3. ASSUME NEW p, NEW L, Labelled(p, L), Len(p) = pass + 1,
               <<p[pass], p[pass + 1]>> \notin todo'
        PROVE  Kept(p, L)'
    <3>1. CASE <<p[pass], p[pass + 1]>> = e
      BY <3>1, <2>3, <1>6
    <3>2. CASE <<p[pass], p[pass + 1]>> # e
      <4>1. <<p[pass], p[pass + 1]>> \notin todo
        BY <3>2, <2>3, <1>1
      <4>2. Kept(p, L)
        BY <4>1, <2>3, <1>1, <1>3 DEF PassInv
      <4> QED BY <4>2, <2>3, <1>5
    <3> QED BY <3>1, <3>2
  <2> QED BY <2>1, <2>2, <2>3, <1>1, <1>2 DEF PassInv
<1>8. WalkInv'
  BY <1>1, <1>2 DEF ArbitrageInv, WalkInv
<1>9. TraceInv' /\ RouteInv'
  BY <1>1 DEF ArbitrageInv, TraceInv, RouteInv
<1> QED BY <1>1, <1>2, <1>4, <1>7, <1>8, <1>9 DEF ArbitrageInv

\* Ending a pass keeps the invariant: every edge has been visited.
LEMMA EndPassStep ==
  ASSUME ArbitrageInv, EndPass
  PROVE  ArbitrageInv'
<1>1. /\ offers' = offers /\ start' = start /\ dist' = dist /\ pred' = pred
      /\ pc = "relax" /\ todo = {} /\ node' = node /\ steps' = steps
      /\ nodes' = nodes /\ route' = route
  BY DEF EndPass
<1>2. /\ Edges' = Edges /\ Used' = Used /\ N' = N
      /\ GraphInv' /\ DistInv' /\ CyclesFall'
      /\ \A p, L : (Labelled(p, L)' <=> Labelled(p, L)) /\ (Kept(p, L)' <=> Kept(p, L))
  BY <1>1, SameGraph, SameDist
<1>3. N \in Nat \ {0} /\ pass \in 1 .. N /\ Passes = N - 1
  BY GraphFacts DEF ArbitrageInv, PassInv, Passes
<1>4. ASSUME NEW p, NEW L, Labelled(p, L), Len(p) <= pass + 1
      PROVE  Kept(p, L)
  <2>1. Len(p) \in Nat
    BY <1>4 DEF Labelled
  <2>2. Len(p) <= pass \/ Len(p) = pass + 1
    BY <2>1, <1>3, <1>4
  <2> QED BY <2>2, <1>1, <1>4 DEF ArbitrageInv, PassInv
<1>5. CASE pass < Passes
  <2>1. pass' = pass + 1 /\ todo' = Edges /\ pc' = "relax"
    BY <1>1, <1>5 DEF EndPass
  <2>2. pass' \in 1 .. N
    BY <2>1, <1>3, <1>5
  <2>3. ASSUME NEW p, NEW L, Labelled(p, L), Len(p) = (pass + 1) + 1
        PROVE  <<p[pass + 1], p[(pass + 1) + 1]>> \in Edges
    <3>1. pass + 1 \in 1 .. Len(p) - 1
      BY <2>3, <1>3
    <3> QED BY <3>1, <2>3 DEF Labelled
  <2>4. PassInv'
    BY <2>1, <2>2, <2>3, <1>2, <1>4 DEF PassInv
  <2>5. WalkInv' /\ TraceInv' /\ RouteInv'
    BY <2>1, <1>1, <1>2 DEF ArbitrageInv, WalkInv, TraceInv, RouteInv
  <2> QED BY <2>1, <2>4, <2>5, <1>2 DEF ArbitrageInv
<1>6. CASE ~(pass < Passes)
  <2>1. pass' = pass /\ todo' = todo /\ pc' = "nth"
    BY <1>6 DEF EndPass
  <2>2. N <= pass + 1
    BY <1>3, <1>6
  <2>3. ASSUME NEW p, NEW L, Labelled(p, L), Len(p) <= N
        PROVE  Kept(p, L)
    <3>1. Len(p) \in Nat
      BY <2>3 DEF Labelled
    <3> QED BY <3>1, <2>2, <2>3, <1>3, <1>4
  <2>4. PassInv'
    BY <2>1, <2>3, <1>1, <1>2, <1>3 DEF PassInv
  <2>5. WalkInv' /\ TraceInv' /\ RouteInv'
    BY <2>1, <1>1, <1>2 DEF ArbitrageInv, WalkInv, TraceInv, RouteInv
  <2> QED BY <2>1, <2>4, <2>5, <1>2 DEF ArbitrageInv
<1> QED BY <1>5, <1>6

\* So does the nth pass that finds nothing to relax.
LEMMA NothingRelaxesStep ==
  ASSUME ArbitrageInv, NothingRelaxes
  PROVE  ArbitrageInv'
<1>1. /\ offers' = offers /\ start' = start /\ dist' = dist /\ pred' = pred
      /\ pc = "nth" /\ pc' = "none" /\ node' = node /\ steps' = steps
      /\ nodes' = nodes /\ route' = route /\ pass' = pass /\ todo' = todo
      /\ \A e \in Edges : ~Shortens(e)
  BY DEF NothingRelaxes
<1>2. /\ Edges' = Edges /\ Used' = Used /\ N' = N
      /\ GraphInv' /\ DistInv' /\ CyclesFall'
      /\ \A e : Shortens(e)' <=> Shortens(e)
  BY <1>1, SameGraph, SameDist
<1>3. PassInv'
  BY <1>1, <1>2 DEF ArbitrageInv, PassInv
<1>4. WalkInv' /\ TraceInv' /\ RouteInv'
  BY <1>1, <1>2 DEF ArbitrageInv, WalkInv, TraceInv, RouteInv
<1> QED BY <1>1, <1>2, <1>3, <1>4 DEF ArbitrageInv

\* The nth pass finds an edge that still shortens a way, and its target cannot be
\* traced back to start: a path of predecessors from there would be one of at most
\* n - 1 edges, which the passes have kept to.
LEMMA NthLoops ==
  ASSUME ArbitrageInv, NEW e \in Edges, Shortens(e), pc = "nth",
         NEW q, q = [pred EXCEPT ![e[2]] = e[1]]
  PROVE  \E D \in SUBSET Used : e[2] \in D /\ \A m \in D : q[m] \in D
<1> DEFINE v == e[2]
           d == dist[e[1]] + Weight(e)
<1>1. /\ GraphInv /\ DistInv /\ PassInv
      /\ e = <<e[1], v>> /\ e[1] \in Used /\ v \in Used /\ Weight(e) \in Int
      /\ NoMint \notin Used /\ IsFiniteSet(Used) /\ Inf \in Int
      /\ dist \in [Used -> Int] /\ pred \in [Used -> Used \cup {NoMint}]
  BY GraphFacts, ArbitrageAssumption DEF ArbitrageInv, DistInv
<1>2. q[v] = e[1] /\ \A m \in Used : m # v => q[m] = pred[m]
  BY <1>1
<1>3. dist[e[1]] # Inf /\ d < dist[v] /\ d \in Int
  BY <1>1 DEF Shortens
<1>4. q \in [Used -> Used \cup {NoMint}]
  BY <1>1
<1> HIDE DEF v, d
<1> SUFFICES ASSUME NEW n \in 1 .. N, NEW p \in Seq(Used),
                    Len(p) = n, IsInjective(p), p[n] = v, q[p[1]] = NoMint,
                    \A i \in 1 .. n - 1 : q[p[i + 1]] = p[i]
             PROVE  FALSE
  <2>1. Loops(Used, q, v) \/ \E n \in 1 .. N : RootPath(Used, NoMint, q, v, n)
    BY <1>1, <1>4, LoopOrRoot DEF N
  <2> QED BY <2>1 DEF v, Loops, RootPath
<1>5. N \in Nat \ {0} /\ n \in Nat \ {0} /\ DOMAIN p = 1 .. n /\ \A i \in 1 .. n : p[i] \in Used
  BY <1>1, GraphFacts
<1>6. n # 1
  BY <1>1, <1>2
<1>7. n - 1 \in 1 .. n - 1 /\ p[n - 1] = e[1]
  <2>1. n - 1 \in 1 .. n - 1 /\ (n - 1) + 1 = n
    BY <1>5, <1>6
  <2> QED BY <2>1, <1>2
<1>8. \A i \in 1 .. n - 1 : p[i] # v
  BY <1>5 DEF IsInjective
<1>9. ASSUME NEW i \in 1 .. n - 1, i # n - 1
      PROVE  /\ <<p[i], p[i + 1]>> \in Edges /\ dist[p[i]] # Inf
             /\ dist[p[i]] + Weight(<<p[i], p[i + 1]>>) <= dist[p[i + 1]]
  <2>1. i + 1 \in 1 .. n - 1 /\ i \in 1 .. n /\ i + 1 \in 1 .. n
    BY <1>5, <1>9
  <2>2. pred[p[i + 1]] = p[i] /\ p[i] \in Used /\ p[i + 1] \in Used
    BY <2>1, <1>2, <1>5, <1>8
  <2> QED BY <2>2, <1>1 DEF DistInv
<1>10. \A i \in 1 .. n - 1 : dist[p[i]] # Inf /\ dist[p[i]] < Inf /\ dist[p[i]] \in Int
  <2> TAKE i \in 1 .. n - 1
  <2>1. dist[p[i]] # Inf
    BY <1>3, <1>7, <1>9
  <2>2. p[i] \in Used
    BY <1>5
  <2>3. dist[p[i]] <= Inf /\ dist[p[i]] \in Int
    BY <2>2, <1>1 DEF DistInv
  <2> QED BY <2>1, <2>3, <1>1
<1>11. p[1] = start /\ dist[p[1]] = 0
  <2>1. 1 \in 1 .. n - 1 /\ p[1] \in Used
    BY <1>5, <1>6
  <2>2. pred[p[1]] = NoMint /\ p[1] \in Known
    BY <2>1, <1>2, <1>8, <1>10 DEF Known
  <2> QED BY <2>2, <1>1 DEF DistInv
<1> DEFINE L == [i \in 1 .. n |-> IF i < n THEN dist[p[i]] ELSE d]
<1>12. /\ L \in Seq(Int) /\ Len(L) = n /\ L[n] = d
       /\ \A i \in 1 .. n - 1 : L[i] = dist[p[i]]
  <2>1. \A i \in 1 .. n : (IF i < n THEN dist[p[i]] ELSE d) \in Int
    BY <1>3, <1>5, <1>10
  <2>2. L \in [1 .. n -> Int]
    BY <2>1
  <2>3. L[n] = d
    BY <1>5
  <2>4. \A i \in 1 .. n - 1 : i \in 1 .. n /\ i < n
    BY <1>5
  <2>5. \A i \in 1 .. n - 1 : L[i] = dist[p[i]]
    BY <2>4
  <2>6. L \in Seq(Int) /\ Len(L) = n
    BY <2>2, <1>5
  <2> QED BY <2>3, <2>5, <2>6
<1> HIDE DEF L
<1>13. ASSUME NEW i \in 1 .. n - 1
       PROVE  /\ <<p[i], p[i + 1]>> \in Edges
              /\ L[i] < Inf
              /\ L[i] + Weight(<<p[i], p[i + 1]>>) <= L[i + 1]
  <2>1. CASE i = n - 1
    <3>1. p[i] = e[1] /\ p[i + 1] = v /\ L[i] = dist[e[1]] /\ L[i + 1] = d
      BY <2>1, <1>5, <1>7, <1>12
    <3>2. <<p[i], p[i + 1]>> = e
      BY <3>1, <1>1
    <3>3. L[i] < Inf
      BY <1>10, <1>12
    <3>4. L[i] + Weight(e) = L[i + 1] /\ d <= d
      BY <3>1, <1>3 DEF d
    <3> QED BY <3>1, <3>2, <3>3, <3>4, <1>3
  <2>2. CASE i # n - 1
    <3>1. i + 1 \in 1 .. n - 1
      BY <2>2, <1>5
    <3> QED BY <3>1, <2>2, <1>9, <1>10, <1>12
  <2> QED BY <2>1, <2>2
<1>14. Labelled(p, L)
  <2>1. 1 \in 1 .. n - 1
    BY <1>5, <1>6
  <2> QED BY <2>1, <1>5, <1>11, <1>12, <1>13 DEF Labelled
<1>15. Kept(p, L)
  BY <1>1, <1>5, <1>14 DEF PassInv
<1>16. dist[v] <= d
  BY <1>12, <1>15 DEF Kept
<1>17. dist[v] \in Int
  BY <1>1
<1> QED BY <1>3, <1>16, <1>17

\* Starting the walk keeps the invariant.
LEMMA NthPassStep ==
  ASSUME ArbitrageInv, NEW e \in Edges, NthPass(e)
  PROVE  ArbitrageInv'
<1>1. /\ offers' = offers /\ start' = start /\ dist' = dist
      /\ pred' = [pred EXCEPT ![e[2]] = e[1]] /\ node' = e[2]
      /\ pc = "nth" /\ pc' = "walk" /\ steps' = steps
      /\ nodes' = nodes /\ route' = route /\ pass' = pass /\ todo' = todo
      /\ Shortens(e)
  BY DEF NthPass
<1>2. /\ Edges' = Edges /\ Used' = Used /\ N' = N /\ GraphInv'
      /\ \A x : Weight(x)' = Weight(x)
  BY <1>1, SameGraph DEF ArbitrageInv
<1>3. /\ e = <<e[1], e[2]>> /\ e[1] \in Used /\ e[2] \in Used /\ Weight(e) \in Int
      /\ dist \in [Used -> Int] /\ GraphInv /\ DistInv /\ NoMint \notin Used
      /\ pred \in [Used -> Used \cup {NoMint}]
  BY GraphFacts DEF ArbitrageInv, DistInv
<1>4. pred'[e[2]] = e[1] /\ \A m \in Used : m # e[2] => pred'[m] = pred[m]
  BY <1>1, <1>3
<1>5. DistInv'
  <2>1. Known' = Known
    BY <1>1, <1>2 DEF Known
  <2>2. pred' \in [Used -> Used \cup {NoMint}]
    BY <1>1, <1>3
  <2>3. ASSUME NEW m \in Used, pred'[m] # NoMint
        PROVE  /\ <<pred'[m], m>> \in Edges
               /\ dist[pred'[m]] # Inf
               /\ dist[pred'[m]] + Weight(<<pred'[m], m>>) <= dist[m]
    <3>1. CASE m = e[2]
      <4>1. dist[e[1]] # Inf /\ dist[e[1]] + Weight(e) < dist[e[2]]
        BY <1>1 DEF Shortens
      <4>2. dist[e[1]] \in Int /\ dist[e[2]] \in Int
        BY <1>3
      <4>3. dist[e[1]] + Weight(e) <= dist[e[2]]
        BY <4>1, <4>2, <1>3
      <4> QED BY <3>1, <4>1, <4>3, <1>3, <1>4
    <3>2. CASE m # e[2]
      BY <3>2, <2>3, <1>3, <1>4 DEF DistInv
    <3> QED BY <3>1, <3>2
  <2>4. \A m \in Known : pred'[m] = NoMint => m = start /\ dist[m] = 0
    <3> TAKE m \in Known
    <3>1. CASE m = e[2]
      BY <3>1, <1>3, <1>4
    <3>2. CASE m # e[2]
      BY <3>2, <1>3, <1>4 DEF DistInv, Known
    <3> QED BY <3>1, <3>2
  <2> QED BY <2>1, <2>2, <2>3, <2>4, <1>1, <1>2, <1>3 DEF DistInv
<1>6. PICK q : q = pred'
  OBVIOUS
<1>7. CyclesFall'
  <2> SUFFICES ASSUME NEW K \in SUBSET Used, K # {}, Cyclic(K, q)
               PROVE  \E L \in [Used -> Int] : Falls(K, pred, L)'
    BY <1>2, <1>6 DEF CyclesFall, Cyclic
  <2>1. PICK L \in [Used -> Int] : Falls(K, q, L)
    BY <1>1, <1>6, ClosingGains
  <2>2. Falls(K, pred, L)'
    BY <2>1, <1>2, <1>6 DEF Falls
  <2> QED BY <2>2
<1>8. PassInv'
  BY <1>1, <1>2 DEF ArbitrageInv, PassInv
<1>9. WalkInv'
  <2>1. PICK D \in SUBSET Used : e[2] \in D /\ \A m \in D : q[m] \in D
    BY <1>1, <1>6, NthLoops
  <2>2. steps = 0 /\ N \in Nat /\ Cardinality(D) <= N
    BY <1>1, <1>3, GraphFacts, FS_Subset DEF ArbitrageInv, WalkInv, N
  <2>3. Cardinality(D) <= N - steps /\ steps \in 0 .. N
    BY <2>2
  <2>4. nodes = <<>>
    BY <1>1 DEF ArbitrageInv, WalkInv
  <2> QED BY <2>1, <2>3, <2>4, <1>1, <1>2, <1>3, <1>6 DEF WalkInv
<1>10. TraceInv' /\ RouteInv'
  BY <1>1 DEF ArbitrageInv, TraceInv, RouteInv
<1> QED BY <1>1, <1>2, <1>5, <1>7, <1>8, <1>9, <1>10 DEF ArbitrageInv

\* Walking back keeps the invariant: after n steps only a set made of cycles is
\* left.
LEMMA WalkStep ==
  ASSUME ArbitrageInv, Walk
  PROVE  ArbitrageInv'
<1>1. /\ offers' = offers /\ start' = start /\ dist' = dist /\ pred' = pred
      /\ pc = "walk" /\ route' = route /\ pass' = pass /\ todo' = todo
  BY DEF Walk
<1>2. /\ Edges' = Edges /\ Used' = Used /\ N' = N
      /\ GraphInv' /\ DistInv' /\ CyclesFall'
  BY <1>1, SameGraph, SameDist
<1>3. PICK D \in SUBSET Used :
         /\ node \in D
         /\ \A m \in D : pred[m] \in D
         /\ Cyclic(D, pred) \/ Cardinality(D) <= N - steps
  BY <1>1 DEF ArbitrageInv, WalkInv
<1>4. /\ N \in Nat /\ steps \in 0 .. N /\ IsFiniteSet(D) /\ NoMint \notin Used
      /\ pred[node] \in Used /\ node \in Used /\ nodes = <<>> /\ route = <<>>
  <2>1. N \in Nat /\ IsFiniteSet(D) /\ NoMint \notin Used
    BY GraphFacts, FS_Subset DEF ArbitrageInv
  <2> QED BY <2>1, <1>1, <1>3 DEF ArbitrageInv, WalkInv, RouteInv
<1>5. CASE steps = WalkLength
  <2>1. pc' = "trace" /\ nodes' = <<node>> /\ steps' = 0 /\ node' = node
    BY <1>5 DEF Walk
  <2>2. Cyclic(D, pred)
    <3>1. Cardinality(D) # 0 /\ Cardinality(D) \in Nat
      BY <1>3, <1>4, FS_EmptySet, FS_CardinalityType
    <3> QED BY <3>1, <1>3, <1>4, <1>5 DEF WalkLength
  <2>3. TraceInv'
    <3>1. /\ nodes' \in Seq(Used) /\ Len(nodes') = 1 /\ nodes'[1] = node
          /\ DOMAIN nodes' = {1}
      BY <2>1, <1>4
    <3>2. IsInjective(nodes') /\ Range(nodes') \subseteq D
      BY <3>1, <1>3 DEF IsInjective, Range
    <3>3. \A i \in 1 .. Len(nodes') - 1 : pred[nodes'[i]] = nodes'[i + 1]
      BY <3>1
    <3> QED BY <3>1, <3>2, <3>3, <2>1, <2>2, <1>1, <1>2 DEF TraceInv, Cyclic
  <2>4. WalkInv' /\ RouteInv' /\ PassInv'
    BY <2>1, <1>1, <1>2, <1>4 DEF ArbitrageInv, WalkInv, RouteInv, PassInv
  <2> QED BY <2>1, <2>3, <2>4, <1>2 DEF ArbitrageInv
<1>6. CASE steps # WalkLength
  <2>1. node' = pred[node] /\ steps' = steps + 1 /\ pc' = pc /\ nodes' = nodes
    BY <1>4, <1>6 DEF Walk
  <2>2. steps' \in 0 .. N
    BY <2>1, <1>4, <1>6 DEF WalkLength
  <2> DEFINE I == {pred[m] : m \in D}
  <2>3. I \subseteq D /\ node' \in I /\ (\A m \in I : pred[m] \in I) /\ I \in SUBSET Used
    BY <2>1, <1>3
  <2>4. Cyclic(I, pred) \/ Cardinality(I) <= N - steps'
    <3>1. CASE I = D
      <4>1. Cyclic(I, pred)
        BY <3>1 DEF Cyclic
      <4> QED BY <4>1
    <3>2. CASE I # D
      <4>1. Cardinality(D) <= N - steps
        BY <3>2, <1>3 DEF Cyclic
      <4>2. /\ Cardinality(I) <= Cardinality(D) /\ Cardinality(I) # Cardinality(D)
            /\ IsFiniteSet(I)
        <5> HIDE DEF I
        <5> QED BY <3>2, <2>3, <1>4, FS_Subset
      <4>3. Cardinality(I) \in Nat /\ Cardinality(D) \in Nat
        <5> HIDE DEF I
        <5> QED BY <4>2, <1>4, FS_CardinalityType
      <4> HIDE DEF I
      <4> QED BY <4>1, <4>2, <4>3, <2>1, <1>4
    <3> QED BY <3>1, <3>2
  <2>5. WalkInv'
    <3> HIDE DEF I
    <3>1. node' \in Used
      BY <2>3
    <3>2. \E E \in SUBSET Used : /\ node' \in E
                                 /\ \A m \in E : pred[m] \in E
                                 /\ Cyclic(E, pred) \/ Cardinality(E) <= N - steps'
      BY <2>3, <2>4
    <3> QED BY <3>1, <3>2, <2>1, <2>2, <1>1, <1>2, <1>4 DEF WalkInv, Cyclic
  <2>6. TraceInv' /\ RouteInv' /\ PassInv'
    BY <2>1, <1>1, <1>2, <1>4 DEF ArbitrageInv, TraceInv, RouteInv, PassInv
  <2> QED BY <2>1, <2>5, <2>6, <1>1, <1>2 DEF ArbitrageInv
<1> QED BY <1>5, <1>6

\* On a finite set made of cycles no two mints share a predecessor.
LEMMA CyclicIsInjective ==
  ASSUME NEW D, IsFiniteSet(D), NEW q, Cyclic(D, q)
  PROVE  \A a, b \in D : q[a] = q[b] => a = b
<1> DEFINE f == [m \in D |-> q[m]]
<1>1. f \in Surjection(D, D)
  BY DEF Surjection, Cyclic
<1>2. f \in Injection(D, D)
  <2> HIDE DEF f
  <2> QED BY <1>1, FS_SurjSameCardinalityImpliesInj
<1> QED BY <1>2 DEF Injection, IsInjective

\* A sequence without repetitions is no longer than the set it is from is large.
LEMMA InjectiveIsShort ==
  ASSUME NEW S, IsFiniteSet(S), NEW s \in Seq(S), IsInjective(s)
  PROVE  Len(s) <= Cardinality(S)
<1> DEFINE A == 1 .. Len(s)
<1>1. s \in [A -> S]
  OBVIOUS
<1>2. Cardinality(A) = Len(s)
  <2>1. Len(s) \in Nat
    OBVIOUS
  <2>2. Cardinality(1 .. Len(s)) = IF 1 > Len(s) THEN 0 ELSE Len(s) - 1 + 1
    BY <2>1, FS_Interval
  <2> QED BY <2>1, <2>2
<1>3. Cardinality(A) <= Cardinality(S)
  <2> HIDE DEF A
  <2>1. s \in Injection(A, S)
    BY <1>1 DEF Injection
  <2> QED BY <2>1, FS_Injection
<1> QED BY <1>2, <1>3

\* Tracing keeps the invariant: within cycles, what precedes the last mint traced
\* is new or the first.
LEMMA TraceStep ==
  ASSUME ArbitrageInv, Trace
  PROVE  ArbitrageInv'
<1> DEFINE n == Len(nodes)
           cur == pred[nodes[n]]
<1>1. /\ offers' = offers /\ start' = start /\ dist' = dist /\ pred' = pred
      /\ pc = "trace" /\ route' = route /\ pass' = pass /\ todo' = todo
  BY DEF Trace
<1>2. /\ Edges' = Edges /\ Used' = Used /\ N' = N
      /\ GraphInv' /\ DistInv' /\ CyclesFall'
  BY <1>1, SameGraph, SameDist
<1>3. /\ nodes \in Seq(Used) /\ n = steps + 1 /\ steps \in Nat
      /\ IsInjective(nodes)
      /\ \A i \in 1 .. n - 1 : pred[nodes[i]] = nodes[i + 1]
      /\ route = <<>> /\ node \in Used \cup {NoMint}
  BY <1>1 DEF ArbitrageInv, TraceInv, RouteInv, WalkInv
<1>4. PICK D \in SUBSET Used : Range(nodes) \subseteq D /\ Cyclic(D, pred)
  BY <1>1 DEF ArbitrageInv, TraceInv
<1>5. n \in Nat \ {0} /\ DOMAIN nodes = 1 .. n /\ (\A i \in 1 .. n : nodes[i] \in D)
      /\ Append(nodes, cur) = Append(nodes, pred[nodes[Len(nodes)]])
  BY <1>3, <1>4 DEF Range
<1>6. cur \in D /\ cur # NoMint /\ N \in Nat /\ n <= N /\ IsFiniteSet(D)
  <2>1. NoMint \notin Used /\ N \in Nat /\ IsFiniteSet(Used) /\ IsFiniteSet(D)
    BY GraphFacts, FS_Subset DEF ArbitrageInv
  <2>2. cur \in D
    BY <1>4, <1>5 DEF Cyclic
  <2>3. n <= N
    BY <2>1, <1>3, InjectiveIsShort DEF N
  <2> QED BY <2>1, <2>2, <2>3
<1>7. ~(steps > N)
  BY <1>3, <1>6
<1>8. CASE cur = nodes[1]
  <2>1. pc' = "stitch" /\ node' = node /\ steps' = steps /\ nodes' = nodes
    BY <1>6, <1>7, <1>8 DEF Trace
  <2>2. TraceInv'
    <3>1. Len(nodes) > 0
      BY <1>5
    <3> QED BY <3>1, <2>1, <1>1, <1>2, <1>3, <1>8 DEF TraceInv
  <2>3. WalkInv' /\ RouteInv' /\ PassInv'
    BY <2>1, <1>1, <1>2, <1>3 DEF WalkInv, RouteInv, PassInv, ArbitrageInv
  <2> QED BY <2>1, <2>2, <2>3, <1>2 DEF ArbitrageInv
<1>9. CASE cur # nodes[1]
  <2>1. pc' = "trace" /\ node' = node /\ steps' = steps + 1 /\ nodes' = Append(nodes, cur)
    BY <1>1, <1>6, <1>7, <1>9 DEF Trace
  <2>2. \A i \in 1 .. n : nodes[i] # cur
    <3> SUFFICES ASSUME NEW i \in 1 .. n, nodes[i] = cur PROVE FALSE
      OBVIOUS
    <3>1. i # 1
      BY <1>9
    <3>2. i - 1 \in 1 .. n - 1 /\ i - 1 \in 1 .. n /\ (i - 1) + 1 = i
      BY <3>1, <1>5
    <3>3. pred[nodes[i - 1]] = nodes[i]
      BY <3>2, <1>3
    <3>4. nodes[i - 1] \in D /\ nodes[n] \in D
      BY <3>2, <1>5
    <3>5. nodes[i - 1] = nodes[n]
      BY <3>3, <3>4, <1>4, <1>6, CyclicIsInjective
    <3>6. i - 1 = n
      BY <3>2, <3>5, <1>3, <1>5 DEF IsInjective
    <3> QED BY <3>2, <3>6, <1>5
  <2> DEFINE s == Append(nodes, cur)
  <2>3. /\ s \in Seq(Used) /\ Len(s) = n + 1 /\ DOMAIN s = 1 .. n + 1
        /\ s[n + 1] = cur /\ \A i \in 1 .. n : s[i] = nodes[i]
    BY <1>3, <1>4, <1>6
  <2> HIDE DEF s, cur, n
  <2>4. IsInjective(s)
    <3> SUFFICES ASSUME NEW a \in 1 .. n + 1, NEW b \in 1 .. n + 1, s[a] = s[b]
                 PROVE  a = b
      BY <2>3 DEF IsInjective
    <3>1. CASE a \in 1 .. n /\ b \in 1 .. n
      BY <3>1, <2>3, <1>3, <1>5 DEF IsInjective
    <3>2. CASE a = n + 1 /\ b \in 1 .. n
      BY <3>2, <2>2, <2>3
    <3>3. CASE b = n + 1 /\ a \in 1 .. n
      BY <3>3, <2>2, <2>3
    <3>4. CASE a = n + 1 /\ b = n + 1
      BY <3>4
    <3> QED BY <3>1, <3>2, <3>3, <3>4, <1>5
  <2>5. \A i \in 1 .. Len(s) - 1 : pred[s[i]] = s[i + 1]
    <3> TAKE i \in 1 .. Len(s) - 1
    <3>1. i \in 1 .. n
      BY <2>3, <1>5
    <3>2. CASE i = n
      BY <3>2, <3>1, <2>3 DEF cur
    <3>3. CASE i # n
      <4>1. i \in 1 .. n - 1 /\ i + 1 \in 1 .. n
        BY <3>1, <3>3, <1>5
      <4> QED BY <4>1, <3>1, <2>3, <1>3
    <3> QED BY <3>2, <3>3
  <2>6. Range(s) \subseteq D
    <3>1. \A i \in 1 .. n + 1 : s[i] \in D
      <4> TAKE i \in 1 .. n + 1
      <4>1. i \in 1 .. n \/ i = n + 1
        BY <1>5
      <4> QED BY <4>1, <2>3, <1>5, <1>6
    <3> QED BY <3>1, <2>3 DEF Range
  <2>7. nodes' = s /\ Len(s) = steps' + 1 /\ steps' \in Nat
    BY <2>1, <2>3, <1>3, <1>5 DEF s
  <2>8. TraceInv'
    BY <2>1, <2>3, <2>4, <2>5, <2>6, <2>7, <1>1, <1>2, <1>4 DEF TraceInv, Cyclic
  <2>9. WalkInv' /\ RouteInv' /\ PassInv'
    BY <2>1, <1>1, <1>2, <1>3 DEF WalkInv, RouteInv, PassInv, ArbitrageInv
  <2> QED BY <2>1, <2>8, <2>9, <1>2 DEF ArbitrageInv
<1> QED BY <1>8, <1>9

\* Each mint of a closed route is what q says precedes the next.
Backed(r, q) == \A i \in 1 .. Len(r) : q[r[1 + (i % Len(r))]] = r[i]

\* The trace reversed goes forward.
LEMMA ReversedTrace ==
  ASSUME NEW S, NEW s \in Seq(S), Len(s) > 0, IsInjective(s), NEW q,
         \A i \in 1 .. Len(s) - 1 : q[s[i]] = s[i + 1],
         q[s[Len(s)]] = s[1]
  PROVE  /\ Reverse(s) \in Seq(S) /\ Len(Reverse(s)) = Len(s)
         /\ DOMAIN Reverse(s) = 1 .. Len(s)
         /\ IsInjective(Reverse(s))
         /\ Backed(Reverse(s), q)
<1> DEFINE n == Len(s)
           r == Reverse(s)
<1>1. n \in Nat \ {0} /\ DOMAIN s = 1 .. n
  OBVIOUS
<1>2. r = [i \in 1 .. n |-> s[(n - i) + 1]]
  BY DEF Reverse
<1>3. \A i \in 1 .. n : (n - i) + 1 \in 1 .. n
  BY <1>1
<1>4. /\ r \in Seq(S) /\ Len(r) = n /\ DOMAIN r = 1 .. n
      /\ \A i \in 1 .. n : r[i] = s[(n - i) + 1]
  <2>1. r \in [1 .. n -> S]
    BY <1>2, <1>3
  <2> HIDE DEF r
  <2> QED BY <1>1, <1>2, <2>1
<1> HIDE DEF r
<1>5. IsInjective(r)
  <2> SUFFICES ASSUME NEW a \in 1 .. n, NEW b \in 1 .. n, r[a] = r[b] PROVE a = b
    BY <1>4 DEF IsInjective
  <2>1. s[(n - a) + 1] = s[(n - b) + 1]
    BY <1>4
  <2>2. (n - a) + 1 = (n - b) + 1
    BY <2>1, <1>1, <1>3 DEF IsInjective
  <2> QED BY <2>2, <1>1
<1>6. Backed(r, q)
  <2> SUFFICES ASSUME NEW i \in 1 .. n PROVE q[r[1 + (i % n)]] = r[i]
    BY <1>4 DEF Backed
  <2>1. 1 + (i % n) = IF i = n THEN 1 ELSE i + 1
    BY <1>1, NextPosition
  <2>2. CASE i = n
    <3>1. r[1] = s[n] /\ r[i] = s[1]
      <4>1. 1 \in 1 .. n /\ (n - 1) + 1 = n /\ (n - n) + 1 = 1
        BY <1>1
      <4> QED BY <4>1, <2>2, <1>4
    <3> QED BY <3>1, <2>1, <2>2
  <2>3. CASE i # n
    <3> DEFINE k == n - i
    <3>1. k \in 1 .. n - 1 /\ i + 1 \in 1 .. n /\ (n - (i + 1)) + 1 = k /\ (n - i) + 1 = k + 1
      <4> HIDE DEF n
      <4> QED BY <2>3, <1>1
    <3>2. r[i + 1] = s[k] /\ r[i] = s[k + 1]
      BY <3>1, <1>4
    <3> HIDE DEF k
    <3>3. q[s[k]] = s[k + 1]
      BY <3>1
    <3>4. 1 + (i % n) = i + 1
      BY <2>1, <2>3
    <3> HIDE DEF n
    <3> QED BY <3>2, <3>3, <3>4
  <2> QED BY <2>2, <2>3
<1> QED BY <1>4, <1>5, <1>6 DEF r

\* A closed route rotated is the same cycle.
LEMMA RotatedRoute ==
  ASSUME NEW S, NEW r \in Seq(S), NEW j \in 1 .. Len(r), IsInjective(r), NEW q, Backed(r, q)
  PROVE  /\ RotateTo(r, j) \in Seq(S) /\ Len(RotateTo(r, j)) = Len(r)
         /\ RotateTo(r, j)[1] = r[j]
         /\ IsInjective(RotateTo(r, j))
         /\ Backed(RotateTo(r, j), q)
<1> DEFINE n == Len(r)
           t == RotateTo(r, j)
           k == n - j + 1
           u == SubSeq(r, j, n)
           v == SubSeq(r, 1, j - 1)
           at(i) == IF i <= k THEN j + i - 1 ELSE i - k
<1>1. n \in Nat \ {0} /\ DOMAIN r = 1 .. n /\ j \in 1 .. n /\ k \in 1 .. n
  OBVIOUS
<1>2. u \in Seq(S) /\ Len(u) = k /\ \A i \in 1 .. k : u[i] = r[j + i - 1]
  BY <1>1
<1>3. v \in Seq(S) /\ Len(v) = j - 1 /\ \A i \in 1 .. j - 1 : v[i] = r[i]
  BY <1>1
<1>4. t = u \o v
  BY DEF RotateTo
<1> HIDE DEF t, u, v
<1>5. k + (j - 1) = n
  BY <1>1
<1>6. \A i \in 1 .. n : at(i) \in 1 .. n
  BY <1>1
<1>7. /\ t \in Seq(S) /\ Len(t) = n /\ DOMAIN t = 1 .. n
      /\ \A i \in 1 .. n : t[i] = r[at(i)]
  <2>1. t \in Seq(S) /\ Len(t) = k + (j - 1)
    <3>1. u \o v \in Seq(S) /\ Len(u \o v) = Len(u) + Len(v)
      <4>1. u \in Seq(S) /\ v \in Seq(S)
        BY <1>2, <1>3
      <4> QED BY <4>1
    <3> HIDE DEF k
    <3> QED BY <3>1, <1>2, <1>3, <1>4
  <2>2. Len(t) = n /\ DOMAIN t = 1 .. n
    <3> HIDE DEF k
    <3> QED BY <2>1, <1>5
  <2>3. ASSUME NEW i \in 1 .. n PROVE t[i] = r[at(i)]
    <3>1. CASE i <= k
      <4>1. i \in 1 .. Len(u) /\ i \in 1 .. k
        BY <3>1, <1>2
      <4>2. t[i] = u[i]
        <5> HIDE DEF k
        <5> QED BY <4>1, <1>2, <1>3, <1>4
      <4> QED BY <3>1, <4>1, <4>2, <1>2
    <3>2. CASE ~(i <= k)
      <4>1. i - k \in 1 .. j - 1 /\ i \in k + 1 .. k + (j - 1)
        BY <3>2, <1>1, <1>5
      <4>2. t[i] = v[i - k]
        <5> HIDE DEF k
        <5> QED BY <4>1, <1>1, <1>2, <1>3, <1>4
      <4> QED BY <3>2, <4>1, <4>2, <1>3
    <3> QED BY <3>1, <3>2
  <2> HIDE DEF at, n
  <2> QED BY <2>1, <2>2, <2>3
<1>8. IsInjective(t)
  <2> SUFFICES ASSUME NEW a \in 1 .. n, NEW b \in 1 .. n, t[a] = t[b] PROVE a = b
    BY <1>7 DEF IsInjective
  <2>1. at(a) = at(b)
    <3> HIDE DEF at
    <3> QED BY <1>1, <1>6, <1>7 DEF IsInjective
  <2> QED BY <2>1, <1>1
<1>9. t[1] = r[j]
  <2>1. at(1) = j /\ 1 \in 1 .. n
    BY <1>1
  <2> HIDE DEF at
  <2> QED BY <2>1, <1>7
<1>10. Backed(t, q)
  <2> SUFFICES ASSUME NEW i \in 1 .. n PROVE q[t[1 + (i % n)]] = t[i]
    BY <1>7 DEF Backed
  <2> DEFINE next(m) == IF m = n THEN 1 ELSE m + 1
  <2>1. \A m \in 1 .. n : 1 + (m % n) = next(m) /\ next(m) \in 1 .. n
    <3> HIDE DEF n
    <3> TAKE m \in 1 .. n
    <3>1. 1 + (m % n) = next(m)
      BY <1>1, NextPosition
    <3>2. next(m) \in 1 .. n
      BY <1>1
    <3> QED BY <3>1, <3>2
  <2>2. at(next(i)) = next(at(i))
    <3> HIDE DEF n
    <3>1. CASE i < k
      BY <3>1, <1>1
    <3>2. CASE i = k /\ k < n
      BY <3>2, <1>1
    <3>3. CASE i > k /\ i < n
      BY <3>3, <1>1
    <3>4. CASE i = n
      BY <3>4, <1>1
    <3> QED BY <3>1, <3>2, <3>3, <3>4, <1>1
  <2>3. \A m \in 1 .. n : q[r[1 + (m % n)]] = r[m]
    BY DEF Backed
  <2> HIDE DEF at, next, n
  <2>4. t[1 + (i % n)] = r[next(at(i))] /\ t[i] = r[at(i)] /\ at(i) \in 1 .. n
    BY <2>1, <2>2, <1>6, <1>7
  <2>5. q[r[next(at(i))]] = r[at(i)]
    BY <2>1, <2>3, <2>4
  <2> QED BY <2>4, <2>5
<1> QED BY <1>7, <1>8, <1>9, <1>10 DEF t

\* The hops of a backed route are edges.
LEMMA BackedHops ==
  ASSUME GraphInv, DistInv, NEW r \in Seq(Used), Len(r) > 0, Backed(r, pred)
  PROVE  Hops(r) \subseteq Edges
<1> DEFINE n == Len(r)
<1>1. n \in Nat \ {0} /\ DOMAIN r = 1 .. n /\ NoMint \notin Used
      /\ \A i \in 1 .. n : r[i] \in Used
  BY GraphFacts
<1>2. ASSUME NEW i \in 1 .. n
      PROVE  <<r[i], r[1 + (i % n)]>> \in Edges
  <2>1. 1 + (i % n) = IF i = n THEN 1 ELSE i + 1
    <3> HIDE DEF n
    <3> QED BY <1>1, NextPosition
  <2>2. 1 + (i % n) \in 1 .. n
    <3> HIDE DEF n
    <3> QED BY <2>1, <1>1
  <2>3. pred[r[1 + (i % n)]] = r[i]
    BY DEF Backed
  <2> HIDE DEF n
  <2> QED BY <2>2, <2>3, <1>1 DEF DistInv
<1> QED BY <1>1, <1>2 DEF Hops

\* Stitching keeps the invariant: the edges are all there.
LEMMA StitchStep ==
  ASSUME ArbitrageInv, Stitch
  PROVE  ArbitrageInv'
<1>1. /\ offers' = offers /\ start' = start /\ dist' = dist /\ pred' = pred
      /\ pc = "stitch" /\ nodes' = nodes /\ pass' = pass /\ todo' = todo
      /\ node' = node /\ steps' = steps
  BY DEF Stitch
<1>2. /\ Edges' = Edges /\ Used' = Used /\ N' = N
      /\ GraphInv' /\ DistInv' /\ CyclesFall'
  BY <1>1, SameGraph, SameDist
<1>3. /\ nodes \in Seq(Used) /\ Len(nodes) > 0 /\ IsInjective(nodes)
      /\ \A i \in 1 .. Len(nodes) - 1 : pred[nodes[i]] = nodes[i + 1]
      /\ pred[nodes[Len(nodes)]] = nodes[1]
      /\ route = <<>> /\ GraphInv /\ DistInv
  BY <1>1 DEF ArbitrageInv, TraceInv, RouteInv
<1> DEFINE r == SwapOrder
           n == Len(nodes)
<1>4. /\ r \in Seq(Used) /\ Len(r) = n /\ DOMAIN r = 1 .. n /\ IsInjective(r)
      /\ Backed(r, pred) /\ DOMAIN nodes = 1 .. n
  BY <1>3, ReversedTrace DEF SwapOrder
<1> HIDE DEF r
<1>5. Hops(r) \subseteq Edges
  BY <1>3, <1>4, BackedHops
<1>6. WalkInv' /\ PassInv' /\ pc' \in {"nosol", "found"}
  <2>1. pc' \in {"nosol", "found"}
    BY <1>5 DEF Stitch, r
  <2> QED BY <2>1, <1>1, <1>2 DEF ArbitrageInv, WalkInv, PassInv
<1>7. TraceInv'
  BY <1>1, <1>2, <1>3, <1>6 DEF TraceInv
<1>8. RouteInv'
  <2>1. CASE Sol \notin Range(r)
    <3>1. pc' = "nosol" /\ route' = route
      BY <2>1, <1>5 DEF Stitch, r
    <3> QED BY <3>1, <1>3 DEF RouteInv
  <2>2. CASE Sol \in Range(r)
    <3> DEFINE j == CHOOSE i \in DOMAIN nodes : SwapOrder[i] = Sol
    <3>1. pc' = "found" /\ route' = RotateTo(r, j)
      BY <2>2, <1>5 DEF Stitch, r
    <3>2. j \in 1 .. n /\ r[j] = Sol
      <4>1. \E i \in DOMAIN nodes : SwapOrder[i] = Sol
        BY <2>2, <1>4 DEF Range, r
      <4> QED BY <4>1, <1>4 DEF r
    <3> HIDE DEF j
    <3>3. /\ route' \in Seq(Used) /\ Len(route') = n /\ route'[1] = Sol
          /\ IsInjective(route') /\ Backed(route', pred)
      BY <3>1, <3>2, <1>4, RotatedRoute
    <3> QED BY <3>1, <3>3, <1>1, <1>2, <1>3 DEF RouteInv, Backed
  <2> QED BY <2>1, <2>2
<1> QED BY <1>2, <1>6, <1>7, <1>8 DEF ArbitrageInv

(* The theorems.                                                           *)

\* The search stays in the invariant.
THEOREM ArbitrageInvariant == Spec => []ArbitrageInv
<1>1. ArbitrageInv /\ [Next]_vars => ArbitrageInv'
  <2> SUFFICES ASSUME ArbitrageInv, [Next]_vars PROVE ArbitrageInv'
    OBVIOUS
  <2>1. CASE \E e \in Edges : Relax(e)
    BY <2>1, RelaxStep
  <2>2. CASE EndPass
    BY <2>2, EndPassStep
  <2>3. CASE \E e \in Edges : NthPass(e)
    BY <2>3, NthPassStep
  <2>4. CASE NothingRelaxes
    BY <2>4, NothingRelaxesStep
  <2>5. CASE Walk
    BY <2>5, WalkStep
  <2>6. CASE Trace
    BY <2>6, TraceStep
  <2>7. CASE Stitch
    BY <2>7, StitchStep
  <2>8. CASE UNCHANGED vars
    <3>1. /\ offers' = offers /\ start' = start /\ dist' = dist /\ pred' = pred
          /\ pc' = pc /\ pass' = pass /\ todo' = todo /\ node' = node
          /\ steps' = steps /\ nodes' = nodes /\ route' = route
      BY <2>8 DEF vars
    <3>2. /\ Edges' = Edges /\ Used' = Used /\ N' = N
          /\ GraphInv' /\ DistInv' /\ CyclesFall'
          /\ \A p, L : (Labelled(p, L)' <=> Labelled(p, L)) /\ (Kept(p, L)' <=> Kept(p, L))
          /\ \A e : Shortens(e)' <=> Shortens(e)
      BY <3>1, SameGraph, SameDist
    <3>3. PassInv'
      BY <3>1, <3>2 DEF ArbitrageInv, PassInv
    <3>4. WalkInv' /\ TraceInv' /\ RouteInv'
      BY <3>1, <3>2 DEF ArbitrageInv, WalkInv, TraceInv, RouteInv, Cyclic
    <3> QED BY <3>1, <3>2, <3>3, <3>4 DEF ArbitrageInv
  <2> QED BY <2>1, <2>2, <2>3, <2>4, <2>5, <2>6, <2>7, <2>8 DEF Next
<1> QED BY <1>1, InitArbInv, PTL DEF Spec

\* The early returns of the reconstruction are never taken (NeverGivesUp).
THEOREM ReconstructionSucceeds == Spec => []NeverGivesUp
<1>1. ArbitrageInv => NeverGivesUp
  BY DEF ArbitrageInv, NeverGivesUp
<1> QED BY <1>1, ArbitrageInvariant, PTL

\* The type invariant; no trace is longer than there are mints.
THEOREM TypeCorrect == Spec => []TypeOK
<1>1. ArbitrageInv => TypeOK
  <2> SUFFICES ASSUME ArbitrageInv PROVE TypeOK
    OBVIOUS
  <2>1. start \in Used /\ pass \in 1 .. N /\ todo \subseteq Edges
        /\ node \in Used \cup {NoMint} /\ (pc # "found" => route = <<>>)
        /\ \A m \in Used : dist[m] \in Int /\ pred[m] \in Used \cup {NoMint}
    BY DEF ArbitrageInv, GraphInv, PassInv, WalkInv, RouteInv, DistInv
  <2>2. Range(nodes) \subseteq Used /\ Len(nodes) <= N
    <3>1. IsFiniteSet(Used) /\ N \in Nat
      BY GraphFacts DEF ArbitrageInv
    <3>2. CASE nodes = <<>>
      BY <3>1, <3>2 DEF Range
    <3>3. CASE nodes # <<>>
      <4>1. nodes \in Seq(Used) /\ IsInjective(nodes)
        BY <3>3 DEF ArbitrageInv, WalkInv, TraceInv
      <4>2. Len(nodes) <= N
        BY <3>1, <4>1, InjectiveIsShort DEF N
      <4> QED BY <4>1, <4>2 DEF Range
    <3> QED BY <3>2, <3>3
  <2>3. pc \in {"relax", "nth", "walk", "trace", "stitch", "none", "nosol", "found"}
    BY DEF ArbitrageInv
  <2> QED BY <2>1, <2>2, <2>3 DEF TypeOK
<1> QED BY <1>1, ArbitrageInvariant, PTL

\* The route returned starts and ends at Sol, visits no mint twice, uses live edges
\* and gains (RouteIsArbitrage).
THEOREM RoutesGain == Spec => []RouteIsArbitrage
<1>1. ArbitrageInv => RouteIsArbitrage
  <2> SUFFICES ASSUME ArbitrageInv, pc = "found"
               PROVE  /\ route[1] = Sol /\ IsInjective(route)
                      /\ Hops(route) \subseteq Edges /\ Cost(route) < 0
    BY DEF RouteIsArbitrage
  <2> DEFINE n == Len(route)
             K == Range(route)
  <2>1. /\ route \in Seq(Used) /\ n > 0 /\ IsInjective(route) /\ route[1] = Sol
        /\ Backed(route, pred) /\ GraphInv /\ DistInv /\ CyclesFall
    BY DEF ArbitrageInv, RouteInv, Backed
  <2>2. Hops(route) \subseteq Edges
    BY <2>1, BackedHops
  <2>3. n \in Nat \ {0} /\ DOMAIN route = 1 .. n /\ \A i \in 1 .. n : route[i] \in Used
    BY <2>1
  <2>4. \A i \in 1 .. n : /\ 1 + (i % n) \in 1 .. n
                          /\ 1 + (i % n) = IF i = n THEN 1 ELSE i + 1
    <3> HIDE DEF n
    <3> TAKE i \in 1 .. n
    <3>1. 1 + (i % n) = IF i = n THEN 1 ELSE i + 1
      BY <2>3, NextPosition
    <3>2. 1 + (i % n) \in 1 .. n
      BY <3>1, <2>3
    <3> QED BY <3>1, <3>2
  <2>5. \A i \in 1 .. n : pred[route[1 + (i % n)]] = route[i]
    BY <2>1 DEF Backed
  <2>6. \A k \in 1 .. n : \E i \in 1 .. n : 1 + (i % n) = k
    <3> HIDE DEF n
    <3> TAKE k \in 1 .. n
    <3>1. CASE k = 1
      <4>1. n \in 1 .. n /\ 1 + (n % n) = 1
        BY <2>3, <2>4
      <4> QED BY <4>1, <3>1
    <3>2. CASE k # 1
      <4>1. k - 1 \in 1 .. n /\ k - 1 # n
        BY <3>2, <2>3
      <4>2. 1 + ((k - 1) % n) = k
        BY <4>1, <2>4
      <4> QED BY <4>1, <4>2
    <3> QED BY <3>1, <3>2
  <2> HIDE DEF n
  <2>7. K \in SUBSET Used /\ K # {}
    <3>1. 1 \in 1 .. n
      BY <2>3
    <3> QED BY <3>1, <2>3 DEF Range
  <2>8. Cyclic(K, pred)
    <3>1. \A m \in K : pred[m] \in K
      <4> TAKE m \in K
      <4>1. PICK k \in 1 .. n : m = route[k]
        BY <2>3 DEF Range
      <4>2. PICK i \in 1 .. n : 1 + (i % n) = k
        BY <2>6
      <4>3. pred[m] = route[i]
        BY <4>1, <4>2, <2>5
      <4> QED BY <4>3, <2>3 DEF Range
    <3>2. \A m \in K : \E x \in K : pred[x] = m
      <4> TAKE m \in K
      <4>1. PICK i \in 1 .. n : m = route[i]
        BY <2>3 DEF Range
      <4>2. route[1 + (i % n)] \in K
        BY <2>3, <2>4 DEF Range
      <4> QED BY <4>1, <4>2, <2>5
    <3> QED BY <3>1, <3>2 DEF Cyclic
  <2>9. PICK L \in [Used -> Int] : Falls(K, pred, L)
    BY <2>1, <2>7, <2>8 DEF CyclesFall
  <2>10. \A i \in 1 .. n : HopAt(route, i) = <<route[i], route[1 + (i % n)]>>
    BY DEF HopAt, n
  <2>11. \A i \in 1 .. n :
           L[route[i]] + Weight(HopAt(route, i)) <= L[route[1 + (i % n)]]
    <3> TAKE i \in 1 .. n
    <3>1. route[1 + (i % n)] \in K
      BY <2>3, <2>4 DEF Range
    <3> QED BY <3>1, <2>5, <2>9, <2>10 DEF Falls
  <2>12. PICK j \in 1 .. n :
           L[route[j]] + Weight(HopAt(route, j)) < L[route[1 + (j % n)]]
    <3>1. PICK m \in K : L[pred[m]] + Weight(<<pred[m], m>>) < L[m]
      BY <2>9 DEF Falls
    <3>2. PICK k \in 1 .. n : m = route[k]
      BY <2>3 DEF Range
    <3>3. PICK j \in 1 .. n : 1 + (j % n) = k
      BY <2>6
    <3>4. L[route[j]] + Weight(HopAt(route, j)) < L[route[1 + (j % n)]]
      BY <3>1, <3>2, <3>3, <2>5, <2>10
    <3> QED BY <3>4
  <2>13. \A h \in Hops(route) : Weight(h) \in Int
    BY <2>1, <2>2, GraphFacts
  <2>14. Len(route) = n /\ \A i \in 1 .. n : L[route[i]] \in Int
    BY <2>3, <2>9 DEF n
  <2>15. Cost(route) < 0
    BY <2>1, <2>3, <2>11, <2>12, <2>13, <2>14, CycleGains
  <2> QED BY <2>1, <2>2, <2>15
<1> QED BY <1>1, ArbitrageInvariant, PTL

\* Multiples of a number grow with the factor.
LEMMA MoreTimes ==
  ASSUME NEW a \in Nat, NEW b \in Nat, a <= b, NEW t \in Nat
  PROVE  a * t <= b * t /\ a * t \in Int /\ b * t \in Int
<1>1. b = a + (b - a) /\ b - a \in Nat
  OBVIOUS
<1>2. (a + (b - a)) * t = a * t + (b - a) * t
  OBVIOUS
<1>3. (b - a) * t >= 0 /\ (b - a) * t \in Int /\ a * t \in Int /\ b * t \in Int
  BY <1>1
<1>4. b * t = a * t + (b - a) * t
  BY <1>1, <1>2
<1> QED BY <1>3, <1>4

\* When nothing relaxes, the distances that are known are those of all mints in
\* reach: no weight is large enough to pass for Inf.
LEMMA ReachIsKnown ==
  ASSUME ArbitrageInv, pc = "none"
  PROVE  /\ Reachable \subseteq Known
         /\ \A e \in Edges : e[1] \in Known =>
              e[2] \in Known /\ dist[e[1]] + Weight(e) >= dist[e[2]]
<1>1. /\ GraphInv /\ DistInv /\ IsFiniteSet(Used) /\ N \in Nat
      /\ N <= Cardinality(Mints) /\ Inf \in Int /\ TopWeight \in Nat
      /\ Cardinality(Mints) \in Nat /\ Cardinality(Mints) * TopWeight < Inf
      /\ dist \in [Used -> Int] /\ start \in Used
      /\ \A e \in Edges : ~Shortens(e)
  BY GraphFacts, TopWeightIs, ArbitrageAssumption
     DEF ArbitrageInv, PassInv, DistInv, GraphInv
<1> DEFINE c == Cardinality(Known)
           M == Cardinality(Mints)
<1>2. Known \in SUBSET Used /\ IsFiniteSet(Known) /\ c \in Nat
  <2>1. Known \in SUBSET Used
    BY DEF Known
  <2>2. IsFiniteSet(Known)
    BY <2>1, <1>1, FS_Subset
  <2> QED BY <2>1, <2>2, FS_CardinalityType
<1>3. ASSUME NEW e \in Edges, e[1] \in Known
      PROVE  e[2] \in Known /\ dist[e[1]] + Weight(e) >= dist[e[2]]
  <2>1. /\ e[1] \in Used /\ e[2] \in Used /\ Weight(e) \in Int /\ Weight(e) <= TopWeight
        /\ dist[e[1]] \in Int /\ dist[e[2]] \in Int /\ dist[e[1]] # Inf
    BY <1>1, <1>3, GraphFacts DEF Known
  <2>2. dist[e[1]] + Weight(e) >= dist[e[2]]
    BY <2>1, <1>1 DEF Shortens
  <2>3. ASSUME e[2] \notin Known PROVE FALSE
    <3>1. dist[e[2]] = Inf
      BY <2>1, <2>3 DEF Known
    <3>2. c + 1 <= M
      <4>1. Known \cup {e[2]} \in SUBSET Used
        BY <1>2, <2>1
      <4>2. Cardinality(Known \cup {e[2]}) <= N
        BY <4>1, <1>1, FS_Subset DEF N
      <4>3. Cardinality(Known \cup {e[2]}) = c + 1
        BY <2>3, <1>2, FS_AddElement
      <4> HIDE DEF c, M
      <4> QED BY <4>2, <4>3, <1>1, <1>2 DEF M
    <3>3. dist[e[1]] <= (c - 1) * TopWeight
      BY <1>1, <1>3 DEF DistInv
    <3> HIDE DEF c, M
    <3>4. (c - 1) * TopWeight + TopWeight = c * TopWeight /\ (c - 1) * TopWeight \in Int
      BY <1>1, <1>2, OneMore
    <3>5. c * TopWeight <= M * TopWeight /\ c * TopWeight \in Int /\ M * TopWeight \in Int
      BY <1>1, <1>2, <3>2, MoreTimes DEF M
    <3>6. M * TopWeight < Inf
      BY <1>1 DEF M
    <3> DEFINE x == c * TopWeight
               y == (c - 1) * TopWeight
               z == M * TopWeight
    <3>7. /\ y + TopWeight = x /\ y \in Int /\ x <= z /\ x \in Int /\ z \in Int
          /\ z < Inf /\ dist[e[1]] <= y
      BY <3>3, <3>4, <3>5, <3>6
    <3> HIDE DEF x, y, z
    <3> QED BY <3>1, <3>7, <2>1, <2>2, <1>1
  <2> QED BY <2>2, <2>3
<1>4. start \in Known
  <2>1. M * TopWeight >= 0 /\ M * TopWeight \in Int
    BY <1>1
  <2>2. 0 < Inf
    <3> DEFINE z == M * TopWeight
    <3>1. z >= 0 /\ z \in Int /\ z < Inf
      BY <2>1, <1>1
    <3> HIDE DEF z
    <3> QED BY <3>1, <1>1
  <2>3. dist[start] <= 0 /\ dist[start] \in Int
    BY <1>1 DEF DistInv
  <2> QED BY <2>2, <2>3, <1>1 DEF Known
<1>5. Reachable \subseteq Known
  BY <1>2, <1>3, <1>4 DEF Reachable
<1> QED BY <1>3, <1>5

\* A cycle that touches a set which no edge leaves lies in it.
LEMMA CycleStaysIn ==
  ASSUME NEW n \in Nat \ {0}, NEW c, Len(c) = n, DOMAIN c = 1 .. n, Hops(c) \subseteq Edges,
         NEW S, \A e \in Edges : e[1] \in S => e[2] \in S,
         NEW k \in 1 .. n, c[k] \in S
  PROVE  \A i \in 1 .. n : c[i] \in S
<1>1. ASSUME NEW i \in 1 .. n, c[i] \in S
      PROVE  c[IF i = n THEN 1 ELSE i + 1] \in S
  <2>1. 1 + (i % n) = IF i = n THEN 1 ELSE i + 1
    BY NextPosition
  <2>2. <<c[i], c[1 + (i % n)]>> \in Edges
    BY DEF Hops
  <2>3. c[1 + (i % n)] \in S
    BY <2>2, <1>1
  <2> QED BY <2>1, <2>3
<1>2. c[n] \in S
  <2> DEFINE T == {d \in 0 .. n - k : c[k + d] \in S}
  <2>1. n - k \in Nat /\ 0 \in T
    OBVIOUS
  <2>2. ASSUME NEW d \in 0 .. n - k, d < n - k, d \in T PROVE d + 1 \in T
    <3>1. k + d \in 1 .. n /\ k + d # n /\ (k + d) + 1 = k + (d + 1) /\ d + 1 \in 0 .. n - k
      BY <2>1, <2>2
    <3>2. c[k + d] \in S
      BY <2>2
    <3>3. c[(k + d) + 1] \in S
      BY <3>1, <3>2, <1>1
    <3> QED BY <3>1, <3>3
  <2>3. n - k \in T
    <3> HIDE DEF T
    <3>1. 0 .. n - k \subseteq T
      BY <2>1, <2>2, Climb
    <3> QED BY <3>1, <2>1
  <2>4. k + (n - k) = n
    OBVIOUS
  <2> QED BY <2>3, <2>4
<1>3. c[1] \in S
  <2>1. n \in 1 .. n
    OBVIOUS
  <2> QED BY <2>1, <1>1, <1>2
<1> DEFINE T == {d \in 0 .. n - 1 : c[1 + d] \in S}
<1>4. n - 1 \in Nat /\ 0 \in T
  BY <1>3
<1>5. ASSUME NEW d \in 0 .. n - 1, d < n - 1, d \in T PROVE d + 1 \in T
  <2>1. 1 + d \in 1 .. n /\ 1 + d # n /\ (1 + d) + 1 = 1 + (d + 1) /\ d + 1 \in 0 .. n - 1
    BY <1>4, <1>5
  <2>2. c[1 + d] \in S
    BY <1>5
  <2>3. c[(1 + d) + 1] \in S
    BY <2>1, <2>2, <1>1
  <2> QED BY <2>1, <2>3
<1>6. 0 .. n - 1 \subseteq T
  <2> HIDE DEF T
  <2> QED BY <1>4, <1>5, Climb
<1>7. ASSUME NEW i \in 1 .. n PROVE c[i] \in S
  <2>1. i - 1 \in 0 .. n - 1 /\ 1 + (i - 1) = i
    OBVIOUS
  <2>2. i - 1 \in T
    <3> HIDE DEF T
    <3> QED BY <2>1, <1>6
  <2> QED BY <2>1, <2>2
<1> QED BY <1>7

\* If the search returns none, no cycle that start can reach gains, through
\* whichever of the parallel pools (NothingMissed).
THEOREM NoneMeansNone == Spec => []NothingMissed
<1>1. ArbitrageInv => NothingMissed
  <2> SUFFICES ASSUME ArbitrageInv, pc = "none", NEW c \in Cycles,
                      Range(c) \cap Reachable # {}
               PROVE  LeastCost(c) >= 0
    BY DEF NothingMissed
  <2>1. PICK n \in 2 .. N : c \in [1 .. n -> Used] /\ IsInjective(c) /\ Hops(c) \subseteq Edges
    BY DEF Cycles
  <2>2. N \in Nat /\ DistInv /\ dist \in [Used -> Int]
    BY GraphFacts DEF ArbitrageInv, DistInv
  <2>3. n \in Nat \ {0} /\ DOMAIN c = 1 .. n /\ Len(c) = n
    BY <2>1, <2>2
  <2>4. PICK k \in 1 .. n : c[k] \in Reachable
    BY <2>3 DEF Range
  <2>5. /\ c[k] \in Known
        /\ \A e \in Edges : e[1] \in Known =>
             e[2] \in Known /\ dist[e[1]] + Weight(e) >= dist[e[2]]
    BY <2>4, ReachIsKnown
  <2>6. \A i \in 1 .. n : c[i] \in Known
    BY <2>1, <2>3, <2>5, CycleStaysIn
  <2>7. \A h \in Hops(c) : Weight(h) \in Int
    BY <2>1, GraphFacts DEF ArbitrageInv
  <2>8. \A i \in 1 .. n : dist[c[i]] \in Int
    BY <2>1, <2>2
  <2>9. \A i \in 1 .. n : dist[c[i]] + Weight(HopAt(c, i)) >= dist[c[1 + (i % n)]]
    <3> TAKE i \in 1 .. n
    <3>1. HopAt(c, i) \in Edges
      BY <2>1, <2>3 DEF Hops, HopAt
    <3>2. HopAt(c, i)[1] = c[i] /\ HopAt(c, i)[2] = c[1 + (i % n)]
      BY <2>3 DEF HopAt
    <3> QED BY <3>1, <3>2, <2>5, <2>6
  <2>10. Cost(c) >= 0
    BY <2>1, <2>3, <2>7, <2>8, <2>9, CycleGainsNot
  <2>11. LeastCost(c) = Cost(c)
    BY DEF LeastCost, Cost, Weight, MapThenSumSet, MapThenFoldSet
  <2> QED BY <2>10, <2>11
<1> QED BY <1>1, ArbitrageInvariant, PTL
=============================================================================
