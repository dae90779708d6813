------------------------------- MODULE Facts --------------------------------
(***************************************************************************)
(* What the proofs of several components need to know of naturals, of      *)
(* recursive functions, of folds and of sums.                              *)
(***************************************************************************)
EXTENDS Integers, Sequences, FiniteSetsExt, FiniteSetTheorems, WellFoundedInduction, TLAPS

\* Of some naturals there is a least.
LEMMA LeastNatural ==
  ASSUME NEW T \in SUBSET Nat, T # {}
  PROVE  \E x \in T : \A y \in T : x <= y
<1>1. PICK x \in T : \A y \in T : <<y, x>> \notin OpToRel(<, Nat)
  BY NatLessThanWellFounded, WFMin
<1>2. \A y \in T : <<y, x>> \in OpToRel(<, Nat) <=> y < x
  BY DEF OpToRel
<1>3. \A y \in T : ~(y < x)
  BY <1>1, <1>2, Zenon
<1> QED
  BY <1>3

\* Whatever holds of 0 and goes on holds up to n.
LEMMA Climbs ==
  ASSUME NEW n \in Nat, NEW T, 0 \in T, \A k \in 1..n : k - 1 \in T => k \in T
  PROVE  \A k \in 0..n : k \in T
<1> DEFINE wrong == {k \in 0..n : k \notin T}
<1> SUFFICES ASSUME wrong # {} PROVE FALSE
  OBVIOUS
<1>1. wrong \in SUBSET Nat
  OBVIOUS
<1>2. PICK k \in wrong : \A j \in wrong : k <= j
  BY <1>1, LeastNatural
<1>3. k \in 1..n /\ k - 1 \in 0..n /\ k - 1 \notin wrong
  BY <1>2
<1> QED
  BY <1>2, <1>3

LEMMA LargestIs ==
  ASSUME NEW n \in Nat, NEW s \in SUBSET (1..n), s # {}
  PROVE  Max(s) \in s /\ \A x \in s : x <= Max(s)
<1> DEFINE T == {n - x : x \in s}
<1>1. T \in SUBSET Nat /\ T # {}
  <2>1. \A x \in s : n - x \in Nat
    OBVIOUS
  <2>2. \E x \in s : n - x \in T
    OBVIOUS
  <2> QED
    BY <2>1, <2>2
<1>2. PICK y \in T : \A z \in T : y <= z
  BY <1>1, LeastNatural
<1>3. PICK x \in s : y = n - x
  OBVIOUS
<1>4. \A z \in s : x >= z
  <2>1. ASSUME NEW z \in s PROVE x >= z
    <3>1. n - z \in T
      OBVIOUS
    <3>2. y <= n - z
      BY <1>2, <3>1
    <3> QED
      BY <1>3, <3>2
  <2> QED
    BY <2>1
<1> QED
  BY <1>3, <1>4 DEF Max

\* G, which gives the value of a function f at c, uses only its values at points of
\* lower rank.
DescendsBy(rank, D, V, G) ==
  \A c \in D : \A f, g \in [D -> V] :
    (\A x \in D : rank[x] < rank[c] => f[x] = g[x]) => G[<<c, f>>] = G[<<c, g>>]

Solves(f, D, G) == \A c \in D : f[c] = G[<<c, f>>]

\* There is such a function.
LEMMA FunctionExists ==
  ASSUME NEW D, NEW V, V # {}, NEW N \in Nat, NEW rank \in [D -> 0..N],
         NEW G \in [D \X [D -> V] -> V], DescendsBy(rank, D, V, G)
  PROVE  \E f \in [D -> V] : Solves(f, D, G)
<1> DEFINE Holds(n) ==
             \E f \in [D -> V] : \A c \in D : rank[c] < n => f[c] = G[<<c, f>>]
           fails == {n \in Nat : ~Holds(n)}
<1>1. \A c \in D : rank[c] \in 0..N
  OBVIOUS
<1>2. Holds(0)
  <2>1. PICK v \in V : TRUE
    OBVIOUS
  <2>2. [c \in D |-> v] \in [D -> V]
    OBVIOUS
  <2>3. \A c \in D : ~(rank[c] < 0)
    BY <1>1
  <2> QED
    BY <2>2, <2>3
<1>3. ASSUME NEW n \in Nat, Holds(n) PROVE Holds(n + 1)
  <2>1. PICK f \in [D -> V] : \A c \in D : rank[c] < n => f[c] = G[<<c, f>>]
    BY <1>3
  <2> DEFINE g == [c \in D |-> G[<<c, f>>]]
  <2>2. g \in [D -> V]
    OBVIOUS
  <2>3. ASSUME NEW c \in D, rank[c] < n + 1 PROVE g[c] = G[<<c, g>>]
    <3>1. \A x \in D : rank[x] < rank[c] => f[x] = g[x]
      BY <1>1, <2>1, <2>3
    <3> QED
      BY <2>2, <3>1 DEF DescendsBy
  <2> QED
    BY <2>2, <2>3
<1>4. fails = {}
  <2> SUFFICES ASSUME fails # {} PROVE FALSE
    OBVIOUS
  <2> HIDE DEF Holds
  <2>1. PICK n \in fails : \A m \in fails : n <= m
    BY LeastNatural
  <2>2. n # 0 /\ n - 1 \in Nat /\ n - 1 \notin fails
    BY <1>2, <2>1
  <2>3. Holds((n - 1) + 1)
    BY <1>3, <2>2
  <2> QED
    BY <2>1, <2>2, <2>3
<1>5. Holds(N + 1)
  <2> HIDE DEF Holds
  <2> QED
    BY <1>4
<1>6. PICK f \in [D -> V] : \A c \in D : rank[c] < N + 1 => f[c] = G[<<c, f>>]
  BY <1>5
<1>7. Solves(f, D, G)
  BY <1>1, <1>6 DEF Solves
<1> QED
  BY <1>6, <1>7

-----------------------------------------------------------------------------
(***************************************************************************)
(* Folds.  FoldLeft() is a recursive function of the sets of indices.      *)
(***************************************************************************)

\* The prefixes of a sequence are what such a function calls itself with.
LEMMA PrefixIs ==
  ASSUME NEW k \in Nat \ {0}
  PROVE  1..k # {} /\ Max(1..k) = k /\ (1..k) \ {k} = 1..(k - 1)
<1>1. k \in Nat /\ 1..k \in SUBSET (1..k) /\ k \in 1..k /\ 1..k # {}
  OBVIOUS
<1>2. Max(1..k) \in 1..k /\ k <= Max(1..k)
  BY <1>1, LargestIs
<1> QED
  BY <1>1, <1>2

FoldsBy(iter, F, base, r) ==
  \A s \in SUBSET DOMAIN r :
    iter[s] = IF s = {} THEN base ELSE F[<<iter[s \ {Max(s)}], r[Max(s)]>>]

LEMMA FoldExists ==
  ASSUME NEW V, NEW E, NEW F \in [V \X E -> V], NEW base \in V, NEW r \in Seq(E)
  PROVE  \E iter \in [SUBSET DOMAIN r -> V] : FoldsBy(iter, F, base, r)
<1> DEFINE S == DOMAIN r
           D == SUBSET S
           made(g, s) == IF s = {} THEN base ELSE F[<<g[s \ {Max(s)}], r[Max(s)]>>]
           G == [p \in D \X [D -> V] |-> made(p[2], p[1])]
           rank == [s \in D |-> Cardinality(s)]
           N == Cardinality(S)
<1>1. S = 1..Len(r) /\ Len(r) \in Nat /\ IsFiniteSet(S)
  <2>1. S = 1..Len(r) /\ Len(r) \in Nat
    OBVIOUS
  <2> QED
    BY <2>1, FS_Interval
<1>2. \A s \in D : s # {} => Max(s) \in s /\ r[Max(s)] \in E /\ s \ {Max(s)} \in D
  <2>1. \A s \in D : s # {} => Max(s) \in s
    BY <1>1, LargestIs
  <2>2. \A x \in S : r[x] \in E
    OBVIOUS
  <2> QED
    BY <2>1, <2>2
<1>3. ASSUME NEW s \in D
      PROVE  /\ Cardinality(s) \in 0..N /\ N \in Nat
             /\ s # {} => Cardinality(s \ {Max(s)}) < Cardinality(s)
  <2>1. IsFiniteSet(s) /\ Cardinality(s) \in Nat /\ N \in Nat /\ Cardinality(s) <= N
    BY <1>1, FS_Subset, FS_CardinalityType
  <2>2. ASSUME s # {} PROVE Cardinality(s \ {Max(s)}) = Cardinality(s) - 1
    BY <1>2, <2>1, <2>2, FS_RemoveElement
  <2> QED
    BY <2>1, <2>2
<1>4. rank \in [D -> 0..N] /\ N \in Nat
  BY <1>3
<1>5. ASSUME NEW s \in D, NEW g \in [D -> V] PROVE made(g, s) \in V
  <2>1. CASE s = {}
    BY <2>1
  <2>2. CASE s # {}
    <3>1. g[s \ {Max(s)}] \in V /\ r[Max(s)] \in E
      BY <1>2, <2>2
    <3> QED
      BY <2>2, <3>1
  <2> QED
    BY <2>1, <2>2
<1>6. \A s \in D : \A g \in [D -> V] : G[<<s, g>>] = made(g, s)
  <2> HIDE DEF D, made
  <2> QED
    OBVIOUS
<1>7. G \in [D \X [D -> V] -> V]
  <2> HIDE DEF D, made
  <2> QED
    BY <1>5
<1>8. DescendsBy(rank, D, V, G)
  <2> SUFFICES ASSUME NEW s \in D, NEW g \in [D -> V], NEW h \in [D -> V],
                      \A x \in D : rank[x] < rank[s] => g[x] = h[x]
               PROVE  made(g, s) = made(h, s)
    <3> HIDE DEF made, G, D, rank
    <3> QED
      BY <1>6 DEF DescendsBy
  <2>1. s # {} => s \ {Max(s)} \in D /\ rank[s \ {Max(s)}] < rank[s]
    BY <1>2, <1>3
  <2>2. s # {} => g[s \ {Max(s)}] = h[s \ {Max(s)}]
    <3> HIDE DEF D, rank
    <3> QED
      BY <2>1
  <2> QED
    BY <2>2
<1>9. \E g \in [D -> V] : Solves(g, D, G)
  <2> HIDE DEF D, G, rank, N
  <2> QED
    BY <1>4, <1>7, <1>8, FunctionExists
<1>10. PICK g \in [D -> V] : \A s \in D : g[s] = G[<<s, g>>]
  BY <1>9 DEF Solves
<1>11. \A s \in D : g[s] = made(g, s)
  <2> HIDE DEF made, G, D
  <2> QED
    BY <1>6, <1>10
<1> QED
  BY <1>11 DEF FoldsBy

-----------------------------------------------------------------------------
(***************************************************************************)
(* Sums.                                                                   *)
(***************************************************************************)

\* Adds up f over S in the order in which CHOOSE takes the elements of a set.
SumsUp(f, S, sum) ==
  sum = [s \in SUBSET S |-> IF s = {} THEN 0
                            ELSE f[CHOOSE x \in s : TRUE] + sum[s \ {CHOOSE x \in s : TRUE}]]

LEMMA SumIsThat ==
  ASSUME NEW f, NEW S
  PROVE  SumFunctionOnSet(f, S) = (CHOOSE sum : SumsUp(f, S, sum))[S]
  BY DEF SumFunctionOnSet, FoldFunctionOnSet, MapThenFoldSet, SumsUp

LEMMA SumExists ==
  ASSUME NEW S, IsFiniteSet(S), NEW f, \A x \in S : f[x] \in Nat
  PROVE  \E sum \in [SUBSET S -> Nat] : SumsUp(f, S, sum)
<1> DEFINE D == SUBSET S
           one(s) == CHOOSE x \in s : TRUE
           step(g, s) == IF s = {} THEN 0 ELSE f[one(s)] + g[s \ {one(s)}]
           G == [p \in D \X [D -> Nat] |-> step(p[2], p[1])]
           rank == [s \in D |-> Cardinality(s)]
           N == Cardinality(S)
<1>1. \A s \in D : s # {} => one(s) \in s /\ s \ {one(s)} \in D
  OBVIOUS
<1>2. ASSUME NEW s \in D
      PROVE  /\ IsFiniteSet(s) /\ Cardinality(s) \in 0..N /\ N \in Nat
             /\ s # {} => Cardinality(s \ {one(s)}) < Cardinality(s)
  <2>1. IsFiniteSet(s) /\ Cardinality(s) \in Nat /\ N \in Nat /\ Cardinality(s) <= N
    BY FS_Subset, FS_CardinalityType
  <2>2. ASSUME s # {} PROVE Cardinality(s \ {one(s)}) = Cardinality(s) - 1
    BY <1>1, <2>1, <2>2, FS_RemoveElement
  <2> QED
    BY <2>1, <2>2
<1>3. rank \in [D -> 0..N] /\ N \in Nat /\ Nat # {}
  BY <1>2
<1>4. ASSUME NEW s \in D, NEW g \in [D -> Nat] PROVE step(g, s) \in Nat
  BY <1>1
<1>5. \A s \in D : \A g \in [D -> Nat] : G[<<s, g>>] = step(g, s)
  <2> HIDE DEF D, step
  <2> QED
    OBVIOUS
<1>6. G \in [D \X [D -> Nat] -> Nat]
  <2> HIDE DEF D, step
  <2> QED
    BY <1>4
<1>7. DescendsBy(rank, D, Nat, G)
  <2> SUFFICES ASSUME NEW s \in D, NEW g \in [D -> Nat], NEW h \in [D -> Nat],
                      \A x \in D : rank[x] < rank[s] => g[x] = h[x]
               PROVE  step(g, s) = step(h, s)
    <3> HIDE DEF step, G, D, rank
    <3> QED
      BY <1>5 DEF DescendsBy
  <2>1. s # {} => s \ {one(s)} \in D /\ rank[s \ {one(s)}] < rank[s]
    BY <1>1, <1>2
  <2> QED
    BY <2>1
<1>8. \E g \in [D -> Nat] : Solves(g, D, G)
  <2> HIDE DEF D, G, rank, N
  <2> QED
    BY <1>3, <1>6, <1>7, FunctionExists
<1>9. PICK g \in [D -> Nat] : \A s \in D : g[s] = G[<<s, g>>]
  BY <1>8 DEF Solves
<1>10. g = [s \in D |-> step(g, s)]
  <2> HIDE DEF step, G, D
  <2> QED
    BY <1>5, <1>9
<1> QED
  BY <1>10 DEF SumsUp

\* The order does not matter: any element may be added last.
LEMMA AnyOneLast ==
  ASSUME NEW S, IsFiniteSet(S), NEW f, \A x \in S : f[x] \in Nat, NEW sum, SumsUp(f, S, sum)
  PROVE  /\ sum[{}] = 0
         /\ \A s \in SUBSET S : sum[s] \in Nat
         /\ \A s \in SUBSET S : \A x \in s : sum[s] = f[x] + sum[s \ {x}]
<1> DEFINE D == SUBSET S
           one(s) == CHOOSE x \in s : TRUE
           Right(s) == sum[s] \in Nat /\ \A x \in s : sum[s] = f[x] + sum[s \ {x}]
           wrong == {s \in D : ~Right(s)}
           Smaller == StrictSubsetOrdering(S)
<1>1. /\ sum[{}] = 0
      /\ \A s \in D : s # {} => sum[s] = f[one(s)] + sum[s \ {one(s)}]
  <2>1. \A s \in D : sum[s] = IF s = {} THEN 0 ELSE f[one(s)] + sum[s \ {one(s)}]
    BY DEF SumsUp
  <2> QED
    BY <2>1
<1>2. \A s \in D : s # {} => one(s) \in s
  OBVIOUS
<1> HIDE DEF one
<1>3. ASSUME NEW s \in D, \A t \in D : t \subseteq s /\ t # s => Right(t) PROVE Right(s)
  <2>1. CASE s = {}
    BY <1>1, <2>1
  <2>2. CASE s # {}
    <3> DEFINE y == one(s)
    <3>1. y \in s /\ y \in S /\ s \ {y} \in D /\ s \ {y} \subseteq s /\ s \ {y} # s
      BY <1>2, <2>2
    <3> HIDE DEF y
    <3>2. sum[s \ {y}] \in Nat /\ \A x \in s \ {y} : sum[s \ {y}] = f[x] + sum[(s \ {y}) \ {x}]
      BY <1>3, <3>1
    <3>3. sum[s] = f[y] + sum[s \ {y}]
      BY <1>1, <2>2 DEF y
    <3>4. ASSUME NEW x \in s, x # y PROVE sum[s] = f[x] + sum[s \ {x}]
      <4>1. x \in S /\ s \ {x} \in D /\ s \ {x} \subseteq s /\ s \ {x} # s /\ y \in s \ {x}
        BY <3>1, <3>4
      <4>2. sum[s \ {x}] = f[y] + sum[(s \ {x}) \ {y}] /\ sum[s \ {x}] \in Nat
        BY <1>3, <4>1
      <4>3. (s \ {x}) \ {y} = (s \ {y}) \ {x}
        OBVIOUS
      <4>4. sum[s \ {y}] = f[x] + sum[(s \ {y}) \ {x}]
        BY <3>2, <3>4
      <4>5. (s \ {y}) \ {x} \in D /\ (s \ {y}) \ {x} \subseteq s /\ (s \ {y}) \ {x} # s
        BY <3>1
      <4>6. sum[(s \ {y}) \ {x}] \in Nat
        BY <1>3, <4>5
      <4> DEFINE z == sum[(s \ {y}) \ {x}]
      <4>7. f[x] \in Nat /\ f[y] \in Nat /\ z \in Nat /\ sum[s \ {x}] = f[y] + z
        BY <3>1, <4>1, <4>2, <4>3, <4>6
      <4>8. sum[s] = f[y] + (f[x] + z)
        BY <3>3, <4>4
      <4> HIDE DEF z
      <4> QED
        BY <4>7, <4>8
    <3>5. \A x \in s : sum[s] = f[x] + sum[s \ {x}]
      BY <3>3, <3>4
    <3>6. f[y] + sum[s \ {y}] \in Nat
      BY <3>1, <3>2
    <3> QED
      BY <3>3, <3>5, <3>6
  <2> QED
    BY <2>1, <2>2
<1>4. wrong = {}
  <2> SUFFICES ASSUME wrong # {} PROVE FALSE
    OBVIOUS
  <2>1. IsWellFoundedOn(Smaller, D)
    BY FS_StrictSubsetOrderingWellFounded, FS_FiniteSubsetsOfFinite
  <2>2. PICK s \in wrong : \A t \in wrong : <<t, s>> \notin Smaller
    <3>1. wrong \subseteq D /\ wrong # {}
      OBVIOUS
    <3> HIDE DEF wrong, Smaller, D
    <3> QED
      BY <2>1, <3>1, WFMin
  <2>3. \A t \in D : t \subseteq s /\ t # s => <<t, s>> \in Smaller
    BY DEF StrictSubsetOrdering
  <2>4. \A t \in D : t \subseteq s /\ t # s => Right(t)
    <3> HIDE DEF Right, Smaller
    <3> QED
      BY <2>2, <2>3
  <2>5. s \in D /\ ~Right(s)
    BY <2>2
  <2> HIDE DEF Right, D
  <2> QED
    BY <1>3, <2>4, <2>5
<1> QED
  BY <1>1, <1>4

\* A smaller sum is the same in a larger one.
LEMMA AddsAgree ==
  ASSUME NEW S, IsFiniteSet(S), NEW T \in SUBSET S, NEW f, NEW sum, NEW part,
         SumsUp(f, S, sum), SumsUp(f, T, part)
  PROVE  \A s \in SUBSET T : part[s] = sum[s]
<1> DEFINE one(s) == CHOOSE x \in s : TRUE
           wrong == {s \in SUBSET T : part[s] # sum[s]}
           Smaller == StrictSubsetOrdering(T)
<1> SUFFICES ASSUME wrong # {} PROVE FALSE
  OBVIOUS
<1>1. IsFiniteSet(T)
  BY FS_Subset
<1>2. \A s \in SUBSET T : s # {} => one(s) \in s
  OBVIOUS
<1>3. \A s \in SUBSET T : s # {} => /\ part[s] = f[one(s)] + part[s \ {one(s)}]
                                   /\ sum[s] = f[one(s)] + sum[s \ {one(s)}]
  <2>1. \A s \in SUBSET T : part[s] = IF s = {} THEN 0 ELSE f[one(s)] + part[s \ {one(s)}]
    BY DEF SumsUp
  <2>2. \A s \in SUBSET S : sum[s] = IF s = {} THEN 0 ELSE f[one(s)] + sum[s \ {one(s)}]
    BY DEF SumsUp
  <2> HIDE DEF one
  <2> QED
    BY <2>1, <2>2
<1>4. part[{}] = 0 /\ sum[{}] = 0
  BY DEF SumsUp
<1>5. IsWellFoundedOn(Smaller, SUBSET T)
  BY <1>1, FS_StrictSubsetOrderingWellFounded, FS_FiniteSubsetsOfFinite
<1>6. PICK s \in wrong : \A t \in wrong : <<t, s>> \notin Smaller
  <2>1. wrong \subseteq SUBSET T
    OBVIOUS
  <2> HIDE DEF wrong, Smaller
  <2> QED
    BY <1>5, <2>1, WFMin
<1>7. s \in SUBSET T /\ part[s] # sum[s]
  BY <1>6
<1>8. s # {}
  BY <1>4, <1>7
<1> DEFINE x == one(s)
<1>9. x \in s /\ part[s] = f[x] + part[s \ {x}] /\ sum[s] = f[x] + sum[s \ {x}]
  BY <1>2, <1>3, <1>7, <1>8
<1> HIDE DEF one, x
<1>10. s \ {x} \in SUBSET T /\ <<s \ {x}, s>> \in Smaller
  BY <1>7, <1>9 DEF StrictSubsetOrdering
<1>11. part[s \ {x}] = sum[s \ {x}]
  BY <1>6, <1>10
<1> QED
  BY <1>7, <1>9, <1>11

\* The sum over no element is 0, and any term can be taken out of a sum of naturals.
LEMMA SumOfNone ==
  ASSUME NEW f
  PROVE  SumFunctionOnSet(f, {}) = 0
<1>1. PICK sum : SumsUp(f, {}, sum) /\ SumFunctionOnSet(f, {}) = sum[{}]
  <2>1. \E sum : SumsUp(f, {}, sum)
    BY SumExists, FS_EmptySet
  <2> QED
    BY <2>1, SumIsThat
<1> QED
  BY <1>1 DEF SumsUp

LEMMA SumOfMore ==
  ASSUME NEW S, IsFiniteSet(S), NEW f, \A x \in S : f[x] \in Nat
  PROVE  /\ SumFunctionOnSet(f, S) \in Nat
         /\ \A x \in S : SumFunctionOnSet(f, S) = f[x] + SumFunctionOnSet(f, S \ {x})
<1>1. PICK sum : SumsUp(f, S, sum) /\ SumFunctionOnSet(f, S) = sum[S]
  <2>1. \E sum : SumsUp(f, S, sum)
    BY SumExists
  <2> QED
    BY <2>1, SumIsThat
<1>2. SumFunctionOnSet(f, S) \in Nat /\ \A x \in S : sum[S] = f[x] + sum[S \ {x}]
  BY <1>1, AnyOneLast
<1>3. ASSUME NEW x \in S PROVE SumFunctionOnSet(f, S \ {x}) = sum[S \ {x}]
  <2>1. S \ {x} \in SUBSET S /\ IsFiniteSet(S \ {x})
    BY FS_Subset
  <2>2. PICK part : SumsUp(f, S \ {x}, part) /\ SumFunctionOnSet(f, S \ {x}) = part[S \ {x}]
    <3>1. \E part : SumsUp(f, S \ {x}, part)
      BY <2>1, SumExists
    <3> QED
      BY <3>1, SumIsThat
  <2> QED
    BY <1>1, <2>1, <2>2, AddsAgree
<1> QED
  BY <1>1, <1>2, <1>3

\* Equal terms make equal sums.
LEMMA SumOfSame ==
  ASSUME NEW S, IsFiniteSet(S), NEW f, NEW g, \A x \in S : f[x] = g[x] /\ f[x] \in Nat
  PROVE  SumFunctionOnSet(f, S) = SumFunctionOnSet(g, S)
<1>1. ASSUME NEW sum PROVE SumsUp(f, S, sum) <=> SumsUp(g, S, sum)
  <2> DEFINE one(s) == CHOOSE x \in s : TRUE
  <2>1. \A s \in SUBSET S : s # {} => f[one(s)] = g[one(s)]
    OBVIOUS
  <2>2. [s \in SUBSET S |-> IF s = {} THEN 0 ELSE f[one(s)] + sum[s \ {one(s)}]]
      = [s \in SUBSET S |-> IF s = {} THEN 0 ELSE g[one(s)] + sum[s \ {one(s)}]]
    <3> HIDE DEF one
    <3> QED
      BY <2>1
  <2> QED
    BY <2>2 DEF SumsUp
<1>2. PICK sum : SumsUp(f, S, sum) /\ SumFunctionOnSet(f, S) = sum[S]
  <2>1. \E sum : SumsUp(f, S, sum)
    BY SumExists
  <2> QED
    BY <2>1, SumIsThat
<1>3. PICK other : SumsUp(g, S, other) /\ SumFunctionOnSet(g, S) = other[S]
  <2>1. \E other : SumsUp(g, S, other)
    BY <1>1, <1>2
  <2> QED
    BY <2>1, SumIsThat
<1>4. SumsUp(f, S, other)
  BY <1>1, <1>3
<1> QED
  BY <1>2, <1>3, <1>4, AddsAgree

=============================================================================
