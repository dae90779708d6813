--------------------------- MODULE Comments_proofs --------------------------
(***************************************************************************)
(* Proofs about comments: that the array of symbols that one is made from  *)
(* is merged exactly, that the style for the comments of lines to delete   *)
(* is set for one include file and taken back, and that a comment lists    *)
(* the symbols that have room, whatever symbols and include files there    *)
(* are.                                                                    *)
(***************************************************************************)
EXTENDS Comments, Arrays, Facts, SequenceTheorems

-----------------------------------------------------------------------------
(***************************************************************************)
(* References of symbols in an array.                                      *)
(***************************************************************************)

\* What array_merge() makes of symbols.
Counted == [name : Name, ref_count : Nat]

\* Sorted, with elements of equal name next to each other.
Ascend(s) == \A i, j \in 1..Len(s) : i < j => s[i].name <= s[j].name

LEMMA SymbolsCount == ASSUME NEW x \in Symbol PROVE x \in Counted
  BY ArraysAssumption DEF Symbol, Counted

\* The references of a name when an element is added.
LEMMA ReferencesOfMore ==
  ASSUME NEW s \in Seq(Counted), NEW x \in Counted, NEW n
  PROVE  /\ references(s, n) \in Nat
         /\ references(Append(s, x), n)
              = references(s, n) + (IF x.name = n THEN x.ref_count ELSE 0)
<1> DEFINE t == Append(s, x)
           k == Len(s) + 1
           f == [i \in DOMAIN s |-> s[i].ref_count]
           g == [i \in DOMAIN t |-> t[i].ref_count]
           F == {i \in DOMAIN s : s[i].name = n}
           G == {i \in DOMAIN t : t[i].name = n}
<1>1. /\ DOMAIN s = 1..Len(s) /\ DOMAIN t = 1..k /\ Len(s) \in Nat
      /\ \A i \in 1..Len(s) : t[i] = s[i] /\ s[i] \in Counted
      /\ t[k] = x
  OBVIOUS
<1>2. \A i \in 1..k : t[i] \in Counted
  BY <1>1
<1>3. \A i \in G : g[i] \in Nat
  BY <1>1, <1>2 DEF Counted
<1>4. \A i \in F : f[i] = g[i] /\ f[i] \in Nat
  BY <1>1 DEF Counted
<1>5. IsFiniteSet(F) /\ IsFiniteSet(G)
  <2>1. F \subseteq 1..Len(s) /\ G \subseteq 1..k
    BY <1>1
  <2>2. IsFiniteSet(1..Len(s)) /\ IsFiniteSet(1..k)
    BY <1>1, FS_Interval
  <2> QED
    BY <2>1, <2>2, FS_Subset
<1>6. k \notin F /\ G = IF x.name = n THEN F \cup {k} ELSE F
  BY <1>1
<1>7. x.name = n => k \in G /\ g[k] = x.ref_count /\ G \ {k} = F
  BY <1>1, <1>6
<1>8. references(s, n) = SumFunctionOnSet(f, F) /\ references(t, n) = SumFunctionOnSet(g, G)
  BY DEF references
<1> HIDE DEF f, g, F, G, t, k
<1>9. SumFunctionOnSet(f, F) = SumFunctionOnSet(g, F) /\ SumFunctionOnSet(f, F) \in Nat
  BY <1>4, <1>5, SumOfSame, SumOfMore
<1>10. CASE x.name = n
  <2>1. SumFunctionOnSet(g, G) = g[k] + SumFunctionOnSet(g, G \ {k})
    BY <1>3, <1>5, <1>7, <1>10, SumOfMore
  <2>2. x.ref_count \in Nat
    BY DEF Counted
  <2>3. G \ {k} = F /\ g[k] = x.ref_count
    BY <1>7, <1>10
  <2>4. SumFunctionOnSet(g, G) = x.ref_count + SumFunctionOnSet(g, F)
    BY <2>1, <2>3, Zenon
  <2> QED
    BY <2>2, <2>4, <1>8, <1>9, <1>10 DEF t
<1>11. CASE x.name # n
  BY <1>6, <1>8, <1>9, <1>11 DEF t
<1> QED
  BY <1>10, <1>11

\* t is s with c references more at k.
AddsAt(t, s, k, c) ==
  /\ Len(t) = Len(s)
  /\ \A i \in 1..Len(s) : i # k => t[i] = s[i]
  /\ t[k].name = s[k].name /\ t[k].ref_count = s[k].ref_count + c

LEMMA ReferencesOfBump ==
  ASSUME NEW s \in Seq(Counted), NEW t \in Seq(Counted), NEW k \in 1..Len(s), NEW c \in Nat,
         AddsAt(t, s, k, c), NEW n
  PROVE  references(t, n) = references(s, n) + (IF s[k].name = n THEN c ELSE 0)
<1> DEFINE f == [i \in DOMAIN s |-> s[i].ref_count]
           g == [i \in DOMAIN t |-> t[i].ref_count]
           F == {i \in DOMAIN s : s[i].name = n}
           G == {i \in DOMAIN t : t[i].name = n}
<1>1. /\ DOMAIN s = 1..Len(s) /\ DOMAIN t = 1..Len(s) /\ Len(s) \in Nat
      /\ \A i \in 1..Len(s) : t[i] \in Counted /\ s[i] \in Counted
  BY DEF AddsAt
<1>2. G = F
  BY <1>1 DEF AddsAt
<1>3. /\ \A i \in F : f[i] \in Nat /\ g[i] \in Nat
      /\ \A i \in F : i # k => f[i] = g[i]
      /\ g[k] = f[k] + c
      /\ f[k] \in Nat
  BY <1>1 DEF Counted, AddsAt
<1>4. IsFiniteSet(F) /\ IsFiniteSet(F \ {k})
  <2>1. F \subseteq 1..Len(s) /\ F \ {k} \subseteq 1..Len(s)
    BY <1>1
  <2>2. IsFiniteSet(1..Len(s))
    BY <1>1, FS_Interval
  <2> QED
    BY <2>1, <2>2, FS_Subset
<1>5. references(s, n) = SumFunctionOnSet(f, F) /\ references(t, n) = SumFunctionOnSet(g, G)
  BY DEF references
<1>6. k \in F <=> s[k].name = n
  BY <1>1
<1> HIDE DEF f, g, F, G
<1>7. SumFunctionOnSet(f, F \ {k}) = SumFunctionOnSet(g, F \ {k})
      /\ SumFunctionOnSet(f, F \ {k}) \in Nat
  BY <1>3, <1>4, SumOfSame, SumOfMore
<1>8. CASE s[k].name = n
  <2>1. SumFunctionOnSet(f, F) = f[k] + SumFunctionOnSet(f, F \ {k})
    BY <1>3, <1>4, <1>6, <1>8, SumOfMore
  <2>2. SumFunctionOnSet(g, F) = g[k] + SumFunctionOnSet(g, F \ {k})
    BY <1>3, <1>4, <1>6, <1>8, SumOfMore
  <2> QED
    BY <2>1, <2>2, <1>2, <1>3, <1>5, <1>7, <1>8
<1>9. CASE s[k].name # n
  <2>1. F \ {k} = F
    BY <1>6, <1>9
  <2>2. SumFunctionOnSet(f, F) \in Nat
    BY <1>3, <1>4, SumOfMore
  <2>3. references(t, n) = references(s, n)
    BY <2>1, <1>2, <1>5, <1>7, Zenon
  <2>4. references(s, n) \in Nat
    BY <2>2, <1>5, Zenon
  <2> QED
    BY <2>3, <2>4, <1>9
<1> QED
  BY <1>8, <1>9

-----------------------------------------------------------------------------
\* r is what merging the duplicates of s makes of it.
IsMergeOf(r, s) ==
  /\ r \in Seq(Counted) /\ Len(r) > 0
  /\ \A i, j \in 1..Len(r) : i < j => r[i].name < r[j].name
  /\ r[Len(r)].name = s[Len(s)].name
  /\ \A n \in Name : references(r, n) = references(s, n)

\* The elements of s that merging takes away, and what free_fn was called for.
Duplicates(s) == {i \in 2..Len(s) : s[i].name = s[i - 1].name}

AreFreedOf(f, s) ==
  /\ f \in Seq(Symbol)
  /\ Len(f) = Cardinality(Duplicates(s))
  /\ \A i \in Duplicates(s) :
       /\ Cardinality({j \in Duplicates(s) : j <= i}) \in 1..Len(f)
       /\ f[Cardinality({j \in Duplicates(s) : j <= i})] = s[i]

\* A symbol with a name of its own is kept.
LEMMA MergeOfNext ==
  ASSUME NEW r, NEW s \in Seq(Symbol), NEW x \in Symbol, IsMergeOf(r, s), s # <<>>,
         s[Len(s)].name < x.name
  PROVE  IsMergeOf(Append(r, x), Append(s, x))
<1>1. x \in Counted /\ s \in Seq(Counted)
  BY SymbolsCount
<1>2. r \in Seq(Counted) /\ Len(r) > 0 /\ Len(r) \in Nat
  BY DEF IsMergeOf
<1>3. \A n \in Name : references(Append(r, x), n) = references(Append(s, x), n)
  BY <1>1, <1>2, ReferencesOfMore DEF IsMergeOf
<1>4. \A i \in 1..Len(r) : r[i].name \in Int
  <2>1. \A i \in 1..Len(r) : r[i] \in Counted
    BY <1>2
  <2>2. \A y \in Counted : y.name \in Int
    BY ArraysAssumption DEF Counted
  <2> QED
    BY <2>1, <2>2
<1>5. \A i \in 1..Len(r) : r[i].name <= r[Len(r)].name
  BY <1>2, <1>4 DEF IsMergeOf
<1>6. x.name \in Int
  BY ArraysAssumption DEF Symbol
<1>7. \A i \in 1..Len(r) : r[i].name < x.name
  BY <1>2, <1>4, <1>5, <1>6 DEF IsMergeOf
<1> DEFINE t == Append(r, x)
<1>8. /\ t \in Seq(Counted) /\ Len(t) = Len(r) + 1
      /\ \A i \in 1..Len(r) : t[i] = r[i]
      /\ t[Len(r) + 1] = x
  BY <1>1, <1>2
<1>9. Append(s, x)[Len(Append(s, x))] = x
  OBVIOUS
<1> HIDE DEF t
<1>10. \A i, j \in 1..Len(t) : i < j => t[i].name < t[j].name
  BY <1>2, <1>7, <1>8 DEF IsMergeOf
<1> QED
  BY <1>2, <1>3, <1>8, <1>9, <1>10 DEF IsMergeOf, t

\* The references of another symbol of the last name are added to the last one.
LEMMA MergeOfDuplicate ==
  ASSUME NEW r, NEW s \in Seq(Symbol), NEW x \in Symbol, IsMergeOf(r, s), s # <<>>,
         s[Len(s)].name = x.name,
         NEW t \in Seq(Counted), AddsAt(t, r, Len(r), x.ref_count)
  PROVE  IsMergeOf(t, Append(s, x))
<1>1. x \in Counted /\ s \in Seq(Counted)
  BY SymbolsCount
<1> x.ref_count \in Nat
  BY <1>1 DEF Counted
<1>2. r \in Seq(Counted) /\ Len(r) \in 1..Len(r) /\ r[Len(r)].name = x.name
  BY DEF IsMergeOf
<1>3. ASSUME NEW n \in Name PROVE references(t, n) = references(Append(s, x), n)
  <2>1. references(t, n) = references(r, n) + (IF r[Len(r)].name = n THEN x.ref_count ELSE 0)
    BY <1>2, ReferencesOfBump
  <2>2. references(Append(s, x), n) = references(s, n) + (IF x.name = n THEN x.ref_count ELSE 0)
    BY <1>1, ReferencesOfMore
  <2> QED
    BY <2>1, <2>2, <1>2 DEF IsMergeOf
<1>4. Append(s, x)[Len(Append(s, x))] = x
  OBVIOUS
<1>5. Len(t) = Len(r) /\ \A i \in 1..Len(r) : t[i].name = r[i].name
  BY <1>2 DEF AddsAt
<1>6. \A i, j \in 1..Len(t) : i < j => t[i].name < t[j].name
  BY <1>5 DEF IsMergeOf
<1> QED
  BY <1>2, <1>3, <1>4, <1>5, <1>6 DEF IsMergeOf

\* In an array that is sorted a duplicate is next to one of its name.
LEMMA DuplicatesOfMore ==
  ASSUME NEW s \in Seq(Symbol), NEW x \in Symbol, s # <<>>
  PROVE  /\ Duplicates(Append(s, x)) =
              Duplicates(s) \cup (IF x.name = s[Len(s)].name THEN {Len(s) + 1} ELSE {})
         /\ \A i \in Duplicates(s) : i \in 1..Len(s) /\ Append(s, x)[i] = s[i]
         /\ IsFiniteSet(Duplicates(s))
<1>1. \A i \in 1..Len(s) : Append(s, x)[i] = s[i]
  OBVIOUS
<1>2. Len(Append(s, x)) = Len(s) + 1 /\ Append(s, x)[Len(s) + 1] = x /\ Len(s) \in Nat \ {0}
  OBVIOUS
<1>3. \A i \in Duplicates(s) : i \in 1..Len(s)
  BY <1>2 DEF Duplicates
<1>4. IsFiniteSet(Duplicates(s))
  <2>1. Duplicates(s) \subseteq 1..Len(s) /\ IsFiniteSet(1..Len(s))
    BY <1>2, <1>3, FS_Interval
  <2> QED
    BY <2>1, FS_Subset
<1> QED
  BY <1>1, <1>2, <1>3, <1>4 DEF Duplicates

LEMMA FreedOfNext ==
  ASSUME NEW f, NEW s \in Seq(Symbol), NEW x \in Symbol, AreFreedOf(f, s), s # <<>>,
         s[Len(s)].name # x.name
  PROVE  AreFreedOf(f, Append(s, x))
<1>1. Duplicates(Append(s, x)) = Duplicates(s)
  <2>1. x.name # s[Len(s)].name
    OBVIOUS
  <2>2. Duplicates(Append(s, x)) =
          Duplicates(s) \cup (IF x.name = s[Len(s)].name THEN {Len(s) + 1} ELSE {})
    BY DuplicatesOfMore
  <2> QED
    BY <2>1, <2>2
<1> QED
  BY <1>1, DuplicatesOfMore DEF AreFreedOf

LEMMA FreedOfDuplicate ==
  ASSUME NEW f, NEW s \in Seq(Symbol), NEW x \in Symbol, AreFreedOf(f, s), s # <<>>,
         s[Len(s)].name = x.name
  PROVE  AreFreedOf(Append(f, x), Append(s, x))
<1> DEFINE k == Len(s) + 1
           D == Duplicates(s)
           E == Duplicates(Append(s, x))
           upto(i) == {j \in E : j <= i}
<1>1. E = D \cup {k} /\ IsFiniteSet(D) /\ \A i \in D : i \in 1..Len(s) /\ Append(s, x)[i] = s[i]
  BY DuplicatesOfMore
<1>2. k \notin D /\ Len(s) \in Nat
  BY <1>1
<1>3. Cardinality(E) = Cardinality(D) + 1
  BY <1>1, <1>2, FS_AddElement
<1>4. upto(k) = E
  BY <1>1, <1>2
<1>5. \A i \in D : upto(i) = {j \in D : j <= i}
  BY <1>1, <1>2
<1>6. f \in Seq(Symbol) /\ Len(f) = Cardinality(D)
  BY DEF AreFreedOf
<1>7. Append(s, x)[k] = x
  OBVIOUS
<1>8. \A i \in D : Cardinality(upto(i)) \in 1..Len(f) /\ f[Cardinality(upto(i))] = s[i]
  BY <1>5 DEF AreFreedOf
<1>9. ASSUME NEW i \in E
      PROVE  /\ Cardinality(upto(i)) \in 1..Len(f) + 1
             /\ Append(f, x)[Cardinality(upto(i))] = Append(s, x)[i]
  <2>1. CASE i = k
    <3>1. Cardinality(upto(i)) = Len(f) + 1
      BY <2>1, <1>3, <1>4, <1>6
    <3> QED
      BY <2>1, <3>1, <1>6, <1>7
  <2>2. CASE i \in D
    <3> DEFINE c == Cardinality(upto(i))
    <3>1. c \in 1..Len(f) /\ f[c] = s[i] /\ Append(s, x)[i] = s[i]
      BY <2>2, <1>8, <1>1
    <3> HIDE DEF c
    <3>2. Append(f, x)[c] = f[c] /\ c \in 1..Len(f) + 1
      BY <3>1, <1>6
    <3> QED
      BY <3>1, <3>2 DEF c
  <2> QED
    BY <2>1, <2>2, <1>1
<1>10. Append(f, x) \in Seq(Symbol) /\ Len(Append(f, x)) = Len(f) + 1
  BY <1>6
<1> QED
  BY <1>3, <1>6, <1>9, <1>10 DEF AreFreedOf

-----------------------------------------------------------------------------
(***************************************************************************)
(* Sorting and growth.                                                     *)
(***************************************************************************)

LEMMA InsertedInOrder ==
  ASSUME NEW t \in Seq(Symbol), Ascend(t), NEW x \in Symbol, NEW k \in Places(t, x)
  PROVE  /\ InsertAt(t, k, x) \in Seq(Symbol)
         /\ Len(InsertAt(t, k, x)) = Len(t) + 1
         /\ Ascend(InsertAt(t, k, x))
<1> DEFINE u == InsertAt(t, k, x)
<1>1. k \in 1..Len(t) + 1 /\ Len(t) \in Nat
  BY DEF Places
<1>2. /\ SubSeq(t, 1, k - 1) \in Seq(Symbol) /\ Len(SubSeq(t, 1, k - 1)) = k - 1
      /\ \A i \in 1..k - 1 : SubSeq(t, 1, k - 1)[i] = t[i]
  BY <1>1
<1>3. /\ SubSeq(t, k, Len(t)) \in Seq(Symbol) /\ Len(SubSeq(t, k, Len(t))) = Len(t) - k + 1
      /\ \A i \in 1..Len(t) - k + 1 : SubSeq(t, k, Len(t))[i] = t[i + k - 1]
  BY <1>1
<1>4. /\ u \in Seq(Symbol) /\ Len(u) = Len(t) + 1
      /\ \A i \in 1..Len(t) + 1 : u[i] = IF i < k THEN t[i] ELSE IF i = k THEN x ELSE t[i - 1]
  <2> DEFINE a == SubSeq(t, 1, k - 1)
             b == SubSeq(t, k, Len(t))
             c == a \o <<x>>
  <2>1. c \in Seq(Symbol) /\ Len(c) = k /\ \A i \in 1..k : c[i] = IF i < k THEN t[i] ELSE x
    <3> HIDE DEF a
    <3> QED
      BY <1>1, <1>2 DEF a
  <2>2. u = c \o b
    BY DEF InsertAt
  <2> HIDE DEF a, b, c, u
  <2>3. u \in Seq(Symbol) /\ Len(u) = Len(t) + 1
    BY <1>1, <1>3, <2>1, <2>2 DEF b
  <2>4. \A i \in 1..Len(t) + 1 : u[i] = IF i <= k THEN c[i] ELSE b[i - k]
    BY <1>1, <1>3, <2>1, <2>2 DEF b
  <2>5. \A i \in k + 1..Len(t) + 1 : b[i - k] = t[i - 1]
    <3> SUFFICES ASSUME NEW i \in k + 1..Len(t) + 1 PROVE b[i - k] = t[i - 1]
      OBVIOUS
    <3>1. i - k \in 1..Len(t) - k + 1 /\ (i - k) + k - 1 = i - 1
      BY <1>1
    <3> QED
      BY <3>1, <1>3 DEF b
  <2> QED
    BY <1>1, <2>1, <2>3, <2>4, <2>5
<1>5. x.name \in Int /\ \A i \in 1..Len(t) : t[i].name \in Int
  <2>1. \A y \in Symbol : y.name \in Int
    BY ArraysAssumption DEF Symbol
  <2> QED
    BY <2>1
<1>6. /\ \A j \in 1..k - 1 : t[j].name <= x.name
      /\ \A j \in k..Len(t) : x.name <= t[j].name
  BY <1>1, <1>5 DEF Places, by_name
<1> HIDE DEF u
<1>7. \A i, j \in 1..Len(t) + 1 : i < j => u[i].name <= u[j].name
  <2> SUFFICES ASSUME NEW i \in 1..Len(t) + 1, NEW j \in 1..Len(t) + 1, i < j
               PROVE  u[i].name <= u[j].name
    OBVIOUS
  <2>1. \A a, b \in 1..Len(t) : a < b => t[a].name <= t[b].name
    BY DEF Ascend
  <2>2. CASE j < k
    BY <2>1, <2>2, <1>1, <1>4
  <2>3. CASE j = k
    <3>1. u[i] = t[i] /\ u[j] = x /\ i \in 1..k - 1
      BY <2>3, <1>1, <1>4
    <3> QED
      BY <3>1, <1>6
  <2>4. CASE j > k /\ i < k
    <3>1. u[i] = t[i] /\ u[j] = t[j - 1] /\ i \in 1..Len(t) /\ j - 1 \in 1..Len(t)
      BY <2>4, <1>1, <1>4
    <3>2. i < j - 1
      BY <2>4, <1>1
    <3> QED
      BY <2>1, <3>1, <3>2
  <2>5. CASE j > k /\ i = k
    BY <2>5, <1>1, <1>4, <1>6
  <2>6. CASE j > k /\ i > k
    <3>1. u[i] = t[i - 1] /\ u[j] = t[j - 1] /\ i - 1 \in 1..Len(t) /\ j - 1 \in 1..Len(t)
      BY <2>6, <1>1, <1>4
    <3> QED
      BY <2>1, <3>1
  <2> QED
    BY <2>2, <2>3, <2>4, <2>5, <2>6, <1>1
<1> QED
  BY <1>4, <1>7 DEF Ascend, u

\* Whatever qsort(3) does with elements of equal name.
LEMMA SortingsInOrder ==
  ASSUME NEW s \in Seq(Symbol), NEW r \in Sortings(s)
  PROVE  r \in Seq(Symbol) /\ Len(r) = Len(s) /\ Ascend(r)
<1> DEFINE N == Len(s)
           D == 0..N
           V == SUBSET Seq(Symbol)
           into(t, n) == {InsertAt(t, k, s[n]) : k \in Places(t, s[n])}
           more(T, n) == UNION {into(t, n) : t \in T}
           value(f, n) == IF n = 0 THEN {<<>>} ELSE more(f[n - 1], n)
           in_order == CHOOSE f : f = [n \in D |-> value(f, n)]
           rank == [n \in D |-> n]
           G == [p \in D \X [D -> V] |-> value(p[2], p[1]) \cap Seq(Symbol)]
           Good(t, n) == t \in Seq(Symbol) /\ Len(t) = n /\ Ascend(t)
           Solved(f) == \A n \in D : f[n] = G[<<n, f>>]
<1>1. Sortings(s) = in_order[N]
  BY DEF Sortings
<1>2. N \in Nat
  OBVIOUS
<1>3. ASSUME NEW f \in [D -> V], Solves(f, D, G), NEW n \in D
      PROVE  \A t \in f[n] : Good(t, n)
  <2> DEFINE wrong == {m \in D : \E t \in f[m] : ~Good(t, m)}
  <2> SUFFICES ASSUME wrong # {} PROVE FALSE
    BY <1>3
  <2>1. wrong \in SUBSET Nat
    BY <1>2
  <2>2. PICK m \in wrong : \A y \in wrong : m <= y
    BY <2>1, LeastNatural
  <2>3. PICK t \in f[m] : ~Good(t, m)
    BY <2>2
  <2>4. m \in D /\ t \in value(f, m) /\ t \in Seq(Symbol)
    <3>1. m \in D
      BY <2>2
    <3>2. f[m] = G[<<m, f>>]
      BY <1>3, <3>1 DEF Solves
    <3>3. G[<<m, f>>] = value(f, m) \cap Seq(Symbol)
      <4> HIDE DEF value, V, D
      <4> QED
        BY <1>3, <3>1
    <3> HIDE DEF value
    <3> QED
      BY <2>3, <3>1, <3>2, <3>3
  <2>5. CASE m = 0
    <3>1. t = <<>>
      BY <2>4, <2>5
    <3> QED
      BY <3>1, <2>3, <2>4, <2>5 DEF Ascend
  <2>6. CASE m # 0
    <3>1. m - 1 \in D /\ m - 1 \notin wrong /\ m \in 1..Len(s)
      <4>1. m \in 1..N /\ m - 1 \in D
        BY <2>4, <2>6, <1>2
      <4>2. \A y \in wrong : m <= y
        BY <2>2
      <4> HIDE DEF wrong
      <4> QED
        BY <4>1, <4>2, <1>2
    <3>2. PICK t0 \in f[m - 1] : t \in into(t0, m)
      BY <2>4, <2>6
    <3>3. Good(t0, m - 1)
      BY <3>1, <3>2
    <3>4. s[m] \in Symbol
      BY <3>1
    <3>5. PICK k \in Places(t0, s[m]) : t = InsertAt(t0, k, s[m])
      BY <3>2
    <3> QED
      BY <3>1, <3>3, <3>4, <3>5, <2>3, InsertedInOrder
  <2> QED
    BY <2>5, <2>6
<1>4. PICK f \in [D -> V] : Solves(f, D, G)
  <2>1. rank \in [D -> 0..N] /\ V # {}
    BY <1>2
  <2>2. G \in [D \X [D -> V] -> V]
    OBVIOUS
  <2>3. ASSUME NEW c \in D, NEW f \in [D -> V], NEW g \in [D -> V],
               \A x \in D : rank[x] < rank[c] => f[x] = g[x]
        PROVE  G[<<c, f>>] = G[<<c, g>>]
    <3>1. c # 0 => f[c - 1] = g[c - 1]
      BY <1>2, <2>3
    <3>2. value(f, c) = value(g, c)
      BY <3>1
    <3> HIDE DEF value, V
    <3>3. G[<<c, f>>] = value(f, c) \cap Seq(Symbol) /\ G[<<c, g>>] = value(g, c) \cap Seq(Symbol)
      OBVIOUS
    <3> QED
      BY <3>2, <3>3
  <2> HIDE DEF D, V, G, rank
  <2>4. DescendsBy(rank, D, V, G)
    BY <2>3 DEF DescendsBy
  <2> QED
    BY <1>2, <2>1, <2>2, <2>4, FunctionExists
<1>5. ASSUME NEW n \in D PROVE f[n] = value(f, n)
  <2>1. f[n] = value(f, n) \cap Seq(Symbol)
    <3>1. f[n] = G[<<n, f>>]
      BY <1>4 DEF Solves
    <3> HIDE DEF value, V, D
    <3> QED
      BY <1>4, <3>1
  <2>2. CASE n = 0
    BY <2>1, <2>2
  <2>3. CASE n # 0
    <3>1. n - 1 \in D /\ n \in 1..Len(s)
      BY <1>2, <2>3
    <3>2. s[n] \in Symbol
      BY <3>1
    <3>3. ASSUME NEW t0 \in f[n - 1], NEW k \in Places(t0, s[n])
          PROVE  InsertAt(t0, k, s[n]) \in Seq(Symbol)
      <4>1. Good(t0, n - 1)
        BY <1>3, <1>4, <3>1
      <4> QED
        BY <3>2, <4>1, InsertedInOrder
    <3>4. value(f, n) \subseteq Seq(Symbol)
      BY <2>3, <3>3
    <3> HIDE DEF value
    <3> QED
      BY <2>1, <3>4
  <2> QED
    BY <2>2, <2>3
<1>6. f = [n \in D |-> value(f, n)]
  <2> HIDE DEF value, V
  <2> QED
    BY <1>5
<1>7. in_order = [n \in D |-> value(in_order, n)]
  <2> HIDE DEF value, D
  <2> QED
    BY <1>6
<1>8. \A n \in D : in_order[n] = f[n]
  <2> DEFINE wrong == {m \in D : in_order[m] # f[m]}
  <2> SUFFICES ASSUME wrong # {} PROVE FALSE
    OBVIOUS
  <2>1. wrong \in SUBSET Nat
    BY <1>2
  <2> HIDE DEF in_order
  <2>2. PICK m \in wrong : \A y \in wrong : m <= y
    BY <2>1, LeastNatural
  <2>3. m \in D /\ in_order[m] = value(in_order, m) /\ f[m] = value(f, m)
    <3>1. m \in D
      BY <2>2
    <3> HIDE DEF value, D
    <3> QED
      BY <3>1, <1>5, <1>7
  <2>4. m # 0 => in_order[m - 1] = f[m - 1]
    BY <1>2, <2>2, <2>1
  <2>5. value(in_order, m) = value(f, m)
    BY <2>4
  <2> QED
    BY <2>2, <2>3, <2>5
<1>9. r \in f[N] /\ N \in D
  <2>1. N \in D
    BY <1>2
  <2> HIDE DEF in_order, D
  <2> QED
    BY <1>1, <1>8, <2>1
<1> QED
  BY <1>3, <1>4, <1>9

\* A capacity of 2 at least grows until it is enough.
LEMMA GrownEnough ==
  ASSUME NEW min_cap \in Nat, elements = <<>> \/ Len(elements) \in Nat \ {0, 1}
  PROVE  grown_cap(min_cap) \in Nat \ {0, 1} /\ grown_cap(min_cap) >= min_cap
<1> DEFINE D == Nat \ {0, 1}
           value(f, c) == IF c >= min_cap THEN c ELSE f[c + c \div 2]
           cap == CHOOSE f : f = [c \in D |-> value(f, c)]
           rank == [c \in D |-> IF c >= min_cap THEN 0 ELSE min_cap - c]
           G == [p \in D \X [D -> D] |-> value(p[2], p[1])]
<1>1. grown_cap(min_cap) = cap[IF elements = <<>> THEN ARRAY_CAP_MIN ELSE Len(elements)]
  BY DEF grown_cap
<1>2. \A c \in D : c + c \div 2 \in D /\ c < c + c \div 2
  OBVIOUS
<1>3. PICK f \in [D -> D] : Solves(f, D, G)
  <2>1. rank \in [D -> 0..min_cap] /\ D # {}
    <3>1. 2 \in D
      OBVIOUS
    <3>2. \A c \in D : (IF c >= min_cap THEN 0 ELSE min_cap - c) \in 0..min_cap
      OBVIOUS
    <3> HIDE DEF D
    <3> QED
      BY <3>1, <3>2
  <2>2. G \in [D \X [D -> D] -> D]
    BY <1>2
  <2>3. ASSUME NEW c \in D, NEW f \in [D -> D], NEW g \in [D -> D],
               \A x \in D : rank[x] < rank[c] => f[x] = g[x]
        PROVE  G[<<c, f>>] = G[<<c, g>>]
    <3>1. c < min_cap => f[c + c \div 2] = g[c + c \div 2]
      <4> SUFFICES ASSUME c < min_cap PROVE f[c + c \div 2] = g[c + c \div 2]
        OBVIOUS
      <4>1. rank[c + c \div 2] < rank[c]
        BY <1>2
      <4> QED
        BY <1>2, <2>3, <4>1
    <3>2. value(f, c) = value(g, c)
      BY <3>1
    <3>3. G[<<c, f>>] = value(f, c) /\ G[<<c, g>>] = value(g, c)
      <4> HIDE DEF value, D
      <4> QED
        OBVIOUS
    <3> QED
      BY <3>2, <3>3
  <2> HIDE DEF D, G, rank
  <2>4. DescendsBy(rank, D, D, G)
    BY <2>3 DEF DescendsBy
  <2> QED
    BY <2>1, <2>2, <2>4, FunctionExists
<1>4. \A c \in D : f[c] = value(f, c)
  BY <1>3 DEF Solves
<1>5. f = [c \in D |-> value(f, c)]
  <2> HIDE DEF value
  <2> QED
    BY <1>4
<1>6. cap = [c \in D |-> value(cap, c)]
  <2> HIDE DEF value, D
  <2> QED
    BY <1>5
<1> HIDE DEF cap
<1>7. ASSUME NEW c \in D PROVE cap[c] \in D /\ cap[c] >= min_cap
  <2> DEFINE ranks == {rank[x] : x \in {y \in D : ~(cap[y] \in D /\ cap[y] >= min_cap)}}
  <2>1. \A x \in D : rank[x] \in Nat
    OBVIOUS
  <2> SUFFICES ASSUME ranks # {} PROVE FALSE
    BY <1>7
  <2>2. ranks \in SUBSET Nat
    BY <2>1
  <2>3. PICK n \in ranks : \A m \in ranks : n <= m
    BY <2>2, LeastNatural
  <2>4. PICK x \in D : rank[x] = n /\ ~(cap[x] \in D /\ cap[x] >= min_cap)
    BY <2>3
  <2>5. cap[x] = value(cap, x)
    <3> HIDE DEF value
    <3> QED
      BY <1>6
  <2>6. CASE x >= min_cap
    BY <2>4, <2>5, <2>6
  <2>7. CASE x < min_cap
    <3>1. cap[x] = cap[x + x \div 2] /\ x + x \div 2 \in D /\ rank[x + x \div 2] < rank[x]
      BY <2>5, <2>7, <1>2
    <3>2. rank[x + x \div 2] \notin ranks
      <4>1. \A m \in ranks : n <= m
        BY <2>3
      <4>2. n \in Nat /\ rank[x + x \div 2] \in Nat /\ rank[x + x \div 2] < n
        BY <2>1, <2>4, <3>1
      <4> HIDE DEF ranks, rank
      <4> QED
        BY <4>1, <4>2
    <3>3. cap[x + x \div 2] \in D /\ cap[x + x \div 2] >= min_cap
      BY <3>1, <3>2
    <3> QED
      BY <2>4, <3>1, <3>3
  <2> QED
    BY <2>6, <2>7
<1>8. (IF elements = <<>> THEN ARRAY_CAP_MIN ELSE Len(elements)) \in D
  BY ArraysAssumption
<1> QED
  BY <1>1, <1>7, <1>8

-----------------------------------------------------------------------------
(***************************************************************************)
(* The inductive invariant.                                                *)
(***************************************************************************)

\* What is to be left of the elements before src: the batch has not moved yet.
KeptAt(k) == IF k <= dst THEN k ELSE k - dst + batch_src
Kept == [k \in 1..dst + batch_len |-> elements[KeptAt(k)]]
Merged == SubSeq(pushed, 1, src)

\* While the array is filled it has what was pushed.
FillInv ==
  step = "fill" =>
    /\ len = Len(pushed) /\ freed = <<>>
    /\ elements = <<>> \/ Len(elements) > 1
    /\ \A i \in 1..len : elements[i] = pushed[i]

\* What is left of the elements before src is what merging them is to leave; those
\* from src on are as they were sorted.
MergeInv ==
  step = "merge" =>
    /\ len = Len(pushed) /\ Ascend(pushed)
    /\ dst \in 1..src /\ src \in 1..len
    /\ \A i \in src + 1..len : elements[i] = pushed[i]
    /\ IF batch_src = -1
       THEN batch_len = 0 /\ last_unique = dst - 1
       ELSE /\ batch_len \in 1..len /\ batch_src \in dst + 1..src
            /\ batch_src + batch_len = src /\ last_unique = src - 1
    /\ IsMergeOf(Kept, Merged)
    /\ AreFreedOf(freed, Merged)

DoneInv ==
  step = "done" =>
    /\ len > 0
    /\ IsMergeOf(contents, pushed)
    /\ AreFreedOf(freed, pushed)

IdleInv ==
  step # "merge" =>
    src = 0 /\ dst = 0 /\ batch_src = -1 /\ batch_len = 0 /\ last_unique = 0

ArrayTypes ==
  /\ elements \in Seq([name : Name \cup {0}, ref_count : Nat])
  /\ len \in 0..Len(elements)
  /\ step \in {"fill", "merge", "done"}
  /\ pushed \in Seq(Symbol) /\ Len(pushed) <= MaxLen
  /\ freed \in Seq(Symbol)

ArraysInv == ArrayTypes /\ IdleInv /\ FillInv /\ MergeInv /\ DoneInv

LEMMA ArraysInvInit == ArraysInit => ArraysInv
<1> SUFFICES ASSUME ArraysInit PROVE ArraysInv
  OBVIOUS
<1> USE DEF ArraysInit
<1>1. ArrayTypes
  BY ArraysAssumption DEF ArrayTypes
<1>2. IdleInv /\ FillInv /\ MergeInv /\ DoneInv
  BY DEF IdleInv, FillInv, MergeInv, DoneInv
<1> QED
  BY <1>1, <1>2 DEF ArraysInv

LEMMA FirstOnly ==
  ASSUME NEW S, NEW s \in Seq(S), Len(s) >= 1
  PROVE  SubSeq(s, 1, 1) = <<s[1]>>
<1>1. \A i \in 1..1 : s[i] \in S
  OBVIOUS
<1>2. /\ SubSeq(s, 1, 1) \in Seq(S) /\ Len(SubSeq(s, 1, 1)) = 1
      /\ SubSeq(s, 1, 1)[1] = s[1]
  BY <1>1, SubSeqProperties
<1>3. <<s[1]>> \in Seq(S) /\ Len(<<s[1]>>) = 1 /\ <<s[1]>>[1] = s[1]
  BY <1>1
<1>4. \A i \in 1..Len(SubSeq(s, 1, 1)) : SubSeq(s, 1, 1)[i] = <<s[1]>>[i]
  BY <1>2, <1>3
<1> QED
  BY <1>2, <1>3, <1>4, SeqEqual

LEMMA OneMerged ==
  ASSUME NEW x \in Symbol
  PROVE  IsMergeOf(<<x>>, <<x>>) /\ AreFreedOf(<<>>, <<x>>)
<1>1. x \in Counted
  BY SymbolsCount
<1>2. <<x>> \in Seq(Counted) /\ Len(<<x>>) = 1 /\ <<x>>[1] = x
  BY <1>1
<1>3. IsMergeOf(<<x>>, <<x>>)
  BY <1>2 DEF IsMergeOf
<1>4. Duplicates(<<x>>) = {}
  BY <1>2 DEF Duplicates
<1>5. Cardinality({}) = 0 /\ Len(<<>>) = 0 /\ <<>> \in Seq(Symbol)
  BY FS_EmptySet
<1> QED
  BY <1>3, <1>4, <1>5 DEF AreFreedOf

LEMMA PushStep ==
  ASSUME ArraysInv, NEW s \in Pushes, PushBack(s)
  PROVE  ArraysInv'
<1> DEFINE E == [name : Name \cup {0}, ref_count : Nat]
           mem == array_reserve(Len(s))
<1>1. /\ elements \in Seq(E) /\ len \in 0..Len(elements) /\ step = "fill"
      /\ pushed \in Seq(Symbol) /\ Len(pushed) = len
      /\ elements = <<>> \/ Len(elements) > 1
      /\ \A i \in 1..len : elements[i] = pushed[i]
  BY DEF ArraysInv, ArrayTypes, FillInv, PushBack
<1>2. s \in Seq(Symbol) /\ Len(s) \in Nat
  <2>1. CASE \E x \in Symbol : s = <<x>>
    <3> HIDE DEF E
    <3> QED
      BY <2>1
  <2>2. CASE \E x, y \in Symbol : s = <<x, y>>
    <3> HIDE DEF E
    <3> QED
      BY <2>2
  <2> QED
    BY <2>1, <2>2 DEF Pushes
<1>3. Symbol \subseteq E /\ Unset \in E
  BY ArraysAssumption DEF Symbol, Unset
<1> HIDE DEF E
<1>4. /\ mem \in Seq(E) /\ (Len(mem) > 1 \/ mem = elements)
      /\ Len(mem) >= len + Len(s)
      /\ \A i \in 1..len : mem[i] = elements[i]
  <2>1. CASE Len(s) <= Len(elements) - len
    <3>1. mem = elements
      BY <2>1 DEF array_reserve
    <3> QED
      BY <2>1, <3>1, <1>1, <1>2
  <2>2. CASE ~(Len(s) <= Len(elements) - len)
    <3> DEFINE c == grown_cap(len + Len(s))
    <3>1. c \in Nat \ {0, 1} /\ c >= len + Len(s)
      <4>1. len + Len(s) \in Nat /\ (elements = <<>> \/ Len(elements) \in Nat \ {0, 1})
        BY <1>1, <1>2
      <4> QED
        BY <4>1, GrownEnough
    <3>2. mem = [i \in 1..c |-> IF i \in DOMAIN elements THEN elements[i] ELSE Unset]
      BY <2>2 DEF array_reserve
    <3> HIDE DEF c, mem
    <3>4. \A i \in 1..c : (IF i \in DOMAIN elements THEN elements[i] ELSE Unset) \in E
      BY <1>1, <1>3
    <3>5. mem \in Seq(E) /\ Len(mem) = c
      BY <3>1, <3>2, <3>4
    <3> QED
      BY <1>1, <1>2, <3>1, <3>2, <3>5
  <2> QED
    BY <2>1, <2>2
<1>5. mem \in Seq(E) /\ (Len(mem) > 1 \/ mem = <<>>)
  BY <1>1, <1>4
<1>6. /\ elements' = [i \in DOMAIN mem |->
                         IF i \in len + 1..len + Len(s) THEN s[i - len] ELSE mem[i]]
      /\ len' = len + Len(s) /\ pushed' = pushed \o s /\ step' = "fill"
      /\ freed' = freed /\ mergeVars' = mergeVars
      /\ Len(pushed) + Len(s) <= MaxLen
  BY <1>1 DEF PushBack
<1> HIDE DEF mem
<1>7. elements' \in Seq(E) /\ Len(elements') = Len(mem)
  <2>1. \A i \in 1..Len(mem) : (IF i \in len + 1..len + Len(s) THEN s[i - len] ELSE mem[i]) \in E
    BY <1>1, <1>2, <1>3, <1>5
  <2>2. DOMAIN mem = 1..Len(mem) /\ Len(mem) \in Nat
    BY <1>5
  <2> QED
    BY <1>6, <2>1, <2>2
<1>8. /\ pushed' \in Seq(Symbol) /\ Len(pushed') = len + Len(s)
      /\ \A i \in 1..len + Len(s) : pushed'[i] = IF i <= len THEN pushed[i] ELSE s[i - len]
  BY <1>1, <1>2, <1>6, ConcatProperties
<1>9. ASSUME NEW i \in 1..len' PROVE elements'[i] = pushed'[i]
  <2>1. i \in 1..Len(mem) /\ DOMAIN mem = 1..Len(mem)
    BY <1>1, <1>2, <1>4, <1>5, <1>6
  <2>2. elements'[i] = IF i \in len + 1..len + Len(s) THEN s[i - len] ELSE mem[i]
    BY <1>6, <2>1
  <2>3. i \in 1..len + Len(s) /\ pushed'[i] = IF i <= len THEN pushed[i] ELSE s[i - len]
    BY <1>6, <1>8
  <2> QED
    BY <2>2, <2>3, <1>1, <1>2, <1>4
<1>10. ArrayTypes'
  BY <1>1, <1>2, <1>4, <1>6, <1>7, <1>8 DEF ArraysInv, ArrayTypes, E
<1>11. FillInv'
  <2>1. elements' = <<>> \/ Len(elements') > 1
    BY <1>5, <1>7
  <2>2. len' = Len(pushed') /\ freed' = <<>>
    BY <1>1, <1>6, <1>8 DEF ArraysInv, FillInv
  <2> QED
    BY <2>1, <2>2, <1>9 DEF FillInv
<1>12. IdleInv' /\ MergeInv' /\ DoneInv'
  BY <1>1, <1>6 DEF ArraysInv, IdleInv, MergeInv, DoneInv, mergeVars
<1> QED
  BY <1>10, <1>11, <1>12 DEF ArraysInv

LEMMA BeginStep ==
  ASSUME ArraysInv, BeginMerge
  PROVE  ArraysInv'
<1> DEFINE E == [name : Name \cup {0}, ref_count : Nat]
           s == pushed'
<1>0. Symbol \subseteq E
  BY ArraysAssumption DEF Symbol
<1>t. elements \in Seq(E)
  BY DEF ArraysInv, ArrayTypes
<1> HIDE DEF E
<1>1. /\ elements \in Seq(E) /\ len \in 1..Len(elements) /\ step = "fill"
      /\ pushed \in Seq(Symbol) /\ Len(pushed) = len
      /\ \A i \in 1..len : elements[i] = pushed[i]
      /\ freed = <<>>
  BY <1>t DEF ArraysInv, ArrayTypes, FillInv, BeginMerge
<1>2. SubSeq(elements, 1, len) = pushed
  <2>1. SubSeq(elements, 1, len) \in Seq(E) /\ Len(SubSeq(elements, 1, len)) = len
        /\ \A i \in 1..len : SubSeq(elements, 1, len)[i] = elements[i]
    BY <1>1
  <2> QED
    BY <1>1, <2>1
<1>3. /\ pushed' \in Sortings(pushed)
      /\ elements' = pushed' \o SubSeq(elements, len + 1, Len(elements))
  BY <1>2 DEF BeginMerge, array_qsort
<1>4. s \in Seq(Symbol) /\ Len(s) = len /\ Ascend(s)
  BY <1>1, <1>3, SortingsInOrder
<1>6. /\ elements' \in Seq(E) /\ Len(elements') = Len(elements)
      /\ \A i \in 1..len : elements'[i] = s[i]
  <2>1. SubSeq(elements, len + 1, Len(elements)) \in Seq(E)
        /\ Len(SubSeq(elements, len + 1, Len(elements))) = Len(elements) - len
    BY <1>1
  <2>2. s \in Seq(E)
    BY <1>4, <1>0
  <2>3. /\ elements' \in Seq(E) /\ Len(elements') = Len(s) + (Len(elements) - len)
        /\ \A i \in 1..Len(s) + (Len(elements) - len) :
             elements'[i] = IF i <= Len(s) THEN s[i]
                            ELSE SubSeq(elements, len + 1, Len(elements))[i - Len(s)]
    BY <1>3, <2>1, <2>2, ConcatProperties
  <2> QED
    BY <1>1, <1>4, <2>3
<1>7. /\ step' = IF len < 2 THEN "done" ELSE "merge"
      /\ src' = (IF len < 2 THEN 0 ELSE 1) /\ dst' = src'
      /\ len' = len /\ batch_src' = batch_src /\ batch_len' = batch_len
      /\ last_unique' = last_unique /\ freed' = freed
      /\ batch_src = -1 /\ batch_len = 0 /\ last_unique = 0
  BY <1>1 DEF BeginMerge, ArraysInv, IdleInv
<1>8. ArrayTypes'
  BY <1>1, <1>4, <1>6, <1>7 DEF ArraysInv, ArrayTypes, E
<1>9. s[1] \in Symbol
  BY <1>1, <1>4
<1>10. IsMergeOf(<<s[1]>>, <<s[1]>>) /\ AreFreedOf(<<>>, <<s[1]>>)
  BY <1>9, OneMerged
<1>11. DoneInv'
  <2> SUFFICES ASSUME len < 2 PROVE DoneInv'
    BY <1>7 DEF DoneInv
  <2>1. len = 1
    BY <1>1
  <2>2. s = <<s[1]>>
    BY <1>4, <2>1
  <2>3. contents' = <<s[1]>>
    <3>1. contents' = SubSeq(elements', 1, 1)
      BY <1>7, <2>1 DEF contents
    <3>2. SubSeq(elements', 1, 1) = <<elements'[1]>>
      <4>1. Len(elements') \in Nat /\ Len(elements') >= 1
        BY <1>1, <1>6
      <4> HIDE DEF s
      <4> QED
        BY <1>6, <4>1, FirstOnly
    <3> QED
      BY <3>1, <3>2, <1>6, <2>1
  <2> QED
    BY <2>1, <2>2, <2>3, <1>1, <1>7, <1>10 DEF DoneInv
<1>12. MergeInv'
  <2> SUFFICES ASSUME len >= 2 PROVE MergeInv'
    BY <1>1, <1>7 DEF MergeInv
  <2>1. src' = 1 /\ dst' = 1 /\ batch_len' = 0 /\ batch_src' = -1
    BY <1>1, <1>7
  <2>2. Kept' = <<s[1]>>
    <3>1. Kept' = [k \in 1..1 |-> elements'[IF k <= 1 THEN k ELSE k - 1 + -1]]
      BY <2>1 DEF Kept, KeptAt
    <3>2. elements'[1] = s[1]
      BY <1>1, <1>6
    <3> HIDE DEF s
    <3>3. [k \in 1..1 |-> elements'[IF k <= 1 THEN k ELSE k - 1 + -1]] = [k \in 1..1 |-> s[1]]
      BY <3>2
    <3>4. [k \in 1..1 |-> s[1]] = <<s[1]>>
      OBVIOUS
    <3> QED
      BY <3>1, <3>3, <3>4
  <2>3. Merged' = <<s[1]>>
    <3>1. Merged' = SubSeq(s, 1, 1)
      BY <2>1 DEF Merged
    <3> HIDE DEF s
    <3>2. SubSeq(s, 1, 1) = <<s[1]>>
      BY <1>1, <1>4, FirstOnly
    <3> QED
      BY <3>1, <3>2
  <2> QED
    BY <2>1, <2>2, <2>3, <1>1, <1>4, <1>6, <1>7, <1>10 DEF MergeInv
<1>13. FillInv' /\ IdleInv'
  BY <1>1, <1>7 DEF FillInv, IdleInv
<1> QED
  BY <1>8, <1>11, <1>12, <1>13 DEF ArraysInv

\* What the loop of array_merge() knows of the element it looks at.
LEMMA InMerge ==
  ASSUME ArraysInv, step = "merge", src < len
  PROVE  /\ at(src) \in Symbol /\ pushed[src + 1] = at(src)
         /\ Merged \in Seq(Symbol) /\ Merged # <<>>
         /\ SubSeq(pushed, 1, src + 1) = Append(Merged, at(src))
         /\ IF IsDuplicate THEN Merged[Len(Merged)].name = at(src).name
                           ELSE Merged[Len(Merged)].name < at(src).name
         /\ IsMergeOf(Kept, Merged) /\ AreFreedOf(freed, Merged)
         /\ Kept \in Seq(Counted) /\ Len(Kept) = dst + batch_len
         /\ KeptAt(dst + batch_len) = last_unique + 1
<1>1. /\ dst \in 1..src /\ src \in 1..len /\ len \in Nat /\ len = Len(pushed)
      /\ \A i \in src + 1..len : elements[i] = pushed[i]
      /\ IsMergeOf(Kept, Merged) /\ AreFreedOf(freed, Merged)
      /\ pushed \in Seq(Symbol) /\ Ascend(pushed)
      /\ batch_len \in Nat
  BY DEF ArraysInv, ArrayTypes, MergeInv
<1>2. at(src) = pushed[src + 1] /\ pushed[src + 1] \in Symbol
  BY <1>1 DEF at
<1>3. /\ Merged \in Seq(Symbol) /\ Len(Merged) = src /\ Merged[src] = pushed[src]
  BY <1>1 DEF Merged
<1>4. SubSeq(pushed, 1, src + 1) = Append(Merged, at(src))
  <2>1. SubSeq(pushed, 1, src + 1) = Merged \o <<pushed[src + 1]>>
    <3>1. 1 \in 1..Len(pushed) /\ src + 1 \in 1..Len(pushed) /\ (src + 1) - 1 = src
      BY <1>1
    <3>2. SubSeq(pushed, 1, src + 1) = SubSeq(pushed, 1, (src + 1) - 1) \o <<pushed[src + 1]>>
      BY <1>1, <3>1, SubSeqRecursiveSecond
    <3> QED
      BY <3>1, <3>2 DEF Merged
  <2> QED
    BY <2>1, <1>2, <1>3
<1>5. KeptAt(dst + batch_len) = last_unique + 1
  BY <1>1 DEF ArraysInv, MergeInv, KeptAt
<1>6. Kept \in Seq(Counted) /\ Len(Kept) = dst + batch_len
  BY <1>1 DEF IsMergeOf, Kept
<1>7. Kept[dst + batch_len] = at(last_unique)
  <2>1. dst + batch_len \in 1..dst + batch_len
    BY <1>1
  <2> QED
    BY <2>1, <1>5 DEF Kept, at
<1>8. at(last_unique).name = Merged[Len(Merged)].name
  BY <1>1, <1>6, <1>7 DEF IsMergeOf
<1>9. pushed[src].name <= pushed[src + 1].name
  BY <1>1 DEF Ascend
<1>10. pushed[src].name \in Int /\ pushed[src + 1].name \in Int
  <2>1. \A y \in Symbol : y.name \in Int
    BY ArraysAssumption DEF Symbol
  <2>2. pushed[src] \in Symbol /\ pushed[src + 1] \in Symbol
    BY <1>1
  <2> QED
    BY <2>1, <2>2
<1>11. IF IsDuplicate THEN Merged[Len(Merged)].name = at(src).name
                      ELSE Merged[Len(Merged)].name < at(src).name
  BY <1>2, <1>3, <1>8, <1>9, <1>10 DEF IsDuplicate
<1>12. Merged # <<>>
  BY <1>1, <1>3
<1> QED
  BY <1>1, <1>2, <1>3, <1>4, <1>5, <1>6, <1>11, <1>12

LEMMA KeepStep ==
  ASSUME ArraysInv, KeepCurrent
  PROVE  ArraysInv'
<1> DEFINE x == at(src)
<1>1. /\ step = "merge" /\ src < len /\ src' = src + 1 /\ last_unique' = src
      /\ elements' = elements /\ len' = len /\ step' = step /\ pushed' = pushed /\ freed' = freed
  BY DEF KeepCurrent
<1>2. /\ len = Len(pushed) /\ Ascend(pushed) /\ dst \in 1..src /\ src \in 1..len /\ len \in Nat
      /\ \A i \in src + 1..len : elements[i] = pushed[i]
      /\ pushed \in Seq(Symbol)
  BY <1>1 DEF ArraysInv, ArrayTypes, MergeInv
<1>3. IF batch_src = -1
      THEN batch_len = 0 /\ last_unique = dst - 1
      ELSE /\ batch_len \in 1..len /\ batch_src \in dst + 1..src
           /\ batch_src + batch_len = src /\ last_unique = src - 1
  BY <1>1 DEF ArraysInv, MergeInv
<1>4. /\ x \in Symbol /\ pushed[src + 1] = x
      /\ Merged \in Seq(Symbol) /\ Merged # <<>>
      /\ SubSeq(pushed, 1, src + 1) = Append(Merged, x)
      /\ Merged[Len(Merged)].name < x.name
      /\ IsMergeOf(Kept, Merged) /\ AreFreedOf(freed, Merged)
      /\ Kept \in Seq(Counted) /\ Len(Kept) = dst + batch_len
  BY <1>1, InMerge DEF KeepCurrent
<1>5. /\ dst' \in 1..src'
      /\ IF batch_src' = -1
         THEN batch_len' = 0 /\ last_unique' = dst' - 1
         ELSE /\ batch_len' \in 1..len' /\ batch_src' \in dst' + 1..src'
              /\ batch_src' + batch_len' = src' /\ last_unique' = src' - 1
      /\ dst' + batch_len' = dst + batch_len + 1
  BY <1>1, <1>2, <1>3 DEF KeepCurrent
<1>6. PICK n \in Nat : n = dst + batch_len
  BY <1>2, <1>3
<1>7. Kept' = Append(Kept, x)
  <2>0. \A k \in 1..n + 1 : KeptAt(k)' = IF k = n + 1 THEN src + 1 ELSE KeptAt(k)
    <3> SUFFICES ASSUME NEW k \in 1..n + 1
                 PROVE  KeptAt(k)' = IF k = n + 1 THEN src + 1 ELSE KeptAt(k)
      OBVIOUS
    <3>1. CASE batch_src # -1
      <4>1. dst' = dst /\ batch_src' = batch_src
        BY <3>1 DEF KeepCurrent
      <4>2. /\ n = dst + batch_len /\ batch_src + batch_len = src
            /\ dst \in Nat /\ batch_len \in Nat \ {0} /\ batch_src \in Nat
        BY <3>1, <1>2, <1>3, <1>6
      <4>3. n + 1 - dst + batch_src = src + 1 /\ ~(n + 1 <= dst)
        BY <4>2
      <4>4. KeptAt(k)' = IF k <= dst THEN k ELSE k - dst + batch_src
        BY <4>1 DEF KeptAt
      <4>5. KeptAt(k) = IF k <= dst THEN k ELSE k - dst + batch_src
        BY DEF KeptAt
      <4>6. CASE k = n + 1
        <5>1. KeptAt(k)' = (n + 1) - dst + batch_src
          BY <4>3, <4>4, <4>6
        <5> QED
          BY <4>2, <4>3, <4>6, <5>1
      <4>7. CASE k # n + 1
        BY <4>4, <4>5, <4>7
      <4> QED
        BY <4>6, <4>7
    <3>2. CASE batch_src = -1 /\ dst # src
      <4>1. dst' = dst /\ batch_src' = src /\ n = dst
        BY <3>2, <1>2, <1>3, <1>6 DEF KeepCurrent
      <4> QED
        BY <4>1, <1>2 DEF KeptAt
    <3>3. CASE batch_src = -1 /\ dst = src
      <4>1. dst' = dst + 1 /\ n = dst
        BY <3>3, <1>2, <1>3, <1>6 DEF KeepCurrent
      <4> QED
        BY <4>1, <3>3, <1>2 DEF KeptAt
    <3> QED
      BY <3>1, <3>2, <3>3
  <2>1. n \in Nat
    BY <1>6
  <2>2. Kept' = [k \in 1..n + 1 |-> elements[KeptAt(k)']]
    BY <1>1, <1>5, <1>6 DEF Kept
  <2>3. \A k \in 1..n : Kept[k] = elements[KeptAt(k)]
    BY <1>6 DEF Kept
  <2>4. elements[src + 1] = x
    BY DEF at
  <2>5. \A k \in 1..n + 1 : elements[KeptAt(k)'] = IF k = n + 1 THEN x ELSE Kept[k]
    BY <2>0, <2>1, <2>3, <2>4
  <2>6. \A k \in 1..n + 1 : Append(Kept, x)[k] = IF k = n + 1 THEN x ELSE Kept[k]
    BY <1>4, <1>6, <2>1
  <2>7. Append(Kept, x) \in Seq(Counted) /\ Len(Append(Kept, x)) = n + 1
    BY <1>4, <1>6, SymbolsCount
  <2>8. \A k \in 1..n + 1 : Append(Kept, x)[k] = elements[KeptAt(k)']
    BY <2>5, <2>6
  <2>9. Append(Kept, x) = [k \in 1..n + 1 |-> Append(Kept, x)[k]]
    <3> DEFINE t == Append(Kept, x)
    <3> HIDE DEF t
    <3>1. t \in [1..n + 1 -> Counted]
      BY <2>1, <2>7, LenProperties DEF t
    <3> QED
      BY <3>1 DEF t
  <2> HIDE DEF x
  <2> QED
    BY <2>2, <2>8, <2>9
<1>8. Merged' = Append(Merged, x)
  BY <1>1, <1>4 DEF Merged
<1>9. IsMergeOf(Kept', Merged') /\ AreFreedOf(freed', Merged')
  <2>1. IsMergeOf(Append(Kept, x), Append(Merged, x))
    BY <1>4, MergeOfNext
  <2>2. x.name \in Int /\ Merged[Len(Merged)].name \in Int
    <3>1. Merged[Len(Merged)] \in Symbol
      BY <1>4
    <3>2. \A z \in Symbol : z.name \in Int
      BY ArraysAssumption DEF Symbol
    <3> QED
      BY <1>4, <3>1, <3>2
  <2>3. AreFreedOf(freed, Append(Merged, x))
    BY <1>4, <2>2, FreedOfNext
  <2> QED
    BY <2>1, <2>3, <1>1, <1>7, <1>8
<1>10. MergeInv'
  <2>1. \A i \in src' + 1..len' : elements'[i] = pushed'[i]
    BY <1>1, <1>2
  <2>2. Ascend(pushed') /\ len' = Len(pushed') /\ src' \in 1..len'
    BY <1>1, <1>2
  <2> QED
    BY <2>1, <2>2, <1>5, <1>9 DEF MergeInv
<1>11. ArrayTypes' /\ IdleInv' /\ FillInv' /\ DoneInv'
  BY <1>1 DEF ArraysInv, ArrayTypes, IdleInv, FillInv, DoneInv
<1> QED
  BY <1>10, <1>11 DEF ArraysInv

LEMMA DuplicateStep ==
  ASSUME ArraysInv, MergeDuplicate
  PROVE  ArraysInv'
<1> DEFINE x == at(src)
           E == [name : Name \cup {0}, ref_count : Nat]
           n == dst + batch_len
           u == last_unique + 1
<1>0. Counted \subseteq E
  BY DEF Counted
<1>t. elements \in Seq(E)
  BY DEF ArraysInv, ArrayTypes
<1>1. /\ step = "merge" /\ src < len /\ src' = src + 1 /\ freed' = Append(freed, x)
      /\ len' = len /\ step' = step /\ pushed' = pushed
  BY DEF MergeDuplicate
<1>2. /\ len = Len(pushed) /\ Ascend(pushed) /\ dst \in 1..src /\ src \in 1..len
      /\ len \in Nat /\ len \in 0..Len(elements) /\ pushed \in Seq(Symbol)
      /\ \A i \in src + 1..len : elements[i] = pushed[i]
  BY <1>1 DEF ArraysInv, ArrayTypes, MergeInv
<1>3. IF batch_src = -1
      THEN batch_len = 0 /\ last_unique = dst - 1
      ELSE /\ batch_len \in 1..len /\ batch_src \in dst + 1..src
           /\ batch_src + batch_len = src /\ last_unique = src - 1
  BY <1>1 DEF ArraysInv, MergeInv
<1>4. /\ x \in Symbol /\ pushed[src + 1] = x
      /\ Merged \in Seq(Symbol) /\ Merged # <<>>
      /\ SubSeq(pushed, 1, src + 1) = Append(Merged, x)
      /\ Merged[Len(Merged)].name = x.name
      /\ IsMergeOf(Kept, Merged) /\ AreFreedOf(freed, Merged)
      /\ Kept \in Seq(Counted) /\ Len(Kept) = n
      /\ KeptAt(n) = u
  BY <1>1, InMerge DEF MergeDuplicate
<1>5. /\ dst' = n /\ dst' \in 1..src' /\ last_unique' = dst' - 1
      /\ batch_src' = -1 /\ batch_len' = 0
  BY <1>1, <1>2, <1>3 DEF MergeDuplicate
<1>6. /\ n \in 1..src /\ u \in 1..src
      /\ \A k \in 1..n : KeptAt(k) \in 1..src /\ (k # n => KeptAt(k) # u)
  <2>1. KeptAt(n) = u
    BY <1>4
  <2>2. CASE batch_src = -1
    BY <2>1, <2>2, <1>2, <1>3 DEF KeptAt
  <2>3. CASE batch_src # -1
    <3>1. n \in 1..src /\ u = src
      BY <2>3, <1>2, <1>3
    <3>2. \A k \in 1..n : KeptAt(k) \in 1..src
      BY <2>3, <1>2, <1>3 DEF KeptAt
    <3>3. \A k \in 1..n : k # n => KeptAt(k) # src
      BY <2>3, <1>2, <1>3 DEF KeptAt
    <3> QED
      BY <1>2, <3>1, <3>2, <3>3
  <2> QED
    BY <2>2, <2>3
<1>7. /\ elements[u] = Kept[n] /\ Kept[n] \in Counted
      /\ \A k \in 1..n : Kept[k] = elements[KeptAt(k)] /\ Kept[k] \in Counted
  BY <1>4, <1>6 DEF Kept
<1>8. x.ref_count \in Nat
  BY <1>4, SymbolsCount DEF Counted
<1> DEFINE y == [elements[u] EXCEPT !.ref_count = @ + x.ref_count]
<1>9. merged = [elements EXCEPT ![u] = y]
  BY DEF merged
<1>10. y \in Counted /\ y.name = Kept[n].name /\ y.ref_count = Kept[n].ref_count + x.ref_count
  BY <1>7, <1>8 DEF Counted
<1> HIDE DEF y, E
<1>11. /\ merged \in Seq(E) /\ Len(merged) = Len(elements)
       /\ \A i \in 1..Len(elements) : merged[i] = IF i = u THEN y ELSE elements[i]
  BY <1>0, <1>t, <1>2, <1>6, <1>9, <1>10
<1>12. /\ elements' \in Seq(E) /\ Len(elements') = Len(elements)
       /\ \A k \in 1..n : elements'[k] = merged[KeptAt(k)]
       /\ \A i \in src + 1..len : elements'[i] = merged[i]
  <2>1. CASE batch_src = -1
    <3>1. elements' = merged /\ n = dst
      BY <2>1, <1>2, <1>3 DEF MergeDuplicate
    <3>2. \A k \in 1..n : KeptAt(k) = k
      BY <3>1 DEF KeptAt
    <3> QED
      BY <3>1, <3>2, <1>11
  <2>2. CASE batch_src # -1
    <3>1. elements' = moved(merged)
      BY <2>2 DEF MergeDuplicate
    <3>2. elements' = [i \in 1..Len(elements) |->
                         IF i \in dst + 1..n THEN merged[i - dst + batch_src] ELSE merged[i]]
      BY <3>1, <1>11 DEF moved
    <3>3. \A i \in dst + 1..n : i - dst + batch_src \in 1..Len(elements)
      BY <2>2, <1>2, <1>3
    <3>4. \A i \in 1..Len(elements) :
            (IF i \in dst + 1..n THEN merged[i - dst + batch_src] ELSE merged[i]) \in E
      BY <3>3, <1>11
    <3>5. Len(elements) \in Nat
      BY <1>t
    <3>6. elements' \in Seq(E) /\ Len(elements') = Len(elements)
      BY <3>2, <3>4, <3>5
    <3>7. \A k \in 1..n : /\ k \in 1..Len(elements)
                          /\ KeptAt(k) = IF k \in dst + 1..n THEN k - dst + batch_src ELSE k
      BY <1>2, <1>6 DEF KeptAt
    <3>8. \A i \in src + 1..len : i \in 1..Len(elements) /\ i \notin dst + 1..n
      BY <1>2, <1>6
    <3> HIDE DEF n
    <3> QED
      BY <3>2, <3>6, <3>7, <3>8
  <2> QED
    BY <2>1, <2>2
<1>13. /\ Kept' \in Seq(Counted) /\ AddsAt(Kept', Kept, Len(Kept), x.ref_count)
  <2>1. Kept' = [k \in 1..n |-> elements'[k]]
    BY <1>5 DEF Kept, KeptAt
  <2>2. \A k \in 1..n : elements'[k] = IF k = n THEN y ELSE Kept[k]
    <3> SUFFICES ASSUME NEW k \in 1..n PROVE elements'[k] = IF k = n THEN y ELSE Kept[k]
      OBVIOUS
    <3>1. elements'[k] = merged[KeptAt(k)] /\ Kept[k] = elements[KeptAt(k)]
      BY <1>7, <1>12
    <3>2. KeptAt(k) \in 1..Len(elements) /\ (k # n => KeptAt(k) # u)
      BY <1>2, <1>6
    <3>3. k = n => KeptAt(k) = u
      BY <1>4
    <3> HIDE DEF n, u
    <3> QED
      BY <3>1, <3>2, <3>3, <1>11
  <2>3. \A k \in 1..n : elements'[k] \in Counted
    BY <2>2, <1>7, <1>10
  <2>4. n \in Nat
    BY <1>6
  <2> HIDE DEF n, x
  <2>5. Kept' \in Seq(Counted) /\ Len(Kept') = n
    BY <2>1, <2>3, <2>4
  <2>6. \A k \in 1..n : Kept'[k] = IF k = n THEN y ELSE Kept[k]
    BY <2>1, <2>2
  <2>7. n \in 1..n
    BY <1>6
  <2> QED
    BY <2>5, <2>6, <2>7, <1>4, <1>10 DEF AddsAt
<1>14. Merged' = Append(Merged, x)
  BY <1>1, <1>4 DEF Merged
<1>15. IsMergeOf(Kept', Merged') /\ AreFreedOf(freed', Merged')
  <2>1. IsMergeOf(Kept', Append(Merged, x))
    BY <1>4, <1>13, MergeOfDuplicate
  <2>2. AreFreedOf(Append(freed, x), Append(Merged, x))
    BY <1>4, FreedOfDuplicate
  <2> QED
    BY <2>1, <2>2, <1>1, <1>14
<1>16. \A i \in src' + 1..len' : elements'[i] = pushed'[i]
  <2> SUFFICES ASSUME NEW i \in src + 2..len PROVE elements'[i] = pushed[i]
    BY <1>1, <1>2
  <2>1. i \in src + 1..len /\ i \in 1..Len(elements) /\ i # u
    BY <1>2, <1>6
  <2> HIDE DEF u
  <2> QED
    BY <2>1, <1>2, <1>11, <1>12
<1>17. MergeInv'
  <2>1. Ascend(pushed') /\ len' = Len(pushed') /\ src' \in 1..len'
    BY <1>1, <1>2
  <2> QED
    BY <2>1, <1>5, <1>15, <1>16 DEF MergeInv
<1>18. freed' \in Seq(Symbol)
  BY <1>1, <1>4 DEF ArraysInv, ArrayTypes
<1>19. ArrayTypes' /\ IdleInv' /\ FillInv' /\ DoneInv'
  BY <1>1, <1>12, <1>18 DEF ArraysInv, ArrayTypes, IdleInv, FillInv, DoneInv, E
<1> QED
  BY <1>17, <1>19 DEF ArraysInv

LEMMA DoneStep ==
  ASSUME ArraysInv, MergeDone
  PROVE  ArraysInv'
<1> DEFINE E == [name : Name \cup {0}, ref_count : Nat]
           n == dst + batch_len
<1>t. elements \in Seq(E)
  BY DEF ArraysInv, ArrayTypes
<1>1. /\ step = "merge" /\ src = len /\ step' = "done" /\ len' = n
      /\ src' = 0 /\ dst' = 0 /\ batch_src' = -1 /\ batch_len' = 0 /\ last_unique' = 0
      /\ pushed' = pushed /\ freed' = freed
      /\ elements' = IF batch_src = -1 THEN elements ELSE moved(elements)
  BY DEF MergeDone
<1>2. /\ len = Len(pushed) /\ dst \in 1..src /\ src \in 1..len /\ len \in Nat
      /\ len \in 0..Len(elements) /\ pushed \in Seq(Symbol)
      /\ IsMergeOf(Kept, Merged) /\ AreFreedOf(freed, Merged)
  BY <1>1 DEF ArraysInv, ArrayTypes, MergeInv
<1>3. IF batch_src = -1
      THEN batch_len = 0 /\ last_unique = dst - 1
      ELSE /\ batch_len \in 1..len /\ batch_src \in dst + 1..src
           /\ batch_src + batch_len = src /\ last_unique = src - 1
  BY <1>1 DEF ArraysInv, MergeInv
<1>4. n \in 1..len
  BY <1>1, <1>2, <1>3
<1> HIDE DEF E
<1>5. /\ elements' \in Seq(E) /\ Len(elements') = Len(elements)
      /\ \A k \in 1..n : elements'[k] = elements[KeptAt(k)]
  <2>1. CASE batch_src = -1
    <3>1. elements' = elements /\ n = dst
      BY <2>1, <1>1, <1>2, <1>3
    <3>2. \A k \in 1..n : KeptAt(k) = k
      BY <3>1 DEF KeptAt
    <3> QED
      BY <3>1, <3>2, <1>t
  <2>2. CASE batch_src # -1
    <3>2. elements' = [i \in 1..Len(elements) |->
                         IF i \in dst + 1..n THEN elements[i - dst + batch_src] ELSE elements[i]]
      BY <2>2, <1>t, <1>1 DEF moved
    <3>3. \A i \in dst + 1..n : i - dst + batch_src \in 1..Len(elements)
      BY <2>2, <1>1, <1>2, <1>3
    <3>4. \A i \in 1..Len(elements) :
            (IF i \in dst + 1..n THEN elements[i - dst + batch_src] ELSE elements[i]) \in E
      BY <3>3, <1>t
    <3>5. Len(elements) \in Nat
      BY <1>t
    <3>6. elements' \in Seq(E) /\ Len(elements') = Len(elements)
      BY <3>2, <3>4, <3>5
    <3>7. \A k \in 1..n : /\ k \in 1..Len(elements)
                          /\ KeptAt(k) = IF k \in dst + 1..n THEN k - dst + batch_src ELSE k
      BY <1>2, <1>4 DEF KeptAt
    <3> HIDE DEF n
    <3> QED
      BY <3>2, <3>6, <3>7
  <2> QED
    BY <2>1, <2>2
<1>6. contents' = Kept
  <2>1. contents' = SubSeq(elements', 1, n)
    BY <1>1 DEF contents
  <2>2. SubSeq(elements', 1, n) = [k \in 1..n |-> elements'[k]]
    BY <1>2, <1>4, <1>5
  <2>3. Kept = [k \in 1..n |-> elements[KeptAt(k)]]
    BY DEF Kept
  <2> HIDE DEF n
  <2> QED
    BY <2>1, <2>2, <2>3, <1>5
<1>7. Merged = pushed
  BY <1>1, <1>2, SubSeqFull DEF Merged
<1>8. ArrayTypes'
  BY <1>1, <1>2, <1>4, <1>5 DEF ArraysInv, ArrayTypes, E
<1>9. DoneInv'
  BY <1>1, <1>2, <1>4, <1>6, <1>7 DEF DoneInv
<1>10. IdleInv' /\ MergeInv' /\ FillInv'
  BY <1>1 DEF IdleInv, MergeInv, FillInv
<1> QED
  BY <1>8, <1>9, <1>10 DEF ArraysInv

LEMMA CleanStep ==
  ASSUME ArraysInv, array_cleanup
  PROVE  ArraysInv'
<1>1. /\ step = "done" /\ elements' = <<>> /\ len' = 0 /\ step' = "fill" /\ pushed' = <<>>
      /\ freed' = <<>> /\ mergeVars' = mergeVars
  BY DEF array_cleanup
<1>2. ArrayTypes'
  BY <1>1, ArraysAssumption DEF ArrayTypes
<1>3. IdleInv' /\ FillInv' /\ MergeInv' /\ DoneInv'
  BY <1>1 DEF ArraysInv, IdleInv, FillInv, MergeInv, DoneInv, mergeVars
<1> QED
  BY <1>2, <1>3 DEF ArraysInv

LEMMA ArraysInvStep == ArraysInv /\ [ArraysNext]_arrayVars => ArraysInv'
<1> SUFFICES ASSUME ArraysInv, [ArraysNext]_arrayVars PROVE ArraysInv'
  OBVIOUS
<1>1. ASSUME NEW s \in Pushes, PushBack(s) PROVE ArraysInv'
  BY <1>1, PushStep
<1>2. CASE BeginMerge
  BY <1>2, BeginStep
<1>3. CASE KeepCurrent
  BY <1>3, KeepStep
<1>4. CASE MergeDuplicate
  BY <1>4, DuplicateStep
<1>5. CASE MergeDone
  BY <1>5, DoneStep
<1>6. CASE array_cleanup
  BY <1>6, CleanStep
<1>7. CASE UNCHANGED arrayVars
  <2>1. ArrayTypes' /\ IdleInv' /\ FillInv' /\ DoneInv'
    BY <1>7 DEF ArraysInv, ArrayTypes, IdleInv, FillInv, DoneInv, arrayVars, mergeVars, contents
  <2>2. MergeInv'
    <3>1. Kept' = Kept /\ Merged' = Merged
      BY <1>7 DEF Kept, KeptAt, Merged, arrayVars, mergeVars
    <3> QED
      BY <1>7, <3>1 DEF ArraysInv, MergeInv, arrayVars, mergeVars
  <2> QED
    BY <2>1, <2>2 DEF ArraysInv
<1> QED
  BY <1>1, <1>2, <1>3, <1>4, <1>5, <1>6, <1>7 DEF ArraysNext

LEMMA InvMerged == ArraysInv => MergedExactly
<1> SUFFICES ASSUME ArraysInv, step = "done" PROVE OneOfEachName /\ FreesDuplicates
  BY DEF MergedExactly
<1>1. len > 0 /\ IsMergeOf(contents, pushed) /\ AreFreedOf(freed, pushed)
  BY DEF ArraysInv, DoneInv
<1>2. Len(contents) = len /\ len \in Nat
  BY <1>1 DEF ArraysInv, ArrayTypes, contents
<1>3. OneOfEachName
  BY <1>1, <1>2 DEF OneOfEachName, IsMergeOf
<1>4. FreesDuplicates
  BY <1>1 DEF FreesDuplicates, AreFreedOf, Duplicates
<1> QED
  BY <1>3, <1>4

\* array_merge() leaves one symbol of each name, in order and with all references
\* of the name, and frees every duplicate once with the value it was pushed with, for
\* every array, however long the runs of duplicates are and wherever they are.
THEOREM MergeIsExact == ArraysSpec => []MergedExactly
<1>1. ArraysSpec => []ArraysInv
  BY ArraysInvInit, ArraysInvStep, PTL DEF ArraysSpec
<1> QED
  BY <1>1, InvMerged, PTL

-----------------------------------------------------------------------------
(***************************************************************************)
(* The style of comments.                                                  *)
(***************************************************************************)

\* Between two include files the style is the one the user chose.
StyleInv ==
  /\ opt_comment_style = style_wanted
  /\ style_wanted \in CommentStyles
  /\ NoneIsNone

LEMMA StyleAfter ==
  ASSUME opt_comment_style \in CommentStyles, NEW inc
  PROVE  style_after(inc) = opt_comment_style
<1>1. opt_comment_style.start = "none" => opt_comment_style = Style("none", "none")
  BY DEF CommentStyles, Style
<1> QED
  BY <1>1 DEF style_after, sets_style, Style

\* A line to delete is printed with a style, and others only with the one chosen.
LEMMA PrintedWithStyle ==
  ASSUME StyleInv, NEW inc, NEW l \in first_line(inc) \cup repeated_lines(inc)
  PROVE  /\ l.comment = "delete" => l.style.start # "none"
         /\ style_wanted.start = "none" /\ l.comment # "delete" => l.style.start = "none"
<1>1. prints_delete(inc) \/ inc.lines > 1 => delete_style(inc).start # "none"
  BY DEF delete_style, sets_style
<1>2. CASE l \in repeated_lines(inc)
  BY <1>1, <1>2 DEF repeated_lines, PrintedLine
<1>3. CASE l \in first_line(inc) /\ prints_symbols(inc)
  BY <1>3 DEF first_line, PrintedLine, StyleInv
<1>4. CASE l \in first_line(inc) /\ ~prints_symbols(inc)
  BY <1>1, <1>4 DEF first_line, PrintedLine
<1> QED
  BY <1>2, <1>3, <1>4

LEMMA StyleStep == StyleInv /\ [CommentsNext]_commentsVars => StyleInv'
<1> SUFFICES ASSUME StyleInv, [CommentsNext]_commentsVars PROVE StyleInv'
  OBVIOUS
<1>1. CASE UNCHANGED commentsVars
  BY <1>1 DEF commentsVars, commentOptions, StyleInv, NoneIsNone
<1>2. ASSUME NEW inc \in Shown, maybe_print_include(inc) PROVE StyleInv'
  <2>1. style_wanted' = style_wanted /\ opt_comment_style' = opt_comment_style
    BY <1>2, StyleAfter DEF maybe_print_include, commentOptions, StyleInv
  <2>2. printed' = {} \/ printed' = first_line(inc) \cup repeated_lines(inc)
    BY <1>2 DEF maybe_print_include
  <2>3. NoneIsNone'
    BY <2>1, <2>2, PrintedWithStyle DEF NoneIsNone
  <2> QED
    BY <2>1, <2>3 DEF StyleInv
<1> QED
  BY <1>1, <1>2 DEF CommentsNext

\* The temporary style of maybe_print_include() never shows at another include
\* file: whatever is printed before, --comment-style=none leaves comments to the
\* lines to delete, and these always have one.
THEOREM NoneStaysNone == CommentsSpec => []NoneIsNone
<1>1. CommentsInit => StyleInv
  BY DEF CommentsInit, StyleInv, NoneIsNone
<1>2. StyleInv => NoneIsNone
  BY DEF StyleInv
<1> QED
  BY <1>1, <1>2, StyleStep, PTL DEF CommentsSpec

-----------------------------------------------------------------------------
(***************************************************************************)
(* The order of the symbols in a comment.                                  *)
(***************************************************************************)

\* R orders S.
Orders(R, S) ==
  /\ R \subseteq S \X S
  /\ \A x \in S : <<x, x>> \notin R
  /\ \A x, y \in S : x # y => <<x, y>> \in R \/ <<y, x>> \in R
  /\ \A x, y, z \in S : <<x, y>> \in R /\ <<y, z>> \in R => <<x, z>> \in R

\* The elements of a finite set can be put in any order that is total.
LEMMA InThatOrder ==
  ASSUME NEW S, IsFiniteSet(S), NEW R, Orders(R, S)
  PROVE  \E f \in Bijection(1..Cardinality(S), S) :
           \A i, j \in 1..Cardinality(S) : i < j => <<f[i], f[j]>> \in R
<1> DEFINE n == Cardinality(S)
           below(x) == {y \in S : y = x \/ <<y, x>> \in R}
           rank == [x \in S |-> Cardinality(below(x))]
           f == [i \in 1..n |-> CHOOSE x \in S : rank[x] = i]
<1>1. n \in Nat /\ IsFiniteSet(1..n) /\ Cardinality(1..n) = n
  BY FS_CardinalityType, FS_Interval
<1>2. ASSUME NEW x \in S
      PROVE  /\ below(x) \subseteq S /\ x \in below(x) /\ IsFiniteSet(below(x))
             /\ Cardinality(below(x)) \in 1..n
  <2>1. below(x) \subseteq S /\ x \in below(x)
    OBVIOUS
  <2>2. IsFiniteSet(below(x)) /\ Cardinality(below(x)) <= n
    BY <2>1, FS_Subset
  <2>3. Cardinality(below(x)) \in Nat /\ Cardinality(below(x)) # 0
    BY <2>1, <2>2, FS_CardinalityType, FS_EmptySet
  <2> QED
    BY <1>1, <2>1, <2>2, <2>3
<1>3. ASSUME NEW x \in S, NEW y \in S, <<x, y>> \in R
      PROVE  rank[x] < rank[y]
  <2>1. below(x) \subseteq below(y) \ {y}
    <3>1. ASSUME NEW z \in below(x) PROVE z \in S /\ <<z, y>> \in R
      BY <1>3 DEF Orders
    <3>2. <<y, y>> \notin R
      BY DEF Orders
    <3> QED
      BY <3>1, <3>2
  <2>2. /\ IsFiniteSet(below(y) \ {y})
        /\ Cardinality(below(y) \ {y}) = Cardinality(below(y)) - 1
    BY <1>2, FS_RemoveElement
  <2>3. Cardinality(below(x)) <= Cardinality(below(y) \ {y})
    BY <2>1, <2>2, FS_Subset
  <2>4. rank[x] = Cardinality(below(x)) /\ rank[y] = Cardinality(below(y))
    OBVIOUS
  <2>5. Cardinality(below(x)) \in Nat /\ Cardinality(below(y)) \in Nat
    <3> HIDE DEF below
    <3> QED
      BY <1>1, <1>2
  <2> HIDE DEF below, rank
  <2> QED
    BY <2>2, <2>3, <2>4, <2>5
<1>4. rank \in [S -> 1..n]
  BY <1>2
<1> HIDE DEF rank
<1>5. ASSUME NEW x \in S, NEW y \in S, rank[x] = rank[y] PROVE x = y
  <2>1. ~(rank[x] < rank[y]) /\ ~(rank[y] < rank[x])
    BY <1>1, <1>4, <1>5
  <2>2. <<x, y>> \notin R /\ <<y, x>> \notin R
    BY <1>3, <2>1
  <2> QED
    BY <2>2 DEF Orders
<1>6. rank \in Injection(S, 1..n)
  BY <1>4, <1>5 DEF Injection, IsInjective
<1>7. rank \in Surjection(S, 1..n)
  BY <1>1, <1>6, FS_Injection
<1>8. ASSUME NEW i \in 1..n PROVE f[i] \in S /\ rank[f[i]] = i
  <2>1. \E x \in S : rank[x] = i
    BY <1>7 DEF Surjection
  <2> QED
    BY <2>1
<1>9. f \in [1..n -> S]
  BY <1>8
<1> HIDE DEF f
<1>10. ASSUME NEW i \in 1..n, NEW j \in 1..n, i < j
       PROVE  <<f[i], f[j]>> \in R
  <2>1. f[i] \in S /\ f[j] \in S /\ rank[f[i]] = i /\ rank[f[j]] = j
    BY <1>8
  <2>2. f[i] # f[j]
    BY <1>1, <1>10, <2>1
  <2>3. ~(<<f[j], f[i]>> \in R)
    BY <1>1, <1>3, <1>10, <2>1
  <2> QED
    BY <2>1, <2>2, <2>3 DEF Orders
<1>11. f \in Injection(1..n, S)
  BY <1>8, <1>9 DEF Injection, IsInjective
<1>12. f \in Surjection(1..n, S)
  <2>1. ASSUME NEW x \in S PROVE rank[x] \in 1..n /\ f[rank[x]] = x
    BY <1>4, <1>5, <1>8
  <2> QED
    BY <1>9, <2>1 DEF Surjection
<1> QED
  BY <1>10, <1>11, <1>12 DEF Bijection

\* An ascending sequence of names is found, and has each once.
LEMMA AscendsOnce ==
  ASSUME NEW S \in SUBSET Nat, IsFiniteSet(S)
  PROVE  /\ Ascending(S) \in [1..Cardinality(S) -> S]
         /\ \A i, j \in 1..Cardinality(S) : i < j => Ascending(S)[i] < Ascending(S)[j]
         /\ \A x \in S : \E i \in 1..Cardinality(S) : Ascending(S)[i] = x
<1> DEFINE n == Cardinality(S)
           R == {p \in S \X S : p[1] < p[2]}
           s == Ascending(S)
<1>1. Orders(R, S)
  BY DEF Orders
<1>2. \A x, y \in S : <<x, y>> \in R => x < y
  OBVIOUS
<1> HIDE DEF R
<1>3. PICK f \in Bijection(1..n, S) : \A i, j \in 1..n : i < j => <<f[i], f[j]>> \in R
  BY <1>1, InThatOrder
<1>4. f \in [1..n -> S]
  BY DEF Bijection, Injection
<1>5. \A i, j \in DOMAIN f : i < j => f[i] < f[j]
  BY <1>2, <1>3, <1>4
<1>6. s \in [1..n -> S] /\ \A i, j \in DOMAIN s : i < j => s[i] < s[j]
  BY <1>4, <1>5 DEF Ascending
<1> HIDE DEF s
<1>7. n \in Nat /\ IsFiniteSet(1..n) /\ Cardinality(1..n) = n
  BY FS_CardinalityType, FS_Interval
<1>8. s \in Injection(1..n, S)
  <2>1. ASSUME NEW i \in 1..n, NEW j \in 1..n, s[i] = s[j] PROVE i = j
    <3>1. DOMAIN s = 1..n /\ s[i] \in Nat
      BY <1>6
    <3>2. ~(i < j) /\ ~(j < i)
      BY <1>6, <2>1, <3>1
    <3> QED
      BY <1>7, <3>2
  <2> QED
    BY <1>6, <2>1 DEF Injection, IsInjective
<1>9. s \in Surjection(1..n, S)
  BY <1>7, <1>8, FS_Injection
<1> QED
  BY <1>6, <1>9 DEF Surjection, s

-----------------------------------------------------------------------------
\* A symbol that a comment may list.
Listable == [name : DOMAIN NameLen, ref_count : Nat]

Used(s) == {x.name : x \in ToSet(s)}

\* a has the symbols of s, one of each name, with all references of the name.
IsArrayOf(a, s) ==
  /\ a \in Seq(Listable)
  /\ \A i, j \in 1..Len(a) : a[i].name = a[j].name => i = j
  /\ Used(a) = Used(s)
  /\ \A i \in 1..Len(a) : a[i].ref_count = ref_counts(s, a[i].name)

LEMMA NamesAreNaturals == DOMAIN NameLen \subseteq Nat \ {0}
  BY CommentsAssumption

LEMMA UpTo ==
  ASSUME NEW n \in Nat
  PROVE  IsFiniteSet(1..n) /\ Cardinality(1..n) = n
  BY FS_Interval

LEMMA RefCountsOf ==
  ASSUME NEW s \in Seq(Listable), NEW n
  PROVE  /\ ref_counts(s, n) \in Nat
         /\ \A k \in 1..Len(s) :
              {i \in 1..Len(s) : s[i].name = n} = {k} => ref_counts(s, n) = s[k].ref_count
<1> DEFINE f == [i \in DOMAIN s |-> s[i].ref_count]
           S == {i \in DOMAIN s : s[i].name = n}
<1>1. DOMAIN s = 1..Len(s) /\ \A i \in 1..Len(s) : s[i] \in Listable
  OBVIOUS
<1>2. \A i \in 1..Len(s) : f[i] = s[i].ref_count /\ f[i] \in Nat
  BY <1>1 DEF Listable
<1>3. S \subseteq 1..Len(s) /\ IsFiniteSet(S) /\ \A i \in S : f[i] \in Nat
  <2>1. S \subseteq 1..Len(s)
    BY <1>1
  <2>2. Len(s) \in Nat /\ IsFiniteSet(1..Len(s))
    BY FS_Interval
  <2>3. IsFiniteSet(S)
    BY <2>1, <2>2, FS_Subset
  <2> QED
    BY <1>2, <2>1, <2>3
<1>4. ref_counts(s, n) = SumFunctionOnSet(f, S)
  BY DEF ref_counts
<1> HIDE DEF f
<1>5. ASSUME NEW k \in 1..Len(s), {i \in 1..Len(s) : s[i].name = n} = {k}
      PROVE  SumFunctionOnSet(f, S) = s[k].ref_count
  <2>1. S = {k} /\ S \ {k} = {}
    BY <1>1, <1>5
  <2> HIDE DEF S
  <2>2. SumFunctionOnSet(f, S) = f[k] + SumFunctionOnSet(f, S \ {k})
    BY <1>3, <2>1, SumOfMore
  <2>3. SumFunctionOnSet(f, S \ {k}) = 0
    BY <2>1, SumOfNone
  <2> QED
    BY <1>2, <2>2, <2>3
<1> HIDE DEF S
<1>6. SumFunctionOnSet(f, S) \in Nat
  BY <1>3, SumOfMore
<1> QED
  BY <1>4, <1>5, <1>6

LEMMA UsedIs ==
  ASSUME NEW s \in Seq(Listable)
  PROVE  /\ Used(s) = {s[i].name : i \in 1..Len(s)}
         /\ Used(s) \subseteq DOMAIN NameLen
         /\ IsFiniteSet(Used(s))
<1>1. DOMAIN s = 1..Len(s) /\ Len(s) \in Nat /\ \A i \in 1..Len(s) : s[i] \in Listable
  OBVIOUS
<1>2. Used(s) = {s[i].name : i \in 1..Len(s)}
  BY <1>1 DEF Used, ToSet
<1>3. IsFiniteSet(1..Len(s))
  BY <1>1, FS_Interval
<1>4. IsFiniteSet({s[i].name : i \in 1..Len(s)})
  <2> DEFINE T == {s[i].name : i \in 1..Len(s)}
             f == [i \in 1..Len(s) |-> s[i].name]
  <2>1. f \in Surjection(1..Len(s), T)
    BY DEF Surjection
  <2> HIDE DEF f, T
  <2>2. IsFiniteSet(T)
    BY <1>3, <2>1, FS_Surjection
  <2> QED
    BY <2>2 DEF T
<1>5. Used(s) \subseteq DOMAIN NameLen
  BY <1>1, <1>2 DEF Listable
<1> QED
  BY <1>2, <1>4, <1>5

\* array_merge() leaves one of each name, and in C symbols have different names here.
LEMMA MergedIsArray ==
  ASSUME NEW s \in Seq(Listable)
  PROVE  IsArrayOf(merge_by_name(s), s)
<1> DEFINE n == Cardinality(Used(s))
           names == Ascending(Used(s))
           a == merge_by_name(s)
<1>1. Used(s) \in SUBSET Nat /\ IsFiniteSet(Used(s)) /\ Used(s) \subseteq DOMAIN NameLen
  BY UsedIs, NamesAreNaturals
<1>2. n \in Nat
  BY <1>1, FS_CardinalityType
<1>3. /\ names \in [1..n -> Used(s)]
      /\ \A i, j \in 1..n : i < j => names[i] < names[j]
      /\ \A x \in Used(s) : \E i \in 1..n : names[i] = x
  BY <1>1, AscendsOnce
<1>4. a = [i \in DOMAIN names |-> [name |-> names[i], ref_count |-> ref_counts(s, names[i])]]
  BY DEF merge_by_name, Used
<1> HIDE DEF names, a
<1>5. DOMAIN names = 1..n
  BY <1>3
<1>6. \A i \in 1..n : a[i] = [name |-> names[i], ref_count |-> ref_counts(s, names[i])]
  BY <1>4, <1>5
<1>7. ASSUME NEW i \in 1..n
      PROVE  /\ a[i].name = names[i] /\ a[i].ref_count = ref_counts(s, names[i])
             /\ a[i] \in Listable /\ names[i] \in Used(s)
  <2>1. names[i] \in Used(s) /\ ref_counts(s, names[i]) \in Nat
    BY <1>3, RefCountsOf
  <2>2. names[i] \in DOMAIN NameLen
    BY <1>1, <2>1
  <2>3. a[i] = [name |-> names[i], ref_count |-> ref_counts(s, names[i])]
    BY <1>6
  <2>4. a[i].name = names[i] /\ a[i].ref_count = ref_counts(s, names[i])
    BY <2>3
  <2>5. a[i] \in Listable
    BY <2>1, <2>2, <2>3 DEF Listable
  <2> QED
    BY <2>1, <2>4, <2>5
<1>8. DOMAIN a = 1..n
  BY <1>4, <1>5
<1>9. a = [i \in 1..n |-> a[i]]
  BY <1>4, <1>5
<1>10. a \in Seq(Listable) /\ Len(a) = n
  BY <1>2, <1>7, <1>9
<1>11. ASSUME NEW i \in 1..n, NEW j \in 1..n, names[i] = names[j] PROVE i = j
  <2>1. names[i] \in Nat
    BY <1>1, <1>7
  <2>2. ~(i < j) /\ ~(j < i)
    BY <1>3, <1>11, <2>1
  <2> QED
    BY <1>2, <2>2
<1>12. Used(a) = {a[i].name : i \in 1..n}
  BY <1>10, UsedIs
<1>13. Used(a) = Used(s)
  <2>1. ASSUME NEW x \in Used(a) PROVE x \in Used(s)
    BY <1>7, <1>12
  <2>2. ASSUME NEW x \in Used(s) PROVE x \in Used(a)
    <3>1. PICK i \in 1..n : names[i] = x
      BY <1>3
    <3> QED
      BY <1>7, <1>12, <3>1
  <2> QED
    BY <2>1, <2>2
<1>14. \A i, j \in 1..Len(a) : a[i].name = a[j].name => i = j
  BY <1>7, <1>10, <1>11
<1>15. \A i \in 1..Len(a) : a[i].ref_count = ref_counts(s, a[i].name)
  BY <1>7, <1>10
<1> QED
  BY <1>10, <1>13, <1>14, <1>15 DEF IsArrayOf, a

LEMMA DifferingIsArray ==
  ASSUME NEW s \in Seq(Listable), Cardinality(Used(s)) = Len(s)
  PROVE  IsArrayOf(s, s)
<1> DEFINE f == [i \in 1..Len(s) |-> s[i].name]
<1>1. /\ Len(s) \in Nat /\ IsFiniteSet(1..Len(s)) /\ Cardinality(1..Len(s)) = Len(s)
      /\ Used(s) = {s[i].name : i \in 1..Len(s)}
  <2>1. Len(s) \in Nat
    OBVIOUS
  <2>2. IsFiniteSet(1..Len(s)) /\ Cardinality(1..Len(s)) = Len(s)
    BY <2>1, UpTo
  <2> QED
    BY <2>1, <2>2, UsedIs
<1>2. \A i \in 1..Len(s) : f[i] = s[i].name
  OBVIOUS
<1>3. f \in Surjection(1..Len(s), Used(s))
  <2>1. f \in [1..Len(s) -> Used(s)]
    BY <1>1
  <2>2. \A x \in Used(s) : \E i \in 1..Len(s) : f[i] = x
    BY <1>1, <1>2
  <2> QED
    BY <2>1, <2>2 DEF Surjection
<1> HIDE DEF f
<1>4. f \in Injection(1..Len(s), Used(s))
  BY <1>1, <1>3, FS_Surjection
<1>5. ASSUME NEW i \in 1..Len(s), NEW j \in 1..Len(s), s[i].name = s[j].name PROVE i = j
  BY <1>2, <1>4, <1>5 DEF Injection, IsInjective
<1>6. ASSUME NEW i \in 1..Len(s) PROVE s[i].ref_count = ref_counts(s, s[i].name)
  <2>1. {j \in 1..Len(s) : s[j].name = s[i].name} = {i}
    BY <1>5
  <2> QED
    BY <2>1, RefCountsOf
<1> QED
  BY <1>5, <1>6 DEF IsArrayOf

LEMMA ArrayIs ==
  ASSUME NEW inc, inc.symbols \in Seq(Listable),
         print_lang = "CPlusPlus" \/ NamesDiffer(inc)
  PROVE  IsArrayOf(symbol_array(inc.symbols), inc.symbols)
  BY MergedIsArray, DifferingIsArray DEF symbol_array, NamesDiffer, Used

-----------------------------------------------------------------------------
LEMMA CompareIs ==
  ASSUME NEW x, NEW y
  PROVE  /\ opt_comment_symbols = "ALPHA" =>
              (symbol_cmp(x, y) <=> symbol_cmp_by_name(x, y))
         /\ opt_comment_symbols = "LENGTH" =>
              (symbol_cmp(x, y) <=> symbol_cmp_by_name_length(x, y))
         /\ opt_comment_symbols = "REF_COUNT" =>
              (symbol_cmp(x, y) <=> symbol_cmp_by_ref_count(x, y))
  BY DEF symbol_cmp, symbol_cmp_by_name, symbol_cmp_by_name_length, symbol_cmp_by_ref_count

\* The order of symbols with different names is total, whichever is asked for.
LEMMA CompareOrders ==
  ASSUME NEW s, NEW a, IsArrayOf(a, s), opt_comment_symbols \in {"ALPHA", "LENGTH", "REF_COUNT"}
  PROVE  Orders({p \in (1..Len(a)) \X (1..Len(a)) : symbol_cmp(a[p[1]], a[p[2]])}, 1..Len(a))
<1> DEFINE D == 1..Len(a)
           R == {p \in D \X D : symbol_cmp(a[p[1]], a[p[2]])}
<1>1. ASSUME NEW i \in D
      PROVE  /\ a[i] \in Listable /\ a[i].name \in Nat /\ a[i].ref_count \in Nat
             /\ NameLen[a[i].name] \in Nat
  <2>1. a[i] \in Listable
    BY DEF IsArrayOf
  <2>2. a[i].name \in DOMAIN NameLen /\ a[i].ref_count \in Nat
    BY <2>1 DEF Listable
  <2> QED
    BY <2>1, <2>2, CommentsAssumption
<1>2. \A i, j \in D : a[i].name = a[j].name => i = j
  BY DEF IsArrayOf
<1>3. /\ R \subseteq D \X D
      /\ \A i, j \in D : <<i, j>> \in R <=> symbol_cmp(a[i], a[j])
  OBVIOUS
<1>4. ASSUME NEW i \in D PROVE ~symbol_cmp(a[i], a[i])
  BY <1>1, CompareIs
  DEF symbol_cmp_by_name, symbol_cmp_by_name_length, symbol_cmp_by_ref_count
<1>5. ASSUME NEW i \in D, NEW j \in D, i # j
      PROVE  symbol_cmp(a[i], a[j]) \/ symbol_cmp(a[j], a[i])
  <2>1. a[i].name # a[j].name
    BY <1>2, <1>5
  <2> QED
    BY <1>1, <2>1, CompareIs
    DEF symbol_cmp_by_name, symbol_cmp_by_name_length, symbol_cmp_by_ref_count
<1>6. ASSUME NEW i \in D, NEW j \in D, NEW k \in D,
             symbol_cmp(a[i], a[j]), symbol_cmp(a[j], a[k])
      PROVE  symbol_cmp(a[i], a[k])
  <2> DEFINE x == a[i]
             y == a[j]
             z == a[k]
  <2>1. /\ x.name \in Nat /\ x.ref_count \in Nat /\ NameLen[x.name] \in Nat
        /\ y.name \in Nat /\ y.ref_count \in Nat /\ NameLen[y.name] \in Nat
        /\ z.name \in Nat /\ z.ref_count \in Nat /\ NameLen[z.name] \in Nat
        /\ symbol_cmp(x, y) /\ symbol_cmp(y, z)
    BY <1>1, <1>6
  <2> HIDE DEF x, y, z
  <2>2. ASSUME opt_comment_symbols = "ALPHA" PROVE symbol_cmp(x, z)
    BY <2>1, <2>2, CompareIs DEF symbol_cmp_by_name
  <2>3. ASSUME opt_comment_symbols = "LENGTH" PROVE symbol_cmp(x, z)
    BY <2>1, <2>3, CompareIs DEF symbol_cmp_by_name_length
  <2>4. ASSUME opt_comment_symbols = "REF_COUNT" PROVE symbol_cmp(x, z)
    BY <2>1, <2>4, CompareIs DEF symbol_cmp_by_ref_count
  <2>5. symbol_cmp(x, z)
    BY <2>2, <2>3, <2>4
  <2> QED
    BY <2>5 DEF x, z
<1> HIDE DEF R, D
<1>7. Orders(R, D)
  BY <1>3, <1>4, <1>5, <1>6 DEF Orders
<1> QED
  BY <1>7 DEF R, D

\* In the order asked for.
InOrder(a, s) ==
  \A i, j \in 1..Len(a) : i < j => ~ListedBefore(a[j].name, a[i].name, s)

\* Sorting moves the symbols about, and none is before one that is to be listed first.
LEMMA SortedIs ==
  ASSUME NEW s, NEW a, IsArrayOf(a, s), opt_comment_symbols \in {"ALPHA", "LENGTH", "REF_COUNT"}
  PROVE  IsArrayOf(sorted(a), s) /\ InOrder(sorted(a), s)
<1> DEFINE n == Len(a)
           D == 1..n
           R == {p \in D \X D : symbol_cmp(a[p[1]], a[p[2]])}
           arranged(p) == [i \in DOMAIN a |-> a[p[i]]]
           is_sorted(t) == \A i, j \in DOMAIN a : i < j => ~symbol_cmp(t[j], t[i])
           p == CHOOSE q \in Injection(DOMAIN a, DOMAIN a) : is_sorted(arranged(q))
           r == arranged(p)
<1>1. DOMAIN a = D /\ n \in Nat /\ \A i \in D : a[i] \in Listable
  BY DEF IsArrayOf
<1>2. IsFiniteSet(D) /\ Cardinality(D) = n
  BY <1>1, UpTo
<1>3. Orders(R, D)
  BY CompareOrders
<1>4. \A i, j \in D : <<i, j>> \in R => symbol_cmp(a[i], a[j]) /\ ~symbol_cmp(a[j], a[i])
  <2>1. \A i, j \in D : <<i, j>> \in R <=> symbol_cmp(a[i], a[j])
    OBVIOUS
  <2> HIDE DEF R, D
  <2>2. \A i, j \in D : ~(<<i, j>> \in R /\ <<j, i>> \in R)
    BY <1>3 DEF Orders
  <2> QED
    BY <2>1, <2>2
<1> HIDE DEF R
<1>5. PICK f \in Bijection(D, D) : \A i, j \in D : i < j => <<f[i], f[j]>> \in R
  BY <1>2, <1>3, InThatOrder
<1>6. is_sorted(arranged(f))
  <2>1. \A i \in D : f[i] \in D /\ arranged(f)[i] = a[f[i]]
    BY <1>1 DEF Bijection, Injection
  <2> HIDE DEF arranged, D
  <2> QED
    BY <1>1, <1>4, <1>5, <2>1
<1>7. p \in Injection(D, D) /\ is_sorted(r)
  <2>1. f \in Injection(D, D)
    BY <1>5 DEF Bijection
  <2> HIDE DEF arranged, D, is_sorted
  <2> QED
    BY <1>1, <1>6, <2>1
<1> HIDE DEF p
<1>8. /\ \A i \in D : p[i] \in D
      /\ \A i, j \in D : p[i] = p[j] => i = j
      /\ \A j \in D : \E i \in D : p[i] = j
  <2>1. p \in Surjection(D, D)
    BY <1>2, <1>7, FS_Injection
  <2> QED
    BY <1>7, <2>1 DEF Injection, Surjection, IsInjective
<1>9. r = [i \in D |-> a[p[i]]]
  BY <1>1
<1> HIDE DEF r, arranged
<1>10. \A i \in D : r[i] = a[p[i]] /\ r[i] \in Listable
  BY <1>1, <1>8, <1>9
<1>11. r \in Seq(Listable) /\ Len(r) = n /\ DOMAIN r = D
  BY <1>1, <1>9, <1>10
<1>12. ASSUME NEW i \in D, NEW j \in D, r[i].name = r[j].name PROVE i = j
  <2>1. p[i] \in D /\ p[j] \in D /\ a[p[i]].name = a[p[j]].name
    BY <1>8, <1>10, <1>12
  <2>2. p[i] = p[j]
    BY <2>1 DEF IsArrayOf
  <2> QED
    BY <1>8, <2>2
<1>13. Used(r) = Used(a)
  <2>1. Used(r) = {r[i].name : i \in D} /\ Used(a) = {a[i].name : i \in D}
    BY <1>11, UsedIs DEF IsArrayOf
  <2>2. ASSUME NEW x \in Used(r) PROVE x \in Used(a)
    <3>1. PICK i \in D : x = r[i].name
      BY <2>1
    <3>2. x = a[p[i]].name /\ p[i] \in D
      BY <1>8, <1>10, <3>1
    <3> QED
      BY <2>1, <3>2
  <2>3. ASSUME NEW x \in Used(a) PROVE x \in Used(r)
    <3>1. PICK j \in D : x = a[j].name
      BY <2>1
    <3>2. PICK i \in D : p[i] = j
      BY <1>8
    <3> QED
      BY <1>10, <2>1, <3>1, <3>2
  <2> QED
    BY <2>2, <2>3
<1>14. ASSUME NEW i \in D PROVE r[i].ref_count = ref_counts(s, r[i].name)
  <2>1. r[i] = a[p[i]] /\ p[i] \in D
    BY <1>8, <1>10
  <2> QED
    BY <2>1 DEF IsArrayOf
<1>15. IsArrayOf(r, s)
  BY <1>11, <1>12, <1>13, <1>14 DEF IsArrayOf
<1>16. ASSUME NEW i \in D, NEW j \in D, ListedBefore(r[j].name, r[i].name, s)
       PROVE  symbol_cmp(r[j], r[i])
  BY <1>14, <1>16 DEF ListedBefore, symbol_cmp, symbol_cmp_by_name,
    symbol_cmp_by_name_length, symbol_cmp_by_ref_count
<1>17. InOrder(r, s)
  BY <1>1, <1>7, <1>11, <1>16 DEF InOrder
<1>18. sorted(a) = r
  BY DEF sorted, r, arranged, p
<1> QED
  BY <1>15, <1>17, <1>18

\* Of symbols there is one that none has more references than.
LEMMA MostRefIs ==
  ASSUME NEW s, NEW a, IsArrayOf(a, s), a # <<>>
  PROVE  \E i \in 1..Len(a) : /\ most_ref_sym(a) = a[i]
                              /\ \A j \in 1..Len(a) : a[j].ref_count <= a[i].ref_count
<1> DEFINE D == 1..Len(a)
           T == {i \in D : \A j \in D : a[j].ref_count <= a[i].ref_count}
           R == {p \in D \X D : \/ a[p[1]].ref_count > a[p[2]].ref_count
                                \/ a[p[1]].ref_count = a[p[2]].ref_count /\ p[1] < p[2]}
<1>1. Len(a) \in Nat \ {0} /\ DOMAIN a = D /\ \A i \in D : a[i].ref_count \in Nat
  <2>1. a \in Seq(Listable)
    BY DEF IsArrayOf
  <2>2. Len(a) \in Nat \ {0} /\ DOMAIN a = D /\ \A i \in D : a[i] \in Listable
    BY <2>1
  <2> QED
    BY <2>2 DEF Listable
<1>2. IsFiniteSet(D) /\ Cardinality(D) = Len(a)
  BY <1>1, UpTo
<1>3. Orders(R, D)
  BY <1>1 DEF Orders
<1>4. \A i, j \in D : <<i, j>> \in R => a[j].ref_count <= a[i].ref_count
  BY <1>1
<1> HIDE DEF R
<1>5. PICK f \in Bijection(D, D) : \A i, j \in D : i < j => <<f[i], f[j]>> \in R
  BY <1>2, <1>3, InThatOrder
<1>6. 1 \in D /\ f[1] \in D
  BY <1>1 DEF Bijection, Injection
<1>7. ASSUME NEW j \in D PROVE a[j].ref_count <= a[f[1]].ref_count
  <2>1. PICK k \in D : f[k] = j
    BY DEF Bijection, Surjection
  <2>2. CASE k = 1
    BY <1>1, <1>6, <2>1, <2>2
  <2>3. CASE k # 1
    <3>1. 1 < k
      BY <1>1, <2>3
    <3>2. <<f[1], f[k]>> \in R
      BY <1>5, <1>6, <3>1
    <3> QED
      BY <1>4, <1>6, <2>1, <3>2
  <2> QED
    BY <2>2, <2>3
<1>8. T # {} /\ T \in SUBSET Nat /\ T \subseteq D
  BY <1>1, <1>6, <1>7
<1>9. most_ref_sym(a) = a[Min(T)]
  BY <1>1 DEF most_ref_sym
<1> HIDE DEF T
<1>10. Min(T) \in T
  <2>1. \E x \in T : \A y \in T : x <= y
    BY <1>8, LeastNatural
  <2> QED
    BY <2>1 DEF Min
<1> QED
  BY <1>8, <1>9, <1>10 DEF T

-----------------------------------------------------------------------------
(***************************************************************************)
(* The names in a comment.                                                 *)
(***************************************************************************)

Listed == DOMAIN NameLen \cup {Ellipsis}

Comment == [names : Seq(Listed), is_done : BOOLEAN]

NoNames == [names |-> <<>>, is_done |-> FALSE]

LEMMA LengthIsNatural ==
  ASSUME NEW names \in Seq(Listed)
  PROVE  comment_len(names) \in Nat
<1> DEFINE f == [i \in DOMAIN names |-> name_len(names[i])]
<1>1. Len(names) \in Nat /\ DOMAIN names = 1..Len(names)
  OBVIOUS
<1>2. ASSUME NEW i \in DOMAIN names PROVE name_len(names[i]) \in Nat
  <2>1. names[i] \in DOMAIN NameLen \cup {0}
    BY DEF Listed, Ellipsis
  <2> QED
    BY <2>1, CommentsAssumption DEF name_len, Ellipsis
<1>3. IsFiniteSet(DOMAIN names) /\ DOMAIN f = DOMAIN names
  BY <1>1, UpTo
<1>4. \A i \in DOMAIN names : f[i] \in Nat
  BY <1>2
<1> HIDE DEF f
<1>5. SumFunctionOnSet(f, DOMAIN names) \in Nat
  BY <1>3, <1>4, SumOfMore
<1>6. SumFunction(f) \in Nat
  BY <1>3, <1>5 DEF SumFunction
<1>7. names # <<>> => 2 * (Len(names) - 1) \in Nat
  BY <1>1
<1>8. comment_len(names) = SumFunction(f) + IF names = <<>> THEN 0 ELSE 2 * (Len(names) - 1)
  BY DEF comment_len, f
<1> QED
  BY <1>6, <1>7, <1>8

LEMMA AddedIsComment ==
  ASSUME NEW c \in Comment, NEW x \in Listable
  PROVE  add_name(c, x) \in Comment
<1>1. /\ c.names \in Seq(Listed) /\ x.name \in Listed /\ Ellipsis \in Listed
      /\ Append(c.names, x.name) \in Seq(Listed) /\ Append(c.names, Ellipsis) \in Seq(Listed)
  BY DEF Comment, Listable, Listed
<1> QED
  BY <1>1 DEF add_name, Comment

\* Makes a comment in the order in which FoldLeft takes the elements of r.
Folds(iter, r) ==
  iter = [s \in SUBSET DOMAIN r |->
            IF s = {} THEN NoNames ELSE add_name(iter[s \ {Max(s)}], r[Max(s)])]

LEMMA FoldIsThat ==
  ASSUME NEW r
  PROVE  FoldLeft(add_name, NoNames, r) = (CHOOSE iter : Folds(iter, r))[DOMAIN r]
  BY DEF FoldLeft, MapThenFoldSet, Folds

LEMMA CommentExists ==
  ASSUME NEW r \in Seq(Listable)
  PROVE  \E iter : Folds(iter, r)
<1> DEFINE F == [p \in Comment \X Listable |-> add_name(p[1], p[2])]
<1>1. NoNames \in Comment
  BY DEF NoNames, Comment
<1>2. F \in [Comment \X Listable -> Comment]
  BY AddedIsComment
<1>3. \A c \in Comment : \A x \in Listable : F[<<c, x>>] = add_name(c, x)
  OBVIOUS
<1> HIDE DEF F
<1>4. PICK iter \in [SUBSET DOMAIN r -> Comment] : FoldsBy(iter, F, NoNames, r)
  BY <1>1, <1>2, FoldExists
<1>5. ASSUME NEW s \in SUBSET DOMAIN r, s # {}
      PROVE  iter[s] = add_name(iter[s \ {Max(s)}], r[Max(s)])
  <2>1. DOMAIN r = 1..Len(r) /\ Len(r) \in Nat
    OBVIOUS
  <2>2. Max(s) \in DOMAIN r
    BY <1>5, <2>1, LargestIs
  <2>3. r[Max(s)] \in Listable /\ iter[s \ {Max(s)}] \in Comment
    BY <2>2
  <2> QED
    BY <1>3, <1>4, <1>5, <2>3 DEF FoldsBy
<1>6. iter = [s \in SUBSET DOMAIN r |->
                IF s = {} THEN NoNames ELSE add_name(iter[s \ {Max(s)}], r[Max(s)])]
  BY <1>4, <1>5 DEF FoldsBy
<1> QED
  BY <1>6 DEF Folds

\* The comment after each symbol of r, and the last one is the result.
Steps(h, r) ==
  /\ h[0] = NoNames
  /\ \A k \in 1..Len(r) : h[k] = add_name(h[k - 1], r[k])

LEMMA OneAfterAnother ==
  ASSUME NEW r \in Seq(Listable)
  PROVE  \E h \in [0..Len(r) -> Comment] :
           Steps(h, r) /\ FoldLeft(add_name, NoNames, r) = h[Len(r)]
<1> DEFINE S == DOMAIN r
           iter == CHOOSE f : Folds(f, r)
           h == [k \in 0..Len(r) |-> iter[1..k]]
<1>1. S = 1..Len(r) /\ Len(r) \in Nat /\ \A i \in S : r[i] \in Listable
  OBVIOUS
<1>2. Folds(iter, r)
  BY CommentExists
<1> HIDE DEF iter
<1>3. \A s \in SUBSET S :
        iter[s] = IF s = {} THEN NoNames ELSE add_name(iter[s \ {Max(s)}], r[Max(s)])
  BY <1>2 DEF Folds
<1>4. ASSUME NEW k \in 1..Len(r)
      PROVE  /\ 1..k \in SUBSET S /\ 1..k # {}
             /\ Max(1..k) = k /\ (1..k) \ {k} = 1..(k - 1)
  <2>1. k \in Nat \ {0} /\ 1..k \in SUBSET S
    BY <1>1
  <2> QED
    BY <2>1, PrefixIs
<1>5. ASSUME NEW k \in 1..Len(r) PROVE iter[1..k] = add_name(iter[1..(k - 1)], r[k])
  BY <1>3, <1>4
<1>6. iter[1..0] = NoNames /\ 1..0 = {}
  BY <1>3
<1>7. \A k \in 0..Len(r) : h[k] = iter[1..k]
  OBVIOUS
<1> HIDE DEF h
<1>8. Steps(h, r)
  BY <1>1, <1>5, <1>6, <1>7 DEF Steps
<1>9. \A k \in 0..Len(r) : h[k] \in Comment
  <2> DEFINE T == {k \in 0..Len(r) : h[k] \in Comment}
  <2>1. 0 \in T
    <3>1. NoNames \in Comment
      BY DEF NoNames, Comment
    <3> QED
      BY <1>1, <1>8, <3>1 DEF Steps
  <2>2. ASSUME NEW k \in 1..Len(r), k - 1 \in T PROVE k \in T
    <3>1. h[k - 1] \in Comment /\ r[k] \in Listable
      BY <1>1, <2>2
    <3> QED
      BY <1>8, <3>1, AddedIsComment DEF Steps
  <2>3. \A k \in 0..Len(r) : k \in T
    <3> HIDE DEF T
    <3> QED
      BY <1>1, <2>1, <2>2, Climbs
  <2> QED
    BY <2>3
<1>10. h \in [0..Len(r) -> Comment]
  BY <1>9 DEF h
<1>11. FoldLeft(add_name, NoNames, r) = h[Len(r)]
  BY <1>1, <1>7, FoldIsThat DEF iter
<1> QED
  BY <1>8, <1>10, <1>11

-----------------------------------------------------------------------------
FirstNames(r, k) == [i \in 1..k |-> r[i].name]

Room(names) == Len(names) > 1 => fixed_len + comment_len(names) <= opt_line_length

\* The names after the first m of r were left out.
Full(names, r, m) ==
  /\ ~fits(FirstNames(r, m), r[m + 1].name)
  /\ \/ names = FirstNames(r, m) /\ ~fits(names, Ellipsis)
     \/ names = Append(FirstNames(r, m), Ellipsis)
  /\ Room(names)

\* A comment after the first k symbols.
Filled(c, r, k) ==
  IF c.is_done THEN \E m \in 1..(k - 1) : Full(c.names, r, m)
               ELSE c.names = FirstNames(r, k) /\ Room(c.names)

LEMMA FirstNamesGrow ==
  ASSUME NEW r \in Seq(Listable), NEW k \in 0..Len(r)
  PROVE  /\ FirstNames(r, k) \in Seq(DOMAIN NameLen)
         /\ Len(FirstNames(r, k)) = k
         /\ \A i \in 1..k : FirstNames(r, k)[i] = r[i].name
         /\ k # 0 => Append(FirstNames(r, k - 1), r[k].name) = FirstNames(r, k)
<1>1. \A i \in 1..k : r[i].name \in DOMAIN NameLen
  <2>1. \A i \in 1..k : r[i] \in Listable
    OBVIOUS
  <2> QED
    BY <2>1 DEF Listable
<1>2. /\ FirstNames(r, k) \in Seq(DOMAIN NameLen)
      /\ Len(FirstNames(r, k)) = k
      /\ \A i \in 1..k : FirstNames(r, k)[i] = r[i].name
  BY <1>1 DEF FirstNames
<1>3. ASSUME k # 0 PROVE Append(FirstNames(r, k - 1), r[k].name) = FirstNames(r, k)
  <2> DEFINE s == FirstNames(r, k - 1)
             t == Append(s, r[k].name)
  <2>1. /\ k - 1 \in Nat /\ k \in Nat /\ k \in 1..k
        /\ s = [i \in 1..(k - 1) |-> r[i].name]
    BY <1>3 DEF FirstNames
  <2>2. \A i \in 1..(k - 1) : r[i].name \in DOMAIN NameLen
    BY <1>1, <2>1
  <2>3. s \in Seq(DOMAIN NameLen) /\ Len(s) = k - 1 /\ \A i \in 1..(k - 1) : s[i] = r[i].name
    BY <2>1, <2>2
  <2> HIDE DEF s
  <2>4. /\ t \in Seq(DOMAIN NameLen) /\ Len(t) = k
        /\ \A i \in 1..k : t[i] = r[i].name
    BY <1>1, <2>1, <2>3
  <2> HIDE DEF t
  <2>5. t = [i \in 1..k |-> t[i]]
    BY <2>4
  <2>6. t = FirstNames(r, k)
    BY <2>4, <2>5 DEF FirstNames
  <2> QED
    BY <2>6 DEF t, s
<1> QED
  BY <1>2, <1>3

\* One more symbol is put in if there is room, and otherwise the comment is done.
LEMMA AddedIsFilled ==
  ASSUME NEW r \in Seq(Listable), NEW k \in 1..Len(r), NEW c \in Comment, Filled(c, r, k - 1)
  PROVE  Filled(add_name(c, r[k]), r, k)
<1> DEFINE P == FirstNames(r, k - 1)
           d == add_name(c, r[k])
<1>1. k - 1 \in Nat /\ k \in Nat /\ k - 1 \in 0..Len(r) /\ k \in 0..Len(r) /\ k # 0
  OBVIOUS
<1>2. /\ Append(P, r[k].name) = FirstNames(r, k) /\ Len(FirstNames(r, k)) = k
      /\ Len(P) = k - 1 /\ (P = <<>> <=> k = 1)
  BY <1>1, FirstNamesGrow
<1>3. CASE c.is_done
  <2>1. d = c
    BY <1>3 DEF add_name
  <2>2. PICK m \in 1..((k - 1) - 1) : Full(c.names, r, m)
    BY <1>3 DEF Filled
  <2>3. m \in 1..(k - 1)
    BY <1>1
  <2> QED
    BY <1>3, <2>1, <2>2, <2>3 DEF Filled
<1>4. CASE ~c.is_done
  <2>1. c.names = P /\ Room(P)
    BY <1>4 DEF Filled
  <2>2. CASE fits(P, r[k].name)
    <3>1. d = [c EXCEPT !.names = FirstNames(r, k)]
      BY <1>2, <1>4, <2>1, <2>2 DEF add_name
    <3>2. d.names = FirstNames(r, k) /\ d.is_done = c.is_done
      BY <3>1 DEF Comment
    <3>3. Room(FirstNames(r, k))
      <4>1. k # 1 => fixed_len + comment_len(Append(P, r[k].name)) <= opt_line_length
        BY <1>2, <2>2 DEF fits
      <4>2. Len(FirstNames(r, k)) > 1 => k # 1
        BY <1>2
      <4> HIDE DEF P
      <4> QED
        BY <1>2, <4>1, <4>2 DEF Room
    <3> QED
      BY <1>4, <3>2, <3>3 DEF Filled
  <2>3. CASE ~fits(P, r[k].name)
    <3>1. d.is_done /\ d.names = IF fits(P, Ellipsis) THEN Append(P, Ellipsis) ELSE P
      BY <1>4, <2>1, <2>3 DEF add_name
    <3>2. P # <<>> /\ k # 1
      BY <1>2, <2>3 DEF fits
    <3>3. fits(P, Ellipsis) => Room(Append(P, Ellipsis))
      BY <3>2 DEF fits, Room
    <3>4. k - 1 \in 1..(k - 1) /\ (k - 1) + 1 = k
      BY <1>1, <3>2
    <3>5. Full(d.names, r, k - 1)
      BY <2>1, <2>3, <3>1, <3>3, <3>4 DEF Full
    <3> QED
      BY <3>1, <3>4, <3>5 DEF Filled
  <2> QED
    BY <2>2, <2>3
<1> QED
  BY <1>3, <1>4

\* The names listed are the first ones, and if not all then no more have room.
LEMMA FirstOnesListed ==
  ASSUME NEW r \in Seq(Listable)
  PROVE  LET names == FoldLeft(add_name, NoNames, r).names
         IN  \/ names = FirstNames(r, Len(r)) /\ Room(names)
             \/ \E m \in 1..(Len(r) - 1) : Full(names, r, m)
<1>1. PICK h \in [0..Len(r) -> Comment] :
        Steps(h, r) /\ FoldLeft(add_name, NoNames, r) = h[Len(r)]
  BY OneAfterAnother
<1> DEFINE wrong == {k \in 0..Len(r) : ~Filled(h[k], r, k)}
<1>2. Len(r) \in Nat
  OBVIOUS
<1>3. wrong = {}
  <2> SUFFICES ASSUME wrong # {} PROVE FALSE
    OBVIOUS
  <2>1. wrong \in SUBSET Nat
    BY <1>2
  <2>2. PICK k \in wrong : \A j \in wrong : k <= j
    BY <2>1, LeastNatural
  <2>3. Filled(h[0], r, 0)
    <3>1. NoNames.names = <<>> /\ ~NoNames.is_done /\ h[0] = NoNames
      BY <1>1 DEF NoNames, Steps
    <3>2. FirstNames(r, 0) = <<>>
      BY DEF FirstNames
    <3>3. Room(<<>>)
      BY DEF Room
    <3> QED
      BY <3>1, <3>2, <3>3 DEF Filled
  <2>4. k \in 1..Len(r) /\ k - 1 \in 0..Len(r) /\ k - 1 \notin wrong
    BY <1>2, <2>2, <2>3
  <2>5. Filled(h[k - 1], r, k - 1) /\ h[k - 1] \in Comment
    BY <2>4
  <2>6. Filled(h[k], r, k)
    BY <1>1, <2>4, <2>5, AddedIsFilled DEF Steps
  <2> QED
    BY <2>2, <2>6
<1>4. Filled(h[Len(r)], r, Len(r))
  BY <1>2, <1>3
<1> QED
  BY <1>1, <1>4 DEF Filled

-----------------------------------------------------------------------------
(***************************************************************************)
(* The comments printed.                                                   *)
(***************************************************************************)

OptionTypes ==
  /\ opt_align_column \in Nat /\ opt_line_length \in Nat
  /\ opt_comment_symbols \in CommentSymbols

\* What print_include() adds to names in a line.
LEMMA LineIsAsLong ==
  ASSUME OptionTypes, NEW inc, inc.raw_len \in Nat,
         NEW names \in Seq(Listed), NEW l, l = PrintedLine(inc, "symbols", names, opt_comment_style)
  PROVE  /\ printed_len(l) > opt_line_length /\ inc.raw_len <= opt_align_column =>
              fixed_len + comment_len(names) > opt_line_length
         /\ fixed_len + comment_len(names) > opt_line_length => printed_len(l) >= opt_line_length
<1> DEFINE start == delim_len(opt_comment_style.start)
           end == delim_len(opt_comment_style.end)
           len_before == IF inc.raw_len + 1 < opt_align_column THEN opt_align_column - 1
                         ELSE inc.raw_len
<1>1. start \in Nat /\ end \in Nat
  BY DEF delim_len
<1>2. comment_len(names) \in Nat
  BY LengthIsNatural
<1>3. printed_len(l) = len_before + start + comment_len(names) + end
  BY DEF printed_len, PrintedLine
<1>4. fixed_len = opt_align_column + start + end
  BY DEF fixed_len
<1>5. len_before \in Nat /\ opt_align_column \in Nat /\ opt_line_length \in Nat
  BY DEF OptionTypes
<1>6. /\ inc.raw_len <= opt_align_column => len_before <= opt_align_column
      /\ len_before >= opt_align_column - 1
  BY DEF OptionTypes
<1> HIDE DEF start, end, len_before
<1> QED
  BY <1>1, <1>2, <1>3, <1>4, <1>5, <1>6

LEMMA UncutIs ==
  ASSUME NEW r \in Seq(Listable), NEW m \in 0..Len(r)
  PROVE  /\ Uncut(FirstNames(r, m)) = FirstNames(r, m)
         /\ Append(FirstNames(r, m), Ellipsis) # FirstNames(r, m)
         /\ Uncut(Append(FirstNames(r, m), Ellipsis)) = FirstNames(r, m)
<1> DEFINE P == FirstNames(r, m)
           Q == Append(P, Ellipsis)
<1>1. P \in Seq(DOMAIN NameLen) /\ Len(P) = m /\ m \in Nat
  BY FirstNamesGrow
<1> HIDE DEF P
<1>2. ~(P # <<>> /\ Last(P) = Ellipsis)
  <2>1. ASSUME P # <<>> PROVE P[Len(P)] \in DOMAIN NameLen
    BY <1>1, <2>1
  <2> QED
    BY <2>1, NamesAreNaturals DEF Last, Ellipsis
<1>3. Q # <<>> /\ Len(Q) = m + 1 /\ Q[Len(Q)] = Ellipsis /\ SubSeq(Q, 1, Len(Q) - 1) = P
  BY <1>1
<1>4. Q # P /\ Last(Q) = Ellipsis /\ Front(Q) = P
  BY <1>1, <1>3 DEF Last, Front
<1> QED
  BY <1>2, <1>3, <1>4 DEF Uncut, P

LEMMA MakeIs ==
  ASSUME NEW s
  PROVE  make_symbols_comment(s) =
           IF opt_comment_symbols = "MOST_REF" THEN <<most_ref_sym(symbol_array(s)).name>>
           ELSE FoldLeft(add_name, NoNames, sorted(symbol_array(s))).names
  BY DEF make_symbols_comment, NoNames

\* What ListsAsManyAsFit() says of a line with the names P.
LEMMA ListIsRight ==
  ASSUME NEW inc, NEW names, NEW P, Uncut(names) = P,
         NEW l, l = PrintedLine(inc, "symbols", names, opt_comment_style),
         ToSet(P) \subseteq Used(inc.symbols),
         \A i, j \in DOMAIN P : i < j => ~ListedBefore(P[j], P[i], inc.symbols),
         \A n \in Used(inc.symbols) \ ToSet(P), m \in ToSet(P) :
           ~ListedBefore(n, m, inc.symbols),
         Cardinality(ToSet(P)) = Len(P),
         printed_len(l) > opt_line_length => Len(names) <= 1 \/ inc.raw_len > opt_align_column,
         opt_comment_symbols # "MOST_REF" /\ Used(inc.symbols) \ ToSet(P) # {} =>
           /\ \E n \in Used(inc.symbols) \ ToSet(P) :
                printed_len(PrintedLine(inc, "symbols", Append(P, n), opt_comment_style))
                  >= opt_line_length
           /\ names = P =>
                printed_len(PrintedLine(inc, "symbols", Append(P, Ellipsis), opt_comment_style))
                  >= opt_line_length
  PROVE  ListsAsManyAsFit(l)
<1>1. /\ l.inc = inc /\ l.names = names
      /\ \A t : [l EXCEPT !.names = t] = PrintedLine(inc, "symbols", t, opt_comment_style)
  BY DEF PrintedLine
<1>2. {x.name : x \in ToSet(l.inc.symbols)} = Used(inc.symbols)
  BY <1>1 DEF Used
<1> DEFINE used == {x.name : x \in ToSet(l.inc.symbols)}
           more(n) == printed_len([l EXCEPT !.names = Append(Uncut(l.names), n)])
<1>3. Uncut(l.names) = P /\ used = Used(inc.symbols)
  BY <1>1, <1>2
<1>4. \A n : more(n) =
              printed_len(PrintedLine(inc, "symbols", Append(P, n), opt_comment_style))
  BY <1>1
<1> HIDE DEF used, more
<1>5. /\ ToSet(Uncut(l.names)) \subseteq used
      /\ \A i, j \in DOMAIN Uncut(l.names) :
           i < j => ~ListedBefore(Uncut(l.names)[j], Uncut(l.names)[i], l.inc.symbols)
      /\ \A n \in used \ ToSet(Uncut(l.names)), m \in ToSet(Uncut(l.names)) :
           ~ListedBefore(n, m, l.inc.symbols)
  BY <1>1, <1>3
<1>6. /\ Cardinality(ToSet(Uncut(l.names))) = Len(Uncut(l.names))
      /\ printed_len(l) > opt_line_length =>
           Len(l.names) <= 1 \/ l.inc.raw_len > opt_align_column
  BY <1>1, <1>3
<1>7. opt_comment_symbols # "MOST_REF" /\ used \ ToSet(Uncut(l.names)) # {} =>
        /\ \E n \in used \ ToSet(Uncut(l.names)) : more(n) >= opt_line_length
        /\ l.names = Uncut(l.names) => more(Ellipsis) >= opt_line_length
  BY <1>1, <1>3, <1>4
<1> QED
  BY <1>5, <1>6, <1>7, Zenon DEF ListsAsManyAsFit, used, more

\* A list in the order asked for ends where no more names have room.
LEMMA ListIs ==
  ASSUME OptionTypes, opt_comment_symbols # "MOST_REF",
         NEW inc, inc.raw_len \in Nat, inc.symbols \in Seq(Listable),
         print_lang = "CPlusPlus" \/ NamesDiffer(inc), NEW l,
         l = PrintedLine(inc, "symbols", make_symbols_comment(inc.symbols), opt_comment_style)
  PROVE  ListsAsManyAsFit(l)
<1> DEFINE s == inc.symbols
           r == sorted(symbol_array(s))
           names == make_symbols_comment(s)
           line(t) == PrintedLine(inc, "symbols", t, opt_comment_style)
<1>1. IsArrayOf(r, s) /\ InOrder(r, s)
  <2>1. IsArrayOf(symbol_array(s), s)
    BY ArrayIs
  <2>2. opt_comment_symbols \in {"ALPHA", "LENGTH", "REF_COUNT"}
    BY DEF OptionTypes, CommentSymbols
  <2> QED
    BY <2>1, <2>2, SortedIs
<1>2. names = FoldLeft(add_name, NoNames, r).names
  BY MakeIs
<1> HIDE DEF r, names
<1>3. /\ r \in Seq(Listable) /\ Len(r) \in Nat
      /\ Used(r) = Used(s) /\ Used(s) = {r[i].name : i \in 1..Len(r)}
      /\ \A i \in 1..Len(r) : r[i].name \in DOMAIN NameLen
      /\ \A i, j \in 1..Len(r) : r[i].name = r[j].name => i = j
  <2>1. r \in Seq(Listable) /\ Used(r) = Used(s)
    BY <1>1 DEF IsArrayOf
  <2>2. Used(r) = {r[i].name : i \in 1..Len(r)}
    BY <2>1, UsedIs
  <2>3. Len(r) \in Nat /\ \A i \in 1..Len(r) : r[i] \in Listable
    BY <2>1
  <2> QED
    BY <1>1, <2>1, <2>2, <2>3 DEF IsArrayOf, Listable
<1>4. PICK m \in 0..Len(r) : /\ m = Len(r) => names = FirstNames(r, m)
                             /\ m # Len(r) => Full(names, r, m)
                             /\ Room(names)
  <2>1. CASE names = FirstNames(r, Len(r)) /\ Room(names)
    BY <1>3, <2>1
  <2>2. CASE \E m \in 1..(Len(r) - 1) : Full(names, r, m)
    <3>1. PICK m \in 1..(Len(r) - 1) : Full(names, r, m)
      BY <2>2
    <3>2. m \in 0..Len(r) /\ m # Len(r)
      BY <1>3
    <3> QED
      BY <3>1, <3>2 DEF Full
  <2> QED
    BY <1>2, <1>3, <2>1, <2>2, FirstOnesListed
<1> DEFINE P == FirstNames(r, m)
<1>5. /\ P \in Seq(DOMAIN NameLen) /\ Len(P) = m /\ m \in Nat /\ DOMAIN P = 1..m
      /\ \A i \in 1..m : i \in 1..Len(r) /\ P[i] = r[i].name
  <2>1. P \in Seq(DOMAIN NameLen) /\ Len(P) = m /\ \A i \in 1..m : P[i] = r[i].name
    BY <1>3, FirstNamesGrow
  <2> HIDE DEF P
  <2> QED
    BY <1>3, <2>1
<1>6. names = P \/ names = Append(P, Ellipsis)
  BY <1>4 DEF Full
<1>7. /\ Uncut(names) = P
      /\ m # Len(r) /\ names = P => ~fits(P, Ellipsis)
  BY <1>3, <1>4, <1>6, UncutIs DEF Full
<1> HIDE DEF P
<1>8. ToSet(P) = {r[i].name : i \in 1..m}
  BY <1>5 DEF ToSet
<1>9. /\ ToSet(P) \subseteq Used(s)
      /\ \A n \in Used(s) \ ToSet(P) : \E i \in 1..Len(r) : i > m /\ n = r[i].name
  <2>1. ToSet(P) \subseteq Used(s)
    BY <1>3, <1>5, <1>8
  <2>2. ASSUME NEW n \in Used(s) \ ToSet(P) PROVE \E i \in 1..Len(r) : i > m /\ n = r[i].name
    <3>1. PICK i \in 1..Len(r) : n = r[i].name
      BY <1>3
    <3>2. i \notin 1..m
      BY <1>8, <3>1
    <3> QED
      BY <1>3, <1>5, <3>1, <3>2
  <2> QED
    BY <2>1, <2>2
<1>10. \A i, j \in DOMAIN P : i < j => ~ListedBefore(P[j], P[i], s)
  BY <1>1, <1>5 DEF InOrder
<1>11. ASSUME NEW n \in Used(s) \ ToSet(P), NEW k \in ToSet(P)
       PROVE  ~ListedBefore(n, k, s)
  <2>1. PICK j \in 1..Len(r) : j > m /\ n = r[j].name
    BY <1>9
  <2>2. PICK i \in 1..m : k = r[i].name
    BY <1>8
  <2>3. i \in 1..Len(r) /\ i < j
    BY <1>3, <1>5, <2>1
  <2> QED
    BY <1>1, <2>1, <2>2, <2>3 DEF InOrder
<1>12. Cardinality(ToSet(P)) = Len(P)
  <2> DEFINE f == [i \in 1..m |-> r[i].name]
  <2>1. f \in [1..m -> ToSet(P)] /\ \A i \in 1..m : f[i] = r[i].name
    BY <1>8
  <2>2. \A x \in ToSet(P) : \E i \in 1..m : f[i] = x
    BY <1>8
  <2> HIDE DEF f
  <2>3. f \in Surjection(1..m, ToSet(P))
    BY <2>1, <2>2 DEF Surjection
  <2>4. \A i, j \in 1..m : f[i] = f[j] => i = j
    BY <1>3, <1>5, <2>1
  <2>5. f \in Injection(1..m, ToSet(P))
    BY <2>1, <2>4 DEF Injection, IsInjective
  <2>6. IsFiniteSet(1..m) /\ Cardinality(1..m) = m
    BY <1>5, UpTo
  <2> QED
    BY <1>5, <2>3, <2>5, <2>6, FS_Surjection
<1>13. names \in Seq(Listed)
  <2>1. P \in Seq(Listed)
    BY <1>5 DEF Listed
  <2>2. Ellipsis \in Listed
    BY DEF Listed
  <2> QED
    BY <1>6, <2>1, <2>2
<1>14. printed_len(l) > opt_line_length => Len(names) <= 1 \/ inc.raw_len > opt_align_column
  <2>1. Len(names) \in Nat /\ comment_len(names) \in Nat /\ fixed_len \in Nat
    <3>1. delim_len(opt_comment_style.start) \in Nat /\ delim_len(opt_comment_style.end) \in Nat
      BY DEF delim_len
    <3> QED
      BY <1>13, <3>1, LengthIsNatural DEF fixed_len, OptionTypes
  <2>2. printed_len(l) > opt_line_length /\ inc.raw_len <= opt_align_column =>
          fixed_len + comment_len(names) > opt_line_length
    BY <1>13, LineIsAsLong DEF names
  <2>3. Len(names) > 1 => fixed_len + comment_len(names) <= opt_line_length
    BY <1>4 DEF Room
  <2>4. opt_line_length \in Nat /\ opt_align_column \in Nat
    BY DEF OptionTypes
  <2> QED
    BY <2>1, <2>2, <2>3, <2>4
<1>15. ASSUME NEW n \in Listed, ~fits(P, n)
       PROVE  printed_len(line(Append(P, n))) >= opt_line_length
  <2>1. Append(P, n) \in Seq(Listed) /\ comment_len(Append(P, n)) \in Nat
    <3>1. P \in Seq(Listed)
      BY <1>5 DEF Listed
    <3>2. Append(P, n) \in Seq(Listed)
      BY <3>1
    <3> QED
      BY <3>2, LengthIsNatural
  <2>2. ~(fixed_len + comment_len(Append(P, n)) <= opt_line_length)
    BY <1>15 DEF fits
  <2>3. fixed_len \in Nat
    <3>1. delim_len(opt_comment_style.start) \in Nat /\ delim_len(opt_comment_style.end) \in Nat
      BY DEF delim_len
    <3> QED
      BY <3>1 DEF fixed_len, OptionTypes
  <2>4. fixed_len + comment_len(Append(P, n)) > opt_line_length
    BY <2>1, <2>2, <2>3 DEF OptionTypes
  <2> QED
    BY <2>1, <2>4, LineIsAsLong
<1>16. ASSUME Used(s) \ ToSet(P) # {}
       PROVE  /\ \E n \in Used(s) \ ToSet(P) : printed_len(line(Append(P, n))) >= opt_line_length
              /\ names = P => printed_len(line(Append(P, Ellipsis))) >= opt_line_length
  <2>1. PICK k \in 1..Len(r) : k > m
    BY <1>9, <1>16
  <2>2. m # Len(r) /\ m + 1 \in 1..Len(r)
    BY <1>3, <1>5, <2>1
  <2> DEFINE n == r[m + 1].name
  <2>3. n \in Used(s) /\ n \in Listed
    BY <1>3, <2>2 DEF Listed
  <2>4. n \notin ToSet(P)
    <3>1. ASSUME NEW i \in 1..m, r[i].name = r[m + 1].name PROVE FALSE
      BY <1>3, <1>5, <2>2, <3>1
    <3> QED
      BY <1>8, <3>1
  <2>5. ~fits(P, n)
    BY <1>4, <2>2 DEF Full, P
  <2>6. Ellipsis \in Listed
    BY DEF Listed
  <2> HIDE DEF n, line
  <2> QED
    BY <1>7, <1>15, <2>2, <2>3, <2>4, <2>5, <2>6
<1> QED
  BY <1>7, <1>9, <1>10, <1>11, <1>12, <1>14, <1>16, ListIsRight DEF names

\* The only symbol listed has the most references.
LEMMA MostRefListed ==
  ASSUME OptionTypes, opt_comment_symbols = "MOST_REF",
         NEW inc, inc.symbols \in Seq(Listable), inc.symbols # <<>>,
         print_lang = "CPlusPlus" \/ NamesDiffer(inc), NEW l,
         l = PrintedLine(inc, "symbols", make_symbols_comment(inc.symbols), opt_comment_style)
  PROVE  ListsAsManyAsFit(l)
<1> DEFINE s == inc.symbols
           a == symbol_array(s)
           names == make_symbols_comment(s)
<1>1. IsArrayOf(a, s)
  BY ArrayIs
<1> HIDE DEF a
<1>2. a \in Seq(Listable) /\ Used(s) = {a[j].name : j \in 1..Len(a)}
  <2>1. a \in Seq(Listable) /\ Used(a) = Used(s)
    BY <1>1 DEF IsArrayOf
  <2> QED
    BY <2>1, UsedIs
<1>3. a # <<>>
  <2>1. 1 \in 1..Len(s)
    OBVIOUS
  <2>2. s[1].name \in Used(s)
    BY <2>1, UsedIs
  <2> QED
    BY <1>2, <2>2
<1>4. PICK i \in 1..Len(a) : /\ most_ref_sym(a) = a[i]
                             /\ \A j \in 1..Len(a) : a[j].ref_count <= a[i].ref_count
  BY <1>1, <1>3, MostRefIs
<1> DEFINE top == a[i].name
<1>5. top \in Used(s) /\ top \in Nat \ {0}
  <2>1. a[i] \in Listable
    BY <1>2
  <2> QED
    BY <1>2, <2>1, NamesAreNaturals DEF Listable
<1>6. names = <<top>>
  BY <1>4, MakeIs DEF a
<1> HIDE DEF names, top
<1>7. Uncut(names) = names
  <2>1. Last(names) = top /\ top # Ellipsis
    BY <1>5, <1>6 DEF Last, Ellipsis
  <2> QED
    BY <2>1 DEF Uncut
<1>8. ToSet(names) = {top} /\ Len(names) = 1 /\ DOMAIN names = {1}
  BY <1>6 DEF ToSet
<1>9. ASSUME NEW n \in Used(s) PROVE ~ListedBefore(n, top, s)
  <2>1. PICK j \in 1..Len(a) : n = a[j].name
    BY <1>2
  <2>2. /\ ref_counts(s, n) = a[j].ref_count
        /\ ref_counts(s, top) = a[i].ref_count
    BY <1>1, <2>1 DEF IsArrayOf, top
  <2>3. a[j].ref_count \in Nat /\ a[i].ref_count \in Nat
    <3>1. a[j] \in Listable /\ a[i] \in Listable
      BY <1>2
    <3> QED
      BY <3>1 DEF Listable
  <2>4. ~(ref_counts(s, n) > ref_counts(s, top))
    BY <1>4, <2>2, <2>3
  <2> QED
    BY <2>4 DEF ListedBefore
<1>10. Cardinality(ToSet(names)) = Len(names)
  BY <1>8, FS_Singleton
<1>11. \A m, n \in DOMAIN names : ~(m < n)
  BY <1>8
<1>12. \A n \in Used(s) \ ToSet(names), m \in ToSet(names) : ~ListedBefore(n, m, s)
  BY <1>8, <1>9
<1>13. ToSet(names) \subseteq Used(s) /\ Len(names) <= 1
  BY <1>5, <1>8
<1> QED
  BY <1>7, <1>10, <1>11, <1>12, <1>13, ListIsRight DEF names

-----------------------------------------------------------------------------
FitInv == OptionTypes /\ AsManyAsFit

\* What a line lists is right as long as the options are those it was printed with.
LEMMA SameOptions ==
  ASSUME UNCHANGED commentOptions, NEW l, ListsAsManyAsFit(l)
  PROVE  ListsAsManyAsFit(l)'
  BY DEF commentOptions, ListsAsManyAsFit, ListedBefore, printed_len

LEMMA FitStep == FitInv /\ [CommentsNext]_commentsVars => FitInv'
<1> SUFFICES ASSUME FitInv, [CommentsNext]_commentsVars PROVE FitInv'
  OBVIOUS
<1>1. UNCHANGED commentOptions
  BY DEF CommentsNext, maybe_print_include, commentsVars
<1>2. OptionTypes'
  BY <1>1 DEF FitInv, OptionTypes, commentOptions, CommentSymbols
<1>3. ASSUME NEW l \in printed', l.comment = "symbols",
             print_lang = "CPlusPlus" \/ NamesDiffer(l.inc)
      PROVE  ListsAsManyAsFit(l)
  <2>1. CASE UNCHANGED commentsVars
    BY <1>3, <2>1 DEF commentsVars, FitInv, AsManyAsFit
  <2>2. ASSUME NEW inc \in Shown, maybe_print_include(inc) PROVE ListsAsManyAsFit(l)
    <3>1. ~reads_no_front(inc) /\ l \in first_line(inc) \cup repeated_lines(inc)
      BY <1>3, <2>2 DEF maybe_print_include
    <3>2. /\ prints_symbols(inc) /\ opt_comment_style.start # "none"
          /\ l = PrintedLine(inc, "symbols", make_symbols_comment(inc.symbols),
                             opt_comment_style)
      BY <1>3, <3>1 DEF first_line, repeated_lines, PrintedLine
    <3>3. l.inc = inc
      BY <3>2 DEF PrintedLine
    <3>4. inc.raw_len \in Nat /\ inc.symbols \in Seq(Listable)
      BY CommentsAssumption DEF Listable
    <3>5. OptionTypes
      BY DEF FitInv
    <3>6. opt_comment_symbols = "MOST_REF" => inc.symbols # <<>>
      BY <3>1, <3>2 DEF reads_no_front
    <3> QED
      BY <1>3, <3>2, <3>3, <3>4, <3>5, <3>6, ListIs, MostRefListed
  <2> QED
    BY <2>1, <2>2 DEF CommentsNext
<1>4. AsManyAsFit'
  <2>1. print_lang' = print_lang
    BY <1>1 DEF commentOptions
  <2>2. ASSUME NEW l \in printed', l.comment = "symbols",
               (print_lang = "CPlusPlus" \/ NamesDiffer(l.inc))'
        PROVE  ListsAsManyAsFit(l)'
    <3>1. print_lang = "CPlusPlus" \/ NamesDiffer(l.inc)
      BY <2>1, <2>2 DEF NamesDiffer
    <3> QED
      BY <1>1, <1>3, <2>2, <3>1, SameOptions
  <2> QED
    BY <2>2 DEF AsManyAsFit
<1> QED
  BY <1>2, <1>4 DEF FitInv

\* The comment after an #include lists as many symbols as have room in the line, in
\* the order asked for and no symbol before one that is to come first, with every
\* name once in C++ and "..." only where it has room, for all symbols, lengths of
\* names, columns and lengths of lines.
THEOREM CommentsFit == CommentsSpec => []AsManyAsFit
<1>1. CommentsInit => FitInv
  BY CommentsAssumption DEF CommentsInit, FitInv, OptionTypes, AsManyAsFit
<1>2. FitInv => AsManyAsFit
  BY DEF FitInv
<1> QED
  BY <1>1, <1>2, FitStep, PTL DEF CommentsSpec

=============================================================================
