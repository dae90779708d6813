------------------------- MODULE CommandLines_proofs -------------------------
(***************************************************************************)
(* Proofs about CommandLines: of whatever arguments, the directories       *)
(* headers are looked for in are those given, in their order, and a header *)
(* gets a name by which it is found.                                       *)
(***************************************************************************)
EXTENDS CommandLines, Facts, SequenceTheorems

-----------------------------------------------------------------------------
(* Sequences and folds, an element at a time *)

LEMMA PrefixOf ==
  ASSUME NEW S, NEW r \in Seq(S), NEW k \in 0..Len(r)
  PROVE  /\ SubSeq(r, 1, k) \in Seq(S) /\ Len(SubSeq(r, 1, k)) = k
         /\ \A i \in 1..k : SubSeq(r, 1, k)[i] = r[i]
         /\ k = 0 => SubSeq(r, 1, k) = <<>>
         /\ k # 0 => SubSeq(r, 1, k) = Append(SubSeq(r, 1, k - 1), r[k])
<1>1. Len(r) \in Nat /\ \A i \in 1..Len(r) : r[i] \in S
  BY LenProperties, ElementOfSeq
<1>2. ASSUME NEW j \in 0..Len(r)
      PROVE  /\ SubSeq(r, 1, j) \in Seq(S) /\ Len(SubSeq(r, 1, j)) = j
             /\ \A i \in 1..j : SubSeq(r, 1, j)[i] = r[i]
  <2>1. \A i \in 1..j : r[i] \in S
    BY <1>1
  <2>2. j \in Int /\ 1 \in Int /\ j - 1 + 1 = j /\ (IF 1 <= j THEN j - 1 + 1 ELSE 0) = j
    BY <1>1
  <2>3. /\ SubSeq(r, 1, j) \in Seq(S)
        /\ Len(SubSeq(r, 1, j)) = IF 1 <= j THEN j - 1 + 1 ELSE 0
        /\ \A i \in 1..j - 1 + 1 : SubSeq(r, 1, j)[i] = r[1 + i - 1]
    BY <2>1, <2>2
  <2>4. \A i \in 1..j : 1 + i - 1 = i
    BY <1>1
  <2> QED
    BY <2>2, <2>3, <2>4
<1>3. k = 0 => SubSeq(r, 1, k) = <<>>
  BY SubSeqEmpty
<1>4. ASSUME k # 0 PROVE SubSeq(r, 1, k) = Append(SubSeq(r, 1, k - 1), r[k])
  <2>1. k \in 1..Len(r) /\ 1 \in 1..Len(r) /\ k - 1 \in 0..Len(r) /\ r[k] \in S
    BY <1>1, <1>4
  <2>2. SubSeq(r, 1, k) = SubSeq(r, 1, k - 1) \o <<r[k]>>
    BY <2>1, SubSeqRecursiveSecond
  <2>3. Append(SubSeq(r, 1, k - 1), r[k]) = SubSeq(r, 1, k - 1) \o <<r[k]>>
    BY <1>2, <2>1, AppendIsConcat
  <2> QED
    BY <2>2, <2>3
<1> QED
  BY <1>2, <1>3, <1>4

LEMMA LastIsAppended ==
  ASSUME NEW S, NEW r \in Seq(S), r # <<>>
  PROVE  /\ Front(r) \in Seq(S) /\ Last(r) \in S /\ Len(r) \in Nat \ {0}
         /\ Len(Front(r)) = Len(r) - 1 /\ r = Append(Front(r), Last(r))
         /\ \A i \in 1..(Len(r) - 1) : Front(r)[i] = r[i]
<1>1. Len(r) \in Nat \ {0} /\ \A i \in 1..Len(r) : r[i] \in S
  BY EmptySeq, ElementOfSeq
<1>2. Len(r) \in 0..Len(r) /\ Len(r) - 1 \in 0..Len(r) /\ Len(r) # 0 /\ Len(r) \in 1..Len(r)
  BY <1>1
<1>3. SubSeq(r, 1, Len(r)) = Append(SubSeq(r, 1, Len(r) - 1), r[Len(r)])
  BY <1>2, PrefixOf
<1>4. SubSeq(r, 1, Len(r)) = r
  BY SubSeqFull
<1>5. /\ SubSeq(r, 1, Len(r) - 1) \in Seq(S) /\ Len(SubSeq(r, 1, Len(r) - 1)) = Len(r) - 1
      /\ \A i \in 1..(Len(r) - 1) : SubSeq(r, 1, Len(r) - 1)[i] = r[i]
  BY <1>2, PrefixOf
<1> QED
  BY <1>1, <1>2, <1>3, <1>4, <1>5 DEF Front, Last

LEMMA FrontOfAppended ==
  ASSUME NEW S, NEW r \in Seq(S), NEW e \in S
  PROVE  /\ Append(r, e) \in Seq(S) /\ Append(r, e) # <<>>
         /\ Front(Append(r, e)) = r /\ Last(Append(r, e)) = e
         /\ Len(Append(r, e)) = Len(r) + 1 /\ Len(r) \in Nat
         /\ \A i \in 1..Len(r) : Append(r, e)[i] = r[i]
<1>1. /\ Append(r, e) \in Seq(S) /\ Append(r, e) # <<>>
      /\ Len(Append(r, e)) = Len(r) + 1 /\ Len(r) \in Nat
      /\ \A i \in 1..Len(r) : Append(r, e)[i] = r[i]
      /\ Append(r, e)[Len(r) + 1] = e
  BY AppendProperties, LenProperties
<1>2. Append(Front(Append(r, e)), Last(Append(r, e))) = Append(r, e)
  BY <1>1, LastIsAppended
<1>3. Front(Append(r, e)) \in Seq(S) /\ Last(Append(r, e)) \in S
  BY <1>1, LastIsAppended
<1> QED
  BY <1>1, <1>2, <1>3, AppendInjective

\* Whatever holds of the empty sequence and goes on holds of all.
LEMMA AppendsUp ==
  ASSUME NEW S, NEW T, <<>> \in T,
         \A s \in Seq(S) : \A e \in S : s \in T => Append(s, e) \in T
  PROVE  \A r \in Seq(S) : r \in T
<1> SUFFICES ASSUME NEW r \in Seq(S) PROVE r \in T
  OBVIOUS
<1> DEFINE U == {k \in 0..Len(r) : SubSeq(r, 1, k) \in T}
<1>1. Len(r) \in Nat /\ \A i \in 1..Len(r) : r[i] \in S
  BY LenProperties, ElementOfSeq
<1>2. 0 \in U
  <2>1. 0 \in 0..Len(r)
    BY <1>1
  <2> QED
    BY <2>1, PrefixOf
<1>3. ASSUME NEW k \in 1..Len(r), k - 1 \in U PROVE k \in U
  <2>1. k \in 0..Len(r) /\ k # 0 /\ k - 1 \in 0..Len(r) /\ r[k] \in S
    BY <1>1
  <2>2. SubSeq(r, 1, k) = Append(SubSeq(r, 1, k - 1), r[k])
    BY <2>1, PrefixOf
  <2>3. SubSeq(r, 1, k - 1) \in Seq(S) /\ SubSeq(r, 1, k - 1) \in T
    BY <1>3, <2>1, PrefixOf
  <2> QED
    BY <2>1, <2>2, <2>3
<1>4. \A k \in 0..Len(r) : k \in U
  <2> HIDE DEF U
  <2> QED
    BY <1>1, <1>2, <1>3, Climbs
<1>5. Len(r) \in U
  BY <1>1, <1>4
<1> QED
  BY <1>5, SubSeqFull

\* A recursive function of the prefixes of r, as FoldLeft is.
Runs(iter, F, base, r) ==
  /\ iter[{}] = base
  /\ \A k \in 1..Len(r) : iter[1..k] = F[<<iter[1..(k - 1)], r[k]>>]

Continues(iter, more, V, F, r, e) ==
  iter[DOMAIN r] \in V /\ more[DOMAIN Append(r, e)] = F[<<iter[DOMAIN r], e>>]

LEMMA RunGoesOn ==
  ASSUME NEW V, NEW E, NEW F \in [V \X E -> V], NEW base \in V, NEW r \in Seq(E), NEW e \in E,
         NEW iter, Runs(iter, F, base, r), NEW more, Runs(more, F, base, Append(r, e))
  PROVE  Continues(iter, more, V, F, r, e)
<1> DEFINE T == {k \in 0..Len(r) : iter[1..k] \in V /\ more[1..k] = iter[1..k]}
           n == Len(r)
<1>1. /\ Append(r, e) \in Seq(E) /\ Len(Append(r, e)) = n + 1 /\ n \in Nat
      /\ \A i \in 1..n : Append(r, e)[i] = r[i] /\ r[i] \in E
      /\ Append(r, e)[n + 1] = e
      /\ DOMAIN r = 1..n /\ DOMAIN Append(r, e) = 1..(n + 1)
  BY AppendProperties, LenProperties, ElementOfSeq
<1>2. 0 \in T
  <2>1. 1..0 = {}
    OBVIOUS
  <2> QED
    BY <1>1, <2>1 DEF Runs
<1>3. ASSUME NEW k \in 1..n, k - 1 \in T PROVE k \in T
  <2>1. k \in 1..(n + 1) /\ Append(r, e)[k] = r[k] /\ r[k] \in E
    BY <1>1
  <2>2. iter[1..k] = F[<<iter[1..(k - 1)], r[k]>>] /\ more[1..k] = F[<<more[1..(k - 1)], r[k]>>]
    BY <1>1, <2>1 DEF Runs
  <2>3. iter[1..(k - 1)] \in V /\ more[1..(k - 1)] = iter[1..(k - 1)]
    BY <1>3
  <2> QED
    BY <1>1, <2>1, <2>2, <2>3
<1>4. n \in T
  <2>1. \A k \in 0..n : k \in T
    <3> HIDE DEF T
    <3> QED
      BY <1>1, <1>2, <1>3, Climbs
  <2> QED
    BY <1>1, <2>1
<1>5. more[1..(n + 1)] = F[<<more[1..((n + 1) - 1)], Append(r, e)[n + 1]>>]
  <2>1. n + 1 \in 1..Len(Append(r, e))
    BY <1>1
  <2> QED
    BY <2>1 DEF Runs
<1>6. (n + 1) - 1 = n
  BY <1>1
<1> QED
  BY <1>1, <1>4, <1>5, <1>6 DEF Continues

\* Such functions are all alike where they are of the right values.
Follows(iter, V, F, base, r) ==
  /\ iter[{}] = base
  /\ \A s \in SUBSET DOMAIN r :
       s # {} /\ iter[s \ {Max(s)}] \in V => iter[s] = F[<<iter[s \ {Max(s)}], r[Max(s)]>>]

LEMMA FollowingRuns ==
  ASSUME NEW V, NEW E, NEW F \in [V \X E -> V], NEW base \in V, NEW r \in Seq(E), NEW iter,
         Follows(iter, V, F, base, r)
  PROVE  Runs(iter, F, base, r) /\ iter[DOMAIN r] \in V
<1>1. DOMAIN r = 1..Len(r) /\ Len(r) \in Nat /\ \A i \in 1..Len(r) : r[i] \in E
  BY LenProperties, ElementOfSeq
<1>2. ASSUME NEW k \in 1..Len(r), iter[1..(k - 1)] \in V
      PROVE  iter[1..k] = F[<<iter[1..(k - 1)], r[k]>>]
  <2>1. 1..k # {} /\ Max(1..k) = k /\ (1..k) \ {k} = 1..(k - 1)
    BY <1>1, PrefixIs
  <2>2. 1..k \in SUBSET DOMAIN r
    BY <1>1
  <2> QED
    BY <1>2, <2>1, <2>2 DEF Follows
<1> DEFINE T == {k \in 0..Len(r) : iter[1..k] \in V}
<1>3. 0 \in T
  <2>1. 1..0 = {}
    OBVIOUS
  <2> QED
    BY <1>1, <2>1 DEF Follows
<1>4. ASSUME NEW k \in 1..Len(r), k - 1 \in T PROVE k \in T
  <2>1. iter[1..(k - 1)] \in V /\ r[k] \in E /\ k \in 0..Len(r)
    BY <1>1, <1>4
  <2>2. iter[1..k] = F[<<iter[1..(k - 1)], r[k]>>]
    BY <1>2, <2>1
  <2> QED
    BY <2>1, <2>2
<1>5. \A k \in 0..Len(r) : k \in T
  <2> HIDE DEF T
  <2> QED
    BY <1>1, <1>3, <1>4, Climbs
<1>6. ASSUME NEW k \in 1..Len(r) PROVE iter[1..(k - 1)] \in V
  <2>1. k - 1 \in T
    BY <1>1, <1>5
  <2> QED
    BY <2>1
<1>7. iter[1..Len(r)] \in V
  <2>1. Len(r) \in T
    BY <1>1, <1>5
  <2> QED
    BY <2>1
<1> QED
  BY <1>1, <1>2, <1>6, <1>7 DEF Runs, Follows

\* What a fold gives of each sequence.
IsFold(val, V, E, F, base) ==
  \A r \in Seq(E) : \E iter : Follows(iter, V, F, base, r) /\ val[r] = iter[DOMAIN r]

GoesOn(val, V, E, F, base) ==
  /\ val[<<>>] = base
  /\ \A r \in Seq(E) : val[r] \in V
  /\ \A r \in Seq(E) : \A e \in E : val[Append(r, e)] = F[<<val[r], e>>]

LEMMA FoldGoesOn ==
  ASSUME NEW V, NEW E, NEW F \in [V \X E -> V], NEW base \in V, NEW val,
         IsFold(val, V, E, F, base)
  PROVE  GoesOn(val, V, E, F, base)
<1>1. val[<<>>] = base
  <2>1. PICK iter : Follows(iter, V, F, base, <<>>) /\ val[<<>>] = iter[DOMAIN <<>>]
    BY EmptySeq DEF IsFold
  <2>2. DOMAIN <<>> = {}
    OBVIOUS
  <2> QED
    BY <2>1, <2>2 DEF Follows
<1>2. ASSUME NEW r \in Seq(E), NEW e \in E
      PROVE  val[r] \in V /\ val[Append(r, e)] = F[<<val[r], e>>]
  <2>1. Append(r, e) \in Seq(E)
    BY AppendProperties
  <2>2. PICK iter : Follows(iter, V, F, base, r) /\ val[r] = iter[DOMAIN r]
    BY DEF IsFold
  <2>3. PICK more : Follows(more, V, F, base, Append(r, e))
                      /\ val[Append(r, e)] = more[DOMAIN Append(r, e)]
    BY <2>1 DEF IsFold
  <2>4. Runs(iter, F, base, r) /\ Runs(more, F, base, Append(r, e))
    BY <2>1, <2>2, <2>3, FollowingRuns
  <2>5. Continues(iter, more, V, F, r, e)
    BY <2>4, RunGoesOn
  <2> QED
    BY <2>2, <2>3, <2>5 DEF Continues
<1> DEFINE T == {r \in Seq(E) : val[r] \in V}
<1>3. <<>> \in T
  BY <1>1, EmptySeq
<1>4. ASSUME NEW r \in Seq(E), NEW e \in E, r \in T PROVE Append(r, e) \in T
  <2>1. Append(r, e) \in Seq(E) /\ val[r] \in V
    BY <1>2, AppendProperties
  <2>2. val[Append(r, e)] = F[<<val[r], e>>]
    BY <1>2
  <2> QED
    BY <2>1, <2>2
<1>5. \A r \in Seq(E) : r \in T
  <2> HIDE DEF T
  <2> QED
    BY <1>3, <1>4, AppendsUp
<1> QED
  BY <1>1, <1>2, <1>5 DEF GoesOn

LEMMA LastOfSome ==
  ASSUME NEW E, NEW r \in Seq(E), NEW s \in SUBSET DOMAIN r, s # {}
  PROVE  Max(s) \in DOMAIN r /\ r[Max(s)] \in E
<1>1. DOMAIN r = 1..Len(r) /\ Len(r) \in Nat
  BY LenProperties
<1>2. Max(s) \in DOMAIN r
  BY <1>1, LargestIs
<1> QED
  BY <1>1, <1>2, ElementOfSeq

-----------------------------------------------------------------------------
(* Where paths lead *)

RealPath == Dirs \cup Files \cup {NotThere}
PathType == [abs : BOOLEAN, comps : Seq(Component)]

LEMMA RealPathIs ==
  /\ <<>> \in Dirs /\ NotThere \notin Dirs
  /\ \A p \in RealPath : p \in Seq(Component)
  /\ \A p : (p \in Dirs \/ p \in Files \/ p \in DOMAIN Links) /\ p # <<>> =>
                   /\ p \in Seq(Component) /\ p # NotThere /\ Front(p) \in Dirs
                   /\ Last(p) \notin {".", ".."}
  /\ \A l \in DOMAIN Links : l \notin Dirs \cup Files /\ Links[l] \in Dirs \cup Files /\ l # <<>>
  /\ \A p \in Files : p \notin Dirs /\ p # <<>>
<1>1. NotThere # <<>> /\ NotThere \in Seq(Component) /\ <<>> \in Seq(Component)
  BY FileSystemAssumption DEF NotThere
<1>2. <<>> \in Dirs /\ Dirs \cap Files = {} /\ DOMAIN Links \cap (Dirs \cup Files) = {}
  BY FileSystemAssumption
<1>3. Links \in [DOMAIN Links -> Dirs \cup Files]
  BY FileSystemAssumption
<1>4. \A p \in (Dirs \ {<<>>}) \cup Files \cup DOMAIN Links :
        /\ p \in Seq(Component) \ {<<>>, NotThere}
        /\ Front(p) \in Dirs /\ Last(p) \notin {".", ".."}
  BY FileSystemAssumption
<1>5. \A p \in RealPath : p \in Seq(Component)
  BY <1>1, <1>4 DEF RealPath
<1>6. \A p : (p \in Dirs \/ p \in Files \/ p \in DOMAIN Links) /\ p # <<>> =>
                    /\ p \in Seq(Component) /\ p # NotThere /\ Front(p) \in Dirs
                    /\ Last(p) \notin {".", ".."}
  BY <1>4
<1>7. NotThere \notin Dirs
  BY <1>1, <1>4
<1>8. \A p \in Files : p \notin Dirs /\ p # <<>>
  BY <1>2
<1>9. \A l \in DOMAIN Links :
        l \notin Dirs \cup Files /\ Links[l] \in Dirs \cup Files /\ l # <<>>
  BY <1>2, <1>3, <1>4
<1> QED
  BY <1>2, <1>5, <1>6, <1>7, <1>8, <1>9

LEMMA EntryIsReal ==
  ASSUME NEW p \in RealPath, NEW c \in Component
  PROVE  EnterEntry(p, c) \in RealPath
<1>1. p \in Dirs /\ p # <<>> => Front(p) \in Dirs
  BY RealPathIs
<1>2. \A l \in DOMAIN Links : Links[l] \in RealPath
  BY RealPathIs DEF RealPath
<1> QED
  BY <1>1, <1>2 DEF EnterEntry, RealPath

Entering(iter, base, r) ==
  iter = [s \in SUBSET DOMAIN r |->
            IF s = {} THEN base ELSE EnterEntry(iter[s \ {Max(s)}], r[Max(s)])]

LEMMA EnteringIsFold ==
  ASSUME NEW base, NEW r
  PROVE  FoldLeft(EnterEntry, base, r) = (CHOOSE iter : Entering(iter, base, r))[DOMAIN r]
  BY DEF FoldLeft, MapThenFoldSet, Entering

Lead(base, r) == FoldLeft(EnterEntry, base, r)

LEMMA ComponentsLead ==
  ASSUME NEW base \in RealPath
  PROVE  /\ Lead(base, <<>>) = base
         /\ \A r \in Seq(Component) :
              /\ Lead(base, r) \in RealPath
              /\ \A c \in Component : Lead(base, Append(r, c)) = EnterEntry(Lead(base, r), c)
<1> DEFINE F == [p \in RealPath \X Component |-> EnterEntry(p[1], p[2])]
           val == [r \in Seq(Component) |-> Lead(base, r)]
<1>1. /\ F \in [RealPath \X Component -> RealPath]
      /\ \A p \in RealPath : \A c \in Component : F[<<p, c>>] = EnterEntry(p, c)
  BY EntryIsReal
<1> HIDE DEF F
<1>2. ASSUME NEW r \in Seq(Component)
      PROVE  \E iter : Follows(iter, RealPath, F, base, r) /\ val[r] = iter[DOMAIN r]
  <2> DEFINE iter == CHOOSE f : Entering(f, base, r)
  <2>1. \A s \in SUBSET DOMAIN r : s # {} => Max(s) \in DOMAIN r /\ r[Max(s)] \in Component
    BY LastOfSome
  <2>2. \E f : Entering(f, base, r)
    <3>1. PICK f \in [SUBSET DOMAIN r -> RealPath] : FoldsBy(f, F, base, r)
      BY <1>1, FoldExists
    <3>2. \A s \in SUBSET DOMAIN r :
            s # {} => f[s] = EnterEntry(f[s \ {Max(s)}], r[Max(s)])
      BY <1>1, <2>1, <3>1 DEF FoldsBy
    <3>3. Entering(f, base, r)
      BY <3>1, <3>2 DEF FoldsBy, Entering
    <3> QED
      BY <3>3
  <2>3. Entering(iter, base, r)
    BY <2>2
  <2>4. val[r] = iter[DOMAIN r]
    BY EnteringIsFold DEF Lead
  <2> HIDE DEF iter, val
  <2>5. Follows(iter, RealPath, F, base, r)
    BY <1>1, <2>1, <2>3 DEF Entering, Follows
  <2> QED
    BY <2>4, <2>5
<1>3. \A r \in Seq(Component) : val[r] = Lead(base, r)
  OBVIOUS
<1> HIDE DEF val
<1>4. IsFold(val, RealPath, Component, F, base)
  BY <1>2 DEF IsFold
<1>5. GoesOn(val, RealPath, Component, F, base)
  BY <1>1, <1>4, FoldGoesOn
<1>6. \A r \in Seq(Component) : \A c \in Component : Append(r, c) \in Seq(Component)
  BY AppendProperties
<1>7. <<>> \in Seq(Component)
  BY EmptySeq
<1> QED
  BY <1>1, <1>3, <1>5, <1>6, <1>7 DEF GoesOn

\* A step that leads somewhere leads from a directory, to what is in it.
LEMMA EntryIs ==
  ASSUME NEW p \in RealPath, NEW c \in Component, EnterEntry(p, c) # NotThere
  PROVE  /\ p \in Dirs
         /\ c = "." => EnterEntry(p, c) = p
         /\ c = ".." => EnterEntry(p, c) = IF p = <<>> THEN p ELSE Front(p)
         /\ c \notin {".", ".."} =>
              \/ Append(p, c) \in Dirs \cup Files /\ EnterEntry(p, c) = Append(p, c)
              \/ Append(p, c) \in DOMAIN Links /\ EnterEntry(p, c) = Links[Append(p, c)]
<1>1. "." # ".."
  OBVIOUS
<1> QED
  BY <1>1 DEF EnterEntry

NoDots(r) == \A i \in 1..Len(r) : r[i] \notin {".", ".."}

LEMMA RealHasNoDots ==
  ASSUME NEW real \in Dirs \cup Files
  PROVE  real \in Seq(Component) /\ NoDots(real)
<1> DEFINE T == {r \in Seq(Component) : r \in Dirs \cup Files => NoDots(r)}
<1>1. <<>> \in T
  BY EmptySeq DEF NoDots
<1>2. ASSUME NEW r \in Seq(Component), NEW c \in Component, r \in T PROVE Append(r, c) \in T
  <2>1. /\ Append(r, c) \in Seq(Component) /\ Len(Append(r, c)) = Len(r) + 1 /\ Len(r) \in Nat
        /\ \A i \in 1..Len(r) : Append(r, c)[i] = r[i]
    BY FrontOfAppended
  <2>2. ASSUME Append(r, c) \in Dirs \cup Files PROVE NoDots(Append(r, c))
    <3>1. r \in Dirs /\ c \notin {".", ".."}
      <4>1. /\ Append(r, c) # <<>> /\ Front(Append(r, c)) = r /\ Last(Append(r, c)) = c
        BY FrontOfAppended
      <4> QED
        BY <2>2, <4>1, RealPathIs
    <3>2. NoDots(r)
      BY <1>2, <3>1
    <3>3. Append(r, c)[Len(r) + 1] = c
      BY AppendProperties
    <3> QED
      BY <2>1, <3>1, <3>2, <3>3 DEF NoDots
  <2> QED
    BY <2>1, <2>2
<1>3. real \in Seq(Component)
  BY RealPathIs DEF RealPath
<1>4. \A r \in Seq(Component) : r \in T
  <2> HIDE DEF T
  <2> QED
    BY <1>1, <1>2, AppendsUp
<1> QED
  BY <1>3, <1>4

\* A real path is where it leads.
LEMMA RealIsItself ==
  ASSUME NEW real \in Dirs \cup Files
  PROVE  Lead(<<>>, real) = real
<1> DEFINE T == {r \in Seq(Component) :
                   r \in Dirs \cup Files => Lead(<<>>, r) = r}
<1>1. <<>> \in RealPath
  BY RealPathIs DEF RealPath
<1>2. <<>> \in T
  BY <1>1, EmptySeq, ComponentsLead
<1>3. ASSUME NEW r \in Seq(Component), NEW c \in Component, r \in T PROVE Append(r, c) \in T
  <2>1. /\ Append(r, c) \in Seq(Component) /\ Append(r, c) # <<>> /\ Front(Append(r, c)) = r
        /\ Last(Append(r, c)) = c
    BY FrontOfAppended
  <2>2. ASSUME Append(r, c) \in Dirs \cup Files
        PROVE  Lead(<<>>, Append(r, c)) = Append(r, c)
    <3>1. r \in Dirs /\ c \notin {".", ".."}
      BY <2>1, <2>2, RealPathIs
    <3>2. Append(r, c) \notin DOMAIN Links
      BY <2>2, RealPathIs
    <3>3. Lead(<<>>, r) = r
      BY <1>3, <3>1
    <3>4. Lead(<<>>, Append(r, c)) = EnterEntry(r, c)
      BY <1>1, <3>3, ComponentsLead
    <3>5. EnterEntry(r, c) = Append(r, c)
      BY <2>2, <3>1, <3>2 DEF EnterEntry
    <3> QED
      BY <3>4, <3>5
  <2> QED
    BY <2>1, <2>2
<1>4. real \in Seq(Component)
  BY RealHasNoDots
<1>5. \A r \in Seq(Component) : r \in T
  <2> HIDE DEF T
  <2> QED
    BY <1>2, <1>3, AppendsUp
<1> QED
  BY <1>4, <1>5

LEMMA PathLeads ==
  ASSUME cwd \in Dirs, NEW abs \in BOOLEAN
  PROVE  /\ realpath(Path(abs, <<>>)) = IF abs THEN <<>> ELSE cwd
         /\ \A r \in Seq(Component) :
              /\ realpath(Path(abs, r)) \in RealPath
              /\ realpath(Path(abs, r)) = Lead(IF abs THEN <<>> ELSE cwd, r)
              /\ \A c \in Component :
                   realpath(Path(abs, Append(r, c))) = EnterEntry(realpath(Path(abs, r)), c)
<1> DEFINE base == IF abs THEN <<>> ELSE cwd
<1>1. base \in RealPath
  BY RealPathIs DEF RealPath
<1>2. \A r : realpath(Path(abs, r)) = Lead(base, r)
  BY DEF realpath, ResolvedIn, Path, Lead
<1> HIDE DEF base
<1>3. realpath(Path(abs, <<>>)) = base
  BY <1>1, <1>2, ComponentsLead
<1>4. \A r \in Seq(Component) :
        /\ realpath(Path(abs, r)) \in RealPath
        /\ \A c \in Component :
             realpath(Path(abs, Append(r, c))) = EnterEntry(realpath(Path(abs, r)), c)
  BY <1>1, <1>2, ComponentsLead
<1> QED
  BY <1>2, <1>3, <1>4 DEF base

-----------------------------------------------------------------------------
(* A normalized path leads to where the path does *)

LEMMA NormalizedIsPath ==
  ASSUME cwd \in Dirs, NEW n \in PathType, NEW c \in Component
  PROVE  Normalized(n, c) \in PathType
<1>1. n.abs \in BOOLEAN /\ n.comps \in Seq(Component) /\ <<>> \in Seq(Component)
  BY EmptySeq DEF PathType
<1>2. n.comps # <<>> => Front(n.comps) \in Seq(Component)
  BY <1>1, LastIsAppended
<1>3. cwd # <<>> => Front(cwd) \in Seq(Component)
  BY RealPathIs, RealHasNoDots
<1>4. Append(n.comps, c) \in Seq(Component)
  BY <1>1, AppendProperties
<1>5. \A abs \in BOOLEAN : \A r \in Seq(Component) : Path(abs, r) \in PathType
  BY DEF Path, PathType
<1> QED
  BY <1>1, <1>2, <1>3, <1>4, <1>5 DEF Normalized

LEMMA NormalizedLeads ==
  ASSUME cwd \in Dirs, LinksLieBeside, NEW n \in PathType, NoDots(n.comps), NEW c \in Component,
         EnterEntry(realpath(n), c) # NotThere
  PROVE  NoDots(Normalized(n, c).comps)
           /\ realpath(Normalized(n, c)) = EnterEntry(realpath(n), c)
<1>1. n.abs \in BOOLEAN /\ n.comps \in Seq(Component) /\ n = Path(n.abs, n.comps)
  BY DEF PathType, Path
<1>2. realpath(n) \in RealPath
  BY <1>1, PathLeads
<1>3. realpath(n) \in Dirs
  BY <1>2, EntryIs
<1>4. \A abs, r : Path(abs, r).comps = r /\ Path(abs, r).abs = abs
  BY DEF Path
<1>5. CASE c = "."
  BY <1>2, <1>5, EntryIs DEF Normalized
<1>6. CASE c = ".."
  <2>1. EnterEntry(realpath(n), c) = IF realpath(n) = <<>> THEN <<>> ELSE Front(realpath(n))
    BY <1>2, <1>6, EntryIs
  <2>2. CASE n.comps # <<>>
    <3> DEFINE f == Front(n.comps)
               l == Last(n.comps)
               q == realpath(Path(n.abs, f))
    <3>1. /\ f \in Seq(Component) /\ l \in Component /\ n.comps = Append(f, l)
          /\ Len(n.comps) \in Nat \ {0} /\ Len(f) = Len(n.comps) - 1
          /\ \A i \in 1..(Len(n.comps) - 1) : f[i] = n.comps[i]
      BY <1>1, <2>2, LastIsAppended
    <3>2. l \notin {".", ".."} /\ NoDots(f)
      BY <3>1 DEF NoDots, Last
    <3>3. Normalized(n, c) = Path(n.abs, f)
      BY <1>6, <2>2 DEF Normalized
    <3> HIDE DEF f, l
    <3>4. realpath(n) = EnterEntry(q, l) /\ q \in RealPath
      <4>1. realpath(Path(n.abs, Append(f, l))) = EnterEntry(realpath(Path(n.abs, f)), l)
        BY <1>1, <3>1, PathLeads
      <4>2. realpath(Path(n.abs, f)) \in RealPath
        BY <1>1, <3>1, PathLeads
      <4>3. realpath(n) = realpath(Path(n.abs, Append(f, l)))
        BY <1>1, <3>1
      <4> QED
        BY <4>1, <4>2, <4>3
    <3> HIDE DEF q
    <3>5. realpath(n) # NotThere
      BY <1>3, RealPathIs
    <3>6. /\ q \in Dirs
          /\ \/ Append(q, l) \in Dirs /\ realpath(n) = Append(q, l)
             \/ Append(q, l) \in DirLinks /\ realpath(n) = Links[Append(q, l)]
      BY <1>3, <3>1, <3>2, <3>4, <3>5, EntryIs, RealPathIs DEF DirLinks
    <3>7. Append(q, l) # <<>> /\ Front(Append(q, l)) = q
      <4>1. q \in Seq(Component)
        BY <3>6, RealHasNoDots
      <4> QED
        BY <3>1, <4>1, FrontOfAppended
    <3>8. realpath(n) # <<>> /\ Front(realpath(n)) = q
      BY <3>6, <3>7 DEF LinksLieBeside
    <3> QED
      BY <1>4, <2>1, <3>2, <3>3, <3>8 DEF q
  <2>3. CASE n.comps = <<>> /\ (n.abs \/ cwd = <<>>)
    <3>1. Normalized(n, c) = Path(TRUE, <<>>)
      BY <1>6, <2>3 DEF Normalized
    <3>2. realpath(n) = <<>> /\ realpath(Path(TRUE, <<>>)) = <<>>
      BY <1>1, <2>3, PathLeads
    <3>3. NoDots(<<>>)
      BY EmptySeq DEF NoDots
    <3>4. Path(TRUE, <<>>).comps = <<>>
      BY <1>4
    <3> QED
      BY <2>1, <3>1, <3>2, <3>3, <3>4
  <2>4. CASE n.comps = <<>> /\ ~(n.abs \/ cwd = <<>>)
    <3>1. Normalized(n, c) = Path(TRUE, Front(cwd))
      BY <1>6, <2>4 DEF Normalized
    <3>2. realpath(n) = cwd /\ cwd # <<>>
      BY <1>1, <2>4, PathLeads
    <3>3. Front(cwd) \in Dirs
      BY <3>2, RealPathIs
    <3>4. NoDots(Front(cwd)) /\ Front(cwd) \in Seq(Component)
      BY <3>3, RealHasNoDots
    <3>5. realpath(Path(TRUE, Front(cwd))) = Front(cwd)
      BY <3>3, <3>4, PathLeads, RealIsItself
    <3>6. Path(TRUE, Front(cwd)).comps = Front(cwd)
      BY <1>4
    <3> QED
      BY <2>1, <3>1, <3>2, <3>4, <3>5, <3>6
  <2> QED
    BY <2>2, <2>3, <2>4
<1>7. CASE c \notin {".", ".."}
  <2>1. Normalized(n, c) = Path(n.abs, Append(n.comps, c))
    BY <1>7 DEF Normalized
  <2>2. NoDots(Append(n.comps, c))
    <3>1. /\ Len(Append(n.comps, c)) = Len(n.comps) + 1 /\ Len(n.comps) \in Nat
          /\ \A i \in 1..Len(n.comps) : Append(n.comps, c)[i] = n.comps[i]
          /\ Append(n.comps, c)[Len(n.comps) + 1] = c
      BY <1>1, AppendProperties, LenProperties
    <3> QED
      BY <1>7, <3>1 DEF NoDots
  <2>3. realpath(Path(n.abs, Append(n.comps, c))) = EnterEntry(realpath(n), c)
    BY <1>1, PathLeads
  <2> QED
    BY <1>4, <2>1, <2>2, <2>3
<1> QED
  BY <1>5, <1>6, <1>7

Normalizing(iter, base, r) ==
  iter = [s \in SUBSET DOMAIN r |->
            IF s = {} THEN base ELSE Normalized(iter[s \ {Max(s)}], r[Max(s)])]

LEMMA NormalizingIsFold ==
  ASSUME NEW base, NEW r
  PROVE  FoldLeft(Normalized, base, r) = (CHOOSE iter : Normalizing(iter, base, r))[DOMAIN r]
  BY DEF FoldLeft, MapThenFoldSet, Normalizing

NormalizedBy(base, r) == FoldLeft(Normalized, base, r)

LEMMA ComponentsAreNormalized ==
  ASSUME cwd \in Dirs, NEW base \in PathType
  PROVE  /\ NormalizedBy(base, <<>>) = base
         /\ \A r \in Seq(Component) :
              /\ NormalizedBy(base, r) \in PathType
              /\ \A c \in Component :
                   NormalizedBy(base, Append(r, c)) = Normalized(NormalizedBy(base, r), c)
<1> DEFINE F == [p \in PathType \X Component |-> Normalized(p[1], p[2])]
           val == [r \in Seq(Component) |-> NormalizedBy(base, r)]
<1>1. /\ F \in [PathType \X Component -> PathType]
      /\ \A n \in PathType : \A c \in Component : F[<<n, c>>] = Normalized(n, c)
  BY NormalizedIsPath
<1> HIDE DEF F
<1>2. ASSUME NEW r \in Seq(Component)
      PROVE  \E iter : Follows(iter, PathType, F, base, r) /\ val[r] = iter[DOMAIN r]
  <2> DEFINE iter == CHOOSE f : Normalizing(f, base, r)
  <2>1. \A s \in SUBSET DOMAIN r : s # {} => Max(s) \in DOMAIN r /\ r[Max(s)] \in Component
    BY LastOfSome
  <2>2. \E f : Normalizing(f, base, r)
    <3>1. PICK f \in [SUBSET DOMAIN r -> PathType] : FoldsBy(f, F, base, r)
      BY <1>1, FoldExists
    <3>2. \A s \in SUBSET DOMAIN r :
            s # {} => f[s] = Normalized(f[s \ {Max(s)}], r[Max(s)])
      BY <1>1, <2>1, <3>1 DEF FoldsBy
    <3>3. Normalizing(f, base, r)
      BY <3>1, <3>2 DEF FoldsBy, Normalizing
    <3> QED
      BY <3>3
  <2>3. Normalizing(iter, base, r)
    BY <2>2
  <2>4. val[r] = iter[DOMAIN r]
    BY NormalizingIsFold DEF NormalizedBy
  <2> HIDE DEF iter, val
  <2>5. Follows(iter, PathType, F, base, r)
    BY <1>1, <2>1, <2>3 DEF Normalizing, Follows
  <2> QED
    BY <2>4, <2>5
<1>3. \A r \in Seq(Component) : val[r] = NormalizedBy(base, r)
  OBVIOUS
<1> HIDE DEF val
<1>4. IsFold(val, PathType, Component, F, base)
  BY <1>2 DEF IsFold
<1>5. GoesOn(val, PathType, Component, F, base)
  BY <1>1, <1>4, FoldGoesOn
<1>6. \A r \in Seq(Component) : \A c \in Component : Append(r, c) \in Seq(Component)
  BY AppendProperties
<1>7. <<>> \in Seq(Component)
  BY EmptySeq
<1> QED
  BY <1>1, <1>3, <1>5, <1>6, <1>7 DEF GoesOn

LEMMA NormalizedPathLeads ==
  ASSUME cwd \in Dirs, LinksLieBeside, NEW path \in PathType, realpath(path) # NotThere
  PROVE  path_normalize(path) \in PathType /\ realpath(path_normalize(path)) = realpath(path)
<1>1. path.abs \in BOOLEAN /\ path.comps \in Seq(Component) /\ path = Path(path.abs, path.comps)
  BY DEF PathType, Path
<1>2. CASE path = Path(FALSE, <<".">>)
  <2>1. path.comps = Append(<<>>, ".") /\ path.abs = FALSE
    BY <1>2 DEF Path
  <2>2. "." \in Component /\ <<>> \in Seq(Component)
    BY EmptySeq, FileSystemAssumption
  <2>3. realpath(path) = EnterEntry(cwd, ".")
    <3>1. /\ realpath(Path(FALSE, Append(<<>>, "."))) = EnterEntry(realpath(Path(FALSE, <<>>)), ".")
          /\ realpath(Path(FALSE, <<>>)) = cwd
      BY <2>2, PathLeads
    <3> QED
      BY <1>1, <2>1, <3>1
  <2>4. EnterEntry(cwd, ".") = cwd
    BY DEF EnterEntry
  <2>5. cwd \in Seq(Component) /\ realpath(Path(TRUE, cwd)) = cwd
    BY PathLeads, RealIsItself, RealHasNoDots
  <2> QED
    BY <1>2, <2>3, <2>4, <2>5 DEF path_normalize, PathType, Path
<1>3. CASE path # Path(FALSE, <<".">>)
  <2> DEFINE base == Path(path.abs, <<>>)
             n(r) == NormalizedBy(base, r)
             real(r) == realpath(Path(path.abs, r))
             T == {r \in Seq(Component) :
                     real(r) # NotThere => NoDots(n(r).comps) /\ realpath(n(r)) = real(r)}
  <2>1. base \in PathType
    BY <1>1, EmptySeq DEF PathType, Path
  <2>2. /\ n(<<>>) = base
        /\ \A r \in Seq(Component) :
             n(r) \in PathType /\ \A c \in Component : n(Append(r, c)) = Normalized(n(r), c)
    BY <2>1, ComponentsAreNormalized
  <2>3. \A r \in Seq(Component) :
          real(r) \in RealPath /\ \A c \in Component : real(Append(r, c)) = EnterEntry(real(r), c)
    BY <1>1, PathLeads
  <2>4. path_normalize(path) = n(path.comps) /\ realpath(path) = real(path.comps)
    BY <1>1, <1>3 DEF path_normalize, NormalizedBy
  <2>5. base.comps = <<>> /\ realpath(base) = real(<<>>)
    BY DEF Path
  <2> HIDE DEF n, real, base
  <2>6. <<>> \in T
    BY <2>2, <2>5, EmptySeq DEF NoDots
  <2>7. ASSUME NEW r \in Seq(Component), NEW c \in Component, r \in T PROVE Append(r, c) \in T
    <3>1. Append(r, c) \in Seq(Component)
      BY AppendProperties
    <3>2. ASSUME real(Append(r, c)) # NotThere
          PROVE  NoDots(n(Append(r, c)).comps) /\ realpath(n(Append(r, c))) = real(Append(r, c))
      <4>1. real(r) \in RealPath /\ EnterEntry(real(r), c) # NotThere
        BY <2>3, <3>2
      <4>2. real(r) # NotThere
        BY <4>1, EntryIs, RealPathIs
      <4>3. NoDots(n(r).comps) /\ realpath(n(r)) = real(r) /\ n(r) \in PathType
        BY <2>2, <2>7, <4>2
      <4>4. /\ NoDots(Normalized(n(r), c).comps)
            /\ realpath(Normalized(n(r), c)) = EnterEntry(real(r), c)
        BY <4>1, <4>3, NormalizedLeads
      <4> QED
        BY <2>2, <2>3, <4>4
    <3> QED
      BY <3>1, <3>2
  <2>8. \A r \in Seq(Component) : r \in T
    <3> HIDE DEF T
    <3> QED
      BY <2>6, <2>7, AppendsUp
  <2> QED
    BY <1>1, <2>2, <2>4, <2>8
<1> QED
  BY <1>2, <1>3

-----------------------------------------------------------------------------
(* The directories, in their order *)

GivenIn(r, dir) == {i \in 1..Len(r) : realpath(r[i]) = dir}

\* Of any two, the first is given before the second is.
InOrder(added, r) ==
  /\ added \in Seq(Dirs)
  /\ Range(added) = {dir \in Dirs : GivenIn(r, dir) # {}} /\ IsInjective(added)
  /\ \A i, j \in 1..Len(added) :
       i < j => \E m \in GivenIn(r, added[i]) : \A n \in GivenIn(r, added[j]) : m < n

LEMMA MoreIsGiven ==
  ASSUME NEW r \in Seq(PathType), NEW path \in PathType, NEW dir
  PROVE  /\ GivenIn(Append(r, path), dir)
              = GivenIn(r, dir) \cup (IF realpath(path) = dir THEN {Len(r) + 1} ELSE {})
         /\ \A i \in GivenIn(r, dir) : i \in Nat /\ i < Len(r) + 1
<1>1. /\ Len(Append(r, path)) = Len(r) + 1 /\ Len(r) \in Nat
      /\ \A i \in 1..Len(r) : Append(r, path)[i] = r[i]
      /\ Append(r, path)[Len(r) + 1] = path
  BY AppendProperties, LenProperties
<1>2. 1..(Len(r) + 1) = (1..Len(r)) \cup {Len(r) + 1}
  BY <1>1
<1> QED
  BY <1>1, <1>2 DEF GivenIn

LEMMA RangeOfAppended ==
  ASSUME NEW S, NEW s \in Seq(S), NEW e \in S
  PROVE  /\ Range(Append(s, e)) = Range(s) \cup {e}
         /\ IsInjective(s) /\ e \notin Range(s) => IsInjective(Append(s, e))
         /\ \A i \in 1..Len(s) : s[i] \in Range(s)
<1>1. /\ Append(s, e) \in Seq(S) /\ Len(Append(s, e)) = Len(s) + 1 /\ Len(s) \in Nat
      /\ \A i \in 1..Len(s) : Append(s, e)[i] = s[i]
      /\ Append(s, e)[Len(s) + 1] = e
  BY AppendProperties, LenProperties
<1>2. /\ DOMAIN s = 1..Len(s) /\ DOMAIN Append(s, e) = 1..(Len(s) + 1)
      /\ 1..(Len(s) + 1) = (1..Len(s)) \cup {Len(s) + 1}
  BY <1>1, LenProperties
<1>3. \A i \in 1..Len(s) : s[i] \in Range(s)
  BY <1>2 DEF Range
<1>4. Range(Append(s, e)) = Range(s) \cup {e}
  BY <1>1, <1>2 DEF Range
<1>5. ASSUME IsInjective(s), e \notin Range(s) PROVE IsInjective(Append(s, e))
  BY <1>1, <1>2, <1>3, <1>5 DEF IsInjective
<1> QED
  BY <1>3, <1>4, <1>5

LEMMA AddedInOrder ==
  ASSUME NEW r \in Seq(PathType), NEW path \in PathType, NEW added, InOrder(added, r)
  PROVE  InOrder(ipath_add(added, path), Append(r, path))
<1> DEFINE real == realpath(path)
           n == Len(r) + 1
           more == ipath_add(added, path)
           rr == Append(r, path)
<1>1. /\ added \in Seq(Dirs) /\ Len(added) \in Nat
      /\ Range(added) = {dir \in Dirs : GivenIn(r, dir) # {}} /\ IsInjective(added)
      /\ \A i, j \in 1..Len(added) :
           i < j => \E m \in GivenIn(r, added[i]) : \A k \in GivenIn(r, added[j]) : m < k
  BY LenProperties DEF InOrder
<1>2. /\ \A dir : GivenIn(rr, dir) = GivenIn(r, dir) \cup (IF real = dir THEN {n} ELSE {})
      /\ \A dir : \A i \in GivenIn(r, dir) : i \in Nat /\ i < n
      /\ n \in Nat
  BY MoreIsGiven, LenProperties
<1>3. more = IF real \in Dirs \ Range(added) THEN Append(added, real) ELSE added
  BY DEF ipath_add
<1> HIDE DEF real, n, more, rr
<1>4. CASE real \in Dirs \ Range(added)
  <2>1. /\ more \in Seq(Dirs) /\ Len(more) = Len(added) + 1
        /\ \A i \in 1..Len(added) : more[i] = added[i]
        /\ more[Len(added) + 1] = real
    BY <1>1, <1>3, <1>4, AppendProperties
  <2>2. /\ Range(more) = Range(added) \cup {real} /\ IsInjective(more)
        /\ \A i \in 1..Len(added) : added[i] \in Range(added)
    BY <1>1, <1>3, <1>4, RangeOfAppended
  <2>3. GivenIn(rr, real) = {n}
    BY <1>1, <1>2, <1>4
  <2>4. \A dir \in Dirs : dir # real => GivenIn(rr, dir) = GivenIn(r, dir)
    BY <1>2
  <2>5. Range(more) = {dir \in Dirs : GivenIn(rr, dir) # {}}
    BY <1>1, <1>4, <2>2, <2>3, <2>4
  <2>6. ASSUME NEW i \in 1..Len(more), NEW j \in 1..Len(more), i < j
        PROVE  \E m \in GivenIn(rr, more[i]) : \A k \in GivenIn(rr, more[j]) : m < k
    <3>1. /\ i \in 1..Len(added) /\ more[i] = added[i] /\ added[i] \in Range(added)
          /\ GivenIn(rr, added[i]) = GivenIn(r, added[i])
      <4>1. i \in 1..Len(added)
        BY <1>1, <2>1, <2>6
      <4> QED
        BY <1>1, <1>4, <2>1, <2>2, <2>4, <4>1
    <3>2. CASE j = Len(added) + 1
      <4>1. PICK m \in GivenIn(r, added[i]) : TRUE
        BY <1>1, <3>1
      <4>2. m < n
        BY <1>2
      <4> QED
        BY <2>1, <2>3, <3>1, <3>2, <4>2
    <3>3. CASE j # Len(added) + 1
      <4>1. j \in 1..Len(added) /\ more[j] = added[j]
        BY <1>1, <2>1, <3>3
      <4>2. GivenIn(rr, added[j]) = GivenIn(r, added[j])
        BY <1>1, <1>4, <2>2, <2>4, <4>1
      <4> QED
        BY <1>1, <2>6, <3>1, <4>1, <4>2
    <3> QED
      BY <3>2, <3>3
  <2> QED
    BY <2>1, <2>2, <2>5, <2>6 DEF InOrder, more, rr
<1>5. CASE real \notin Dirs \ Range(added)
  <2>1. more = added
    BY <1>3, <1>5
  <2>2. {dir \in Dirs : GivenIn(rr, dir) # {}} = {dir \in Dirs : GivenIn(r, dir) # {}}
    BY <1>1, <1>2, <1>5
  <2>3. ASSUME NEW i \in 1..Len(added), NEW j \in 1..Len(added), i < j
        PROVE  \E m \in GivenIn(rr, added[i]) : \A k \in GivenIn(rr, added[j]) : m < k
    <3>1. PICK m \in GivenIn(r, added[i]) : \A k \in GivenIn(r, added[j]) : m < k
      BY <1>1, <2>3
    <3>2. m < n /\ m \in GivenIn(rr, added[i])
      BY <1>2
    <3>3. \A k \in GivenIn(rr, added[j]) : k \in GivenIn(r, added[j]) \/ k = n
      BY <1>2
    <3> QED
      BY <3>1, <3>2, <3>3
  <2> QED
    <3>1. Range(added) = {dir \in Dirs : GivenIn(rr, dir) # {}}
      BY <1>1, <2>2
    <3>2. InOrder(added, rr)
      BY <1>1, <2>3, <3>1 DEF InOrder
    <3> QED
      BY <2>1, <3>2 DEF more, rr
<1> QED
  BY <1>4, <1>5

LEMMA AddedAreDirs ==
  ASSUME NEW added \in Seq(Dirs), NEW path
  PROVE  ipath_add(added, path) \in Seq(Dirs)
<1>1. realpath(path) \in Dirs => Append(added, realpath(path)) \in Seq(Dirs)
  BY AppendProperties
<1> QED
  BY <1>1 DEF ipath_add

Adding(iter, base, r) ==
  iter = [s \in SUBSET DOMAIN r |->
            IF s = {} THEN base ELSE ipath_add(iter[s \ {Max(s)}], r[Max(s)])]

LEMMA AddingIsFold ==
  ASSUME NEW base, NEW r
  PROVE  FoldLeft(ipath_add, base, r) = (CHOOSE iter : Adding(iter, base, r))[DOMAIN r]
  BY DEF FoldLeft, MapThenFoldSet, Adding

AddedTo(base, r) == FoldLeft(ipath_add, base, r)

LEMMA DirsAreAdded ==
  ASSUME NEW base \in Seq(Dirs)
  PROVE  /\ AddedTo(base, <<>>) = base
         /\ \A r \in Seq(PathType) :
              /\ AddedTo(base, r) \in Seq(Dirs)
              /\ \A path \in PathType :
                   AddedTo(base, Append(r, path)) = ipath_add(AddedTo(base, r), path)
<1> DEFINE V == Seq(Dirs)
           F == [p \in V \X PathType |-> ipath_add(p[1], p[2])]
           val == [r \in Seq(PathType) |-> AddedTo(base, r)]
<1>1. /\ F \in [V \X PathType -> V]
      /\ \A n \in V : \A path \in PathType : F[<<n, path>>] = ipath_add(n, path)
  BY AddedAreDirs
<1> HIDE DEF F
<1>2. ASSUME NEW r \in Seq(PathType)
      PROVE  \E iter : Follows(iter, V, F, base, r) /\ val[r] = iter[DOMAIN r]
  <2> DEFINE iter == CHOOSE f : Adding(f, base, r)
  <2>1. \A s \in SUBSET DOMAIN r : s # {} => Max(s) \in DOMAIN r /\ r[Max(s)] \in PathType
    BY LastOfSome
  <2>2. \E f : Adding(f, base, r)
    <3>1. PICK f \in [SUBSET DOMAIN r -> V] : FoldsBy(f, F, base, r)
      BY <1>1, FoldExists
    <3>2. \A s \in SUBSET DOMAIN r :
            s # {} => f[s] = ipath_add(f[s \ {Max(s)}], r[Max(s)])
      BY <1>1, <2>1, <3>1 DEF FoldsBy
    <3>3. Adding(f, base, r)
      BY <3>1, <3>2 DEF FoldsBy, Adding
    <3> QED
      BY <3>3
  <2>3. Adding(iter, base, r)
    BY <2>2
  <2>4. val[r] = iter[DOMAIN r]
    BY AddingIsFold DEF AddedTo
  <2> HIDE DEF iter, val
  <2>5. Follows(iter, V, F, base, r)
    BY <1>1, <2>1, <2>3 DEF Adding, Follows
  <2> QED
    BY <2>4, <2>5
<1>3. \A r \in Seq(PathType) : val[r] = AddedTo(base, r)
  OBVIOUS
<1> HIDE DEF val, V
<1>4. IsFold(val, V, PathType, F, base)
  BY <1>2 DEF IsFold
<1>5. base \in V
  BY DEF V
<1>6. GoesOn(val, V, PathType, F, base)
  BY <1>1, <1>4, <1>5, FoldGoesOn
<1>7. \A r \in Seq(PathType) : \A path \in PathType : Append(r, path) \in Seq(PathType)
  BY AppendProperties
<1>8. <<>> \in Seq(PathType)
  BY EmptySeq
<1> QED
  BY <1>1, <1>3, <1>6, <1>7, <1>8 DEF GoesOn, V

LEMMA AllInOrder ==
  ASSUME NEW r \in Seq(PathType)
  PROVE  InOrder(AddedTo(<<>>, r), r)
<1> DEFINE T == {s \in Seq(PathType) : InOrder(AddedTo(<<>>, s), s)}
<1>1. <<>> \in Seq(Dirs)
  BY EmptySeq
<1>2. <<>> \in T
  <2>1. AddedTo(<<>>, <<>>) = <<>> /\ <<>> \in Seq(PathType) /\ Len(<<>>) = 0
    BY <1>1, DirsAreAdded, EmptySeq
  <2>2. DOMAIN <<>> = {} /\ Range(<<>>) = {} /\ IsInjective(<<>>)
    BY DEF Range, IsInjective
  <2>3. \A dir : GivenIn(<<>>, dir) = {}
    BY <2>1 DEF GivenIn
  <2> QED
    <3>1. 1..Len(<<>>) = {}
      BY <2>1
    <3>2. InOrder(<<>>, <<>>)
      BY <1>1, <2>2, <2>3, <3>1 DEF InOrder
    <3> QED
      BY <2>1, <3>2
<1>3. ASSUME NEW s \in Seq(PathType), NEW path \in PathType, s \in T PROVE Append(s, path) \in T
  <2>1. Append(s, path) \in Seq(PathType)
    BY AppendProperties
  <2>2. InOrder(ipath_add(AddedTo(<<>>, s), path), Append(s, path))
    BY <1>3, AddedInOrder
  <2> QED
    BY <1>1, <2>1, <2>2, DirsAreAdded
<1>4. \A s \in Seq(PathType) : s \in T
  <2> HIDE DEF T
  <2> QED
    BY <1>2, <1>3, AppendsUp
<1> QED
  BY <1>4

LEMMA LeastIs ==
  ASSUME NEW T \in SUBSET Nat, T # {}
  PROVE  Min(T) \in T /\ \A y \in T : Min(T) <= y
  BY LeastNatural DEF Min

\* IsInOrder, of what is added and what is given.
IsOrderOf(added, r) ==
  LET at(dir) == {i \in DOMAIN r : realpath(r[i]) = dir}
  IN  /\ Range(added) = {dir \in Dirs : at(dir) # {}} /\ IsInjective(added)
      /\ \A i, j \in DOMAIN added : i < j => Min(at(added[i])) < Min(at(added[j]))

LEMMA FirstInOrder ==
  ASSUME NEW r \in Seq(PathType), NEW added, added = AddedTo(<<>>, r)
  PROVE  IsOrderOf(added, r)
<1> DEFINE at(dir) == {i \in DOMAIN r : realpath(r[i]) = dir}
<1>1. InOrder(added, r)
  BY AllInOrder
<1>2. DOMAIN r = 1..Len(r) /\ Len(r) \in Nat
  BY LenProperties
<1>3. \A dir : at(dir) = GivenIn(r, dir) /\ at(dir) \in SUBSET Nat
  BY <1>2 DEF GivenIn
<1> HIDE DEF at
<1>4. /\ added \in Seq(Dirs) /\ DOMAIN added = 1..Len(added)
      /\ Range(added) = {dir \in Dirs : at(dir) # {}} /\ IsInjective(added)
  BY <1>1, <1>3, LenProperties DEF InOrder
<1>5. ASSUME NEW i \in DOMAIN added, NEW j \in DOMAIN added, i < j
      PROVE  Min(at(added[i])) < Min(at(added[j]))
  <2>1. PICK m \in at(added[i]) : \A n \in at(added[j]) : m < n
    BY <1>1, <1>3, <1>4, <1>5 DEF InOrder
  <2>2. at(added[i]) # {} /\ at(added[j]) # {}
    <3>1. added[j] \in Range(added)
      BY DEF Range
    <3> QED
      BY <1>4, <2>1, <3>1
  <2>3. /\ Min(at(added[i])) \in at(added[i]) /\ Min(at(added[i])) <= m
        /\ Min(at(added[j])) \in at(added[j])
    BY <1>3, <2>2, LeastIs
  <2>4. m < Min(at(added[j]))
    BY <2>1, <2>3
  <2> QED
    BY <1>3, <2>3, <2>4
<1> QED
  BY <1>4, <1>5 DEF IsOrderOf, at

-----------------------------------------------------------------------------
(* The name of a header *)

\* What is found by the name of a file is a file.
LEMMA FilesAreFound ==
  ASSUME cwd \in Dirs, FilesHaveOwnNames, NEW dir \in Dirs, NEW name \in Seq(Component) \ {<<>>},
         NEW file \in Files, Last(name) = Last(file),
         realpath(Path(TRUE, dir \o name)) # NotThere
  PROVE  realpath(Path(TRUE, dir \o name)) \in Files
<1> DEFINE f == Front(name)
           l == Last(name)
           q == realpath(Path(TRUE, dir \o f))
<1>1. /\ f \in Seq(Component) /\ l \in Component /\ name = Append(f, l)
      /\ dir \in Seq(Component)
  BY LastIsAppended, RealHasNoDots
<1>2. dir \o f \in Seq(Component) /\ dir \o name = Append(dir \o f, l)
  <2>1. dir \o f \in Seq(Component) /\ <<l>> \in Seq(Component)
    BY <1>1, ConcatProperties
  <2>2. (dir \o f) \o <<l>> = dir \o (f \o <<l>>)
    BY <1>1, <2>1, ConcatAssociative
  <2>3. name = f \o <<l>> /\ Append(dir \o f, l) = (dir \o f) \o <<l>>
    BY <1>1, <2>1, AppendIsConcat
  <2> QED
    BY <2>1, <2>2, <2>3
<1>3. file # <<>> /\ l \notin {".", ".."} /\ l = Last(file)
  BY RealPathIs
<1> HIDE DEF f, l
<1>4. realpath(Path(TRUE, dir \o name)) = EnterEntry(q, l) /\ q \in RealPath
  <2>1. realpath(Path(TRUE, Append(dir \o f, l))) = EnterEntry(realpath(Path(TRUE, dir \o f)), l)
    BY <1>1, <1>2, PathLeads
  <2>2. realpath(Path(TRUE, dir \o f)) \in RealPath
    BY <1>2, PathLeads
  <2> QED
    BY <1>2, <2>1, <2>2
<1> HIDE DEF q
<1> DEFINE next == Append(q, l)
<1>5. /\ q \in Dirs
      /\ \/ next \in Dirs \cup Files /\ EnterEntry(q, l) = next
         \/ next \in DOMAIN Links /\ EnterEntry(q, l) = Links[next]
  BY <1>1, <1>3, <1>4, EntryIs
<1>6. next # <<>> /\ Last(next) = Last(file)
  <2>1. q \in Seq(Component)
    BY <1>5, RealHasNoDots
  <2> QED
    BY <1>1, <1>3, <2>1, FrontOfAppended
<1> HIDE DEF next
<1>7. next \notin Dirs
  BY <1>6 DEF FilesHaveOwnNames
<1>8. next \in DOMAIN Links => Links[next] \in Files
  <2>1. next \notin DirLinks
    BY <1>6 DEF FilesHaveOwnNames
  <2>2. next \in DOMAIN Links => Links[next] \in Dirs \cup Files
    BY RealPathIs
  <2> QED
    BY <2>1, <2>2 DEF DirLinks
<1> QED
  BY <1>4, <1>5, <1>7, <1>8

LEMMA RestOfPrefix ==
  ASSUME NEW S, NEW s \in Seq(S), NEW t \in Seq(S), IsPrefix(s, t)
  PROVE  /\ Len(s) \in Nat /\ Len(t) \in Nat /\ Len(s) <= Len(t)
         /\ SubSeq(t, Len(s) + 1, Len(t)) \in Seq(S)
         /\ Len(SubSeq(t, Len(s) + 1, Len(t))) = Len(t) - Len(s)
         /\ s \o SubSeq(t, Len(s) + 1, Len(t)) = t
         /\ Len(s) # Len(t) => Last(SubSeq(t, Len(s) + 1, Len(t))) = Last(t)
         /\ Len(s) = Len(t) => s = t
<1> DEFINE m == Len(s)
           n == Len(t)
           rest == SubSeq(t, m + 1, n)
<1>1. m \in Nat /\ n \in Nat /\ m <= n /\ SubSeq(s, 1, m) = SubSeq(t, 1, m)
  BY LenProperties DEF IsPrefix
<1>2. SubSeq(s, 1, m) = s /\ SubSeq(t, 1, n) = t
  BY SubSeqFull
<1>3. \A i \in 1..n : t[i] \in S
  BY ElementOfSeq
<1>4. /\ rest \in Seq(S) /\ Len(rest) = n - m
      /\ \A i \in 1..(n - m) : rest[i] = t[m + i]
  BY <1>1, <1>3
<1>5. SubSeq(t, 1, m) \o rest = SubSeq(t, 1, n)
  <2>1. CASE n = 0
    <3>1. s = <<>> /\ t = <<>> /\ rest = <<>>
      BY <1>1, <1>4, <2>1, EmptySeq
    <3> QED
      BY <1>1, <1>2, <3>1, ConcatEmptySeq
  <2>2. CASE n # 0
    <3>1. 1 \in 1..(n + 1) /\ m \in (1 - 1)..n /\ n \in m..n
      BY <1>1, <2>2
    <3> QED
      BY <3>1, ConcatAdjacentSubSeq
  <2> QED
    BY <2>1, <2>2
<1>6. ASSUME m # n PROVE Last(rest) = Last(t)
  <2>1. n - m \in 1..(n - m) /\ m + (n - m) = n
    BY <1>1, <1>6
  <2> QED
    BY <1>4, <2>1 DEF Last
<1> QED
  BY <1>1, <1>2, <1>4, <1>5, <1>6

\* The longest of the directories.
LEMMA LongestIs ==
  ASSUME NEW is, is # {}, NEW n \in Nat, \A i \in is : Len(ipaths[i]) \in 0..n
  PROVE  LongestOf(is) \in is /\ \A j \in is : Len(ipaths[j]) <= Len(ipaths[LongestOf(is)])
<1> DEFINE T == {n - Len(ipaths[i]) : i \in is}
<1>1. T \in SUBSET Nat /\ T # {}
  OBVIOUS
<1>2. PICK x \in T : \A y \in T : x <= y
  BY <1>1, LeastNatural
<1>3. PICK i \in is : x = n - Len(ipaths[i])
  OBVIOUS
<1>4. ASSUME NEW j \in is PROVE Len(ipaths[j]) <= Len(ipaths[i])
  <2>1. n - Len(ipaths[j]) \in T
    OBVIOUS
  <2>2. n - Len(ipaths[i]) <= n - Len(ipaths[j])
    BY <1>2, <1>3, <2>1
  <2> QED
    BY <2>2
<1> QED
  BY <1>4 DEF LongestOf

LEMMA HeaderIsNamed ==
  ASSUME cwd \in Dirs, LinksLieBeside, FilesHaveOwnNames, ipaths \in Seq(Dirs),
         NEW path \in PathType, realpath(path) \in Files, NEW named,
         named = tidy_File_getRelativePath(path)
  PROVE  /\ named.abs => Above(realpath(path)) = {}
         /\ ~named.abs =>
              /\ ipath_find(named.comps) \in Files
              /\ Cardinality(Holding(named.comps)) = 1 =>
                   ipath_find(named.comps) = realpath(path)
              /\ \A i \in Above(realpath(path)) :
                   Len(named.comps) <= Len(realpath(path)) - Len(ipaths[i])
<1> DEFINE real == realpath(path)
           above == Above(real)
<1>1. real \in Files /\ real # NotThere /\ real # <<>> /\ real \notin Dirs
  BY RealPathIs
<1>2. realpath(path_normalize(path)) = real
  BY <1>1, NormalizedPathLeads
<1>3. Path(TRUE, real).comps = real /\ Path(TRUE, real).abs = TRUE
  BY DEF Path
<1> HIDE DEF real
<1>4. above = {i \in DOMAIN ipaths : Path(TRUE, real).abs /\ IsBelow(Path(TRUE, real).comps, ipaths[i])}
  BY <1>3 DEF Above
<1>5. named = IF above = {} THEN Path(TRUE, real)
              ELSE Path(FALSE, SubSeq(real, Len(ipaths[LongestOf(above)]) + 1, Len(real)))
  BY <1>1, <1>2, <1>3, <1>4 DEF tidy_File_getRelativePath, ipath_relativize
<1>6. CASE above = {}
  BY <1>3, <1>5, <1>6 DEF real
<1>7. CASE above # {}
  <2> DEFINE k == LongestOf(above)
             dir == ipaths[k]
             name == SubSeq(real, Len(dir) + 1, Len(real))
  <2>1. above \in SUBSET DOMAIN ipaths
    BY DEF Above
  <2>2. k \in above /\ \A j \in above : Len(ipaths[j]) <= Len(dir)
    <3>1. Len(real) \in Nat
      BY <1>1, RealHasNoDots, LenProperties
    <3>2. ASSUME NEW i \in above PROVE Len(ipaths[i]) \in 0..Len(real)
      <4>1. ipaths[i] \in Dirs /\ IsPrefix(ipaths[i], real)
        BY <2>1, <3>2, LenProperties, ElementOfSeq DEF Above, IsBelow
      <4>2. Len(ipaths[i]) \in Nat /\ Len(ipaths[i]) <= Len(real)
        BY <4>1, RealHasNoDots, LenProperties DEF IsPrefix
      <4> QED
        BY <3>1, <4>2
    <3> HIDE DEF above
    <3> QED
      BY <1>7, <3>1, <3>2, LongestIs
  <2>3. k \in DOMAIN ipaths /\ \A i \in DOMAIN ipaths : ipaths[i] \in Dirs
    BY <2>1, <2>2, LenProperties, ElementOfSeq
  <2>4. IsPrefix(dir, real) /\ dir \in Dirs
    BY <2>2, <2>3 DEF Above, IsBelow
  <2>5. named.abs = FALSE /\ named.comps = name
    <3>1. named = Path(FALSE, name)
      BY <1>5, <1>7
    <3> QED
      BY <3>1 DEF Path
  <2> HIDE DEF k, dir, above
  <2>6. dir \in Seq(Component) /\ real \in Seq(Component)
    BY <1>1, <2>4, RealHasNoDots
  <2>7. /\ Len(dir) \in Nat /\ Len(real) \in Nat /\ Len(dir) <= Len(real)
        /\ name \in Seq(Component) /\ Len(name) = Len(real) - Len(dir) /\ dir \o name = real
        /\ Len(dir) # Len(real) => Last(name) = Last(real)
        /\ Len(dir) = Len(real) => dir = real
    BY <2>4, <2>6, RestOfPrefix
  <2> HIDE DEF name
  <2>8. Len(dir) # Len(real) /\ name # <<>> /\ Last(name) = Last(real)
    <3>1. dir # real
      BY <1>1, <2>4
    <3>2. Len(<<>>) = 0
      OBVIOUS
    <3> QED
      BY <2>7, <3>1, <3>2
  <2>9. realpath(Path(TRUE, dir \o name)) = real
    BY <1>1, <2>6, <2>7, PathLeads, RealIsItself
  <2>10. k \in Holding(name)
    BY <1>1, <2>3, <2>9 DEF Holding, dir
  <2>11. Holding(name) \in SUBSET DOMAIN ipaths /\ Holding(name) \in SUBSET Nat
    <3>1. DOMAIN ipaths = 1..Len(ipaths) /\ Len(ipaths) \in Nat
      BY LenProperties
    <3>2. Holding(name) \in SUBSET DOMAIN ipaths
      BY DEF Holding
    <3> QED
      BY <3>1, <3>2
  <2> DEFINE i == Min(Holding(name))
  <2>12. i \in Holding(name)
    BY <2>10, <2>11, LeastIs
  <2>13. ipath_find(name) = realpath(Path(TRUE, ipaths[i] \o name))
    BY <2>10 DEF ipath_find, Holding
  <2> HIDE DEF i
  <2>14. ipaths[i] \in Dirs /\ realpath(Path(TRUE, ipaths[i] \o name)) # NotThere
    BY <2>3, <2>12 DEF Holding
  <2>15. ipath_find(name) \in Files
    BY <1>1, <2>7, <2>8, <2>13, <2>14, FilesAreFound
  <2>16. ASSUME Cardinality(Holding(name)) = 1 PROVE ipath_find(name) = real
    <3>1. IsFiniteSet(Holding(name))
      <4>1. DOMAIN ipaths = 1..Len(ipaths) /\ Len(ipaths) \in Nat
        BY LenProperties
      <4>2. IsFiniteSet(DOMAIN ipaths)
        BY <4>1, FS_Interval
      <4> QED
        BY <2>11, <4>2, FS_Subset
    <3>2. \E x : Holding(name) = {x}
      BY <2>16, <3>1, FS_Singleton
    <3>3. i = k
      BY <2>10, <2>12, <3>2
    <3> QED
      BY <2>9, <2>13, <3>3 DEF dir
  <2>17. ASSUME NEW j \in above PROVE Len(name) <= Len(real) - Len(ipaths[j])
    <3>1. ipaths[j] \in Dirs /\ Len(ipaths[j]) <= Len(dir)
      BY <2>1, <2>2, <2>3
    <3>2. Len(ipaths[j]) \in Nat
      BY <3>1, RealHasNoDots, LenProperties
    <3> QED
      BY <2>7, <3>1, <3>2
  <2> QED
    BY <2>5, <2>15, <2>16, <2>17 DEF real, above
<1> QED
  BY <1>6, <1>7

-----------------------------------------------------------------------------
(* The arguments *)

Arg == Seq(Token)
Given == [val : Token \cup Letters, value : Arg]

LEMMA TokensAre ==
  /\ {"-", "I", "isystem", "include-tidy", "D", "Qunused-arguments",
      "Wno-unknown-warning-option"} \subseteq Token
  /\ \A l \in CommandLine : l.argv \in Seq(Arg) /\ l.search \in Seq(Token) /\ l.cwd \in Dirs
  /\ \A name \in Name : name \in Seq(Component) \ {<<>>}
  BY CliAssumption DEF Arg

LEMMA FromIs ==
  ASSUME NEW S, NEW s \in Seq(S), NEW m \in Nat \ {0}
  PROVE  From(s, m) \in Seq(S)
<1>1. Len(s) \in Nat /\ \A i \in m..Len(s) : s[i] \in S
  BY LenProperties, ElementOfSeq
<1> QED
  BY <1>1 DEF From

LEMMA SourceIsArgument ==
  ASSUME argv \in Seq(Arg)
  PROVE  get_source_path \in Arg
<1> DEFINE words == {i \in DOMAIN argv : IsWord(argv, i)}
<1>1. <<>> \in Arg
  BY EmptySeq DEF Arg
<1>2. words # {} => argv[Max(words)] \in Arg
  BY LastOfSome
<1> QED
  BY <1>1, <1>2 DEF get_source_path

LEMMA PathsAreAdded ==
  ASSUME argv \in Seq(Arg), line \in CommandLine
  PROVE  argv_add_include_paths \in Seq(Arg)
<1> DEFINE others == {i \in DOMAIN argv : ~IsDashed(argv[i])}
           at == IF others = {} THEN Len(argv) + 1 ELSE Max(others)
<1>1. DOMAIN argv = 1..Len(argv) /\ Len(argv) \in Nat /\ \A i \in 1..Len(argv) : argv[i] \in Arg
  BY LenProperties, ElementOfSeq
<1>2. others # {} => Max(others) \in DOMAIN argv
  BY LastOfSome
<1>3. at \in 1..(Len(argv) + 1)
  BY <1>1, <1>2
<1> HIDE DEF at
<1>4. SubSeq(argv, 1, at - 1) \in Seq(Arg) /\ From(argv, at) \in Seq(Arg)
  <2>1. at - 1 \in 0..Len(argv) /\ at \in Nat \ {0}
    BY <1>1, <1>3
  <2> QED
    BY <2>1, PrefixOf, FromIs
<1>5. Isystem(line.search) \in Seq(Arg)
  <2>1. line.search \in Seq(Token)
    BY TokensAre
  <2>2. /\ DOMAIN line.search = 1..Len(line.search) /\ Len(line.search) \in Nat
        /\ \A i \in 1..Len(line.search) : line.search[i] \in Token
    BY <2>1, LenProperties, ElementOfSeq
  <2>3. \A i \in 1..Len(line.search) : <<"-", "isystem", line.search[i]>> \in Arg
    <3> SUFFICES ASSUME NEW i \in 1..Len(line.search)
                 PROVE  <<"-", "isystem", line.search[i]>> \in Arg
      OBVIOUS
    <3>1. "-" \in Token /\ "isystem" \in Token /\ line.search[i] \in Token
      BY <2>2, TokensAre
    <3> QED
      BY <3>1 DEF Arg
  <2> QED
    BY <2>2, <2>3 DEF Isystem
<1>6. SubSeq(argv, 1, at - 1) \o Isystem(line.search) \o From(argv, at) \in Seq(Arg)
  <2>1. SubSeq(argv, 1, at - 1) \o Isystem(line.search) \in Seq(Arg)
    BY <1>4, <1>5, ConcatProperties
  <2> QED
    BY <1>4, <2>1, ConcatProperties
<1> QED
  BY <1>6 DEF argv_add_include_paths, at

\* What becomes of an argument: no more is kept than is read, and no more is read
\* than there is.
Fits(sorted) ==
  \/ sorted = Refused
  \/ /\ sorted.kept \in Seq(Arg) /\ sorted.tidied \in Seq(Arg)
     /\ sorted.read \in Nat \ {0} /\ argi + sorted.read <= Len(argv) + 1
     /\ Len(sorted.kept) <= sorted.read

LEMMA FewArguments ==
  /\ <<>> \in Seq(Arg) /\ Len(<<>>) = 0
  /\ \A a \in Arg : <<a>> \in Seq(Arg) /\ Len(<<a>>) = 1
  /\ \A a, b \in Arg : <<a, b>> \in Seq(Arg) /\ Len(<<a, b>>) = 2
<1>1. <<>> \in Seq(Arg) /\ Len(<<>>) = 0
  BY EmptySeq
<1>2. \A a \in Arg : <<a>> \in Seq(Arg) /\ Len(<<a>>) = 1
  OBVIOUS
<1>3. \A a, b \in Arg : <<a, b>> \in Seq(Arg) /\ Len(<<a, b>>) = 2
  OBVIOUS
<1> QED
  BY <1>1, <1>2, <1>3

LEMMA ArgumentFits ==
  ASSUME argv \in Seq(Arg), argi \in 1..Len(argv)
  PROVE  Fits(SortArgument)
<1>1. /\ Len(argv) \in Nat /\ DOMAIN argv = 1..Len(argv) /\ argi \in Nat
      /\ \A i \in 1..Len(argv) : argv[i] \in Arg
      /\ Here \in Arg /\ (argi < Len(argv) => Following \in Arg)
  <2>1. Len(argv) \in Nat /\ DOMAIN argv = 1..Len(argv) /\ argi \in Nat
    BY LenProperties
  <2>2. \A i \in 1..Len(argv) : argv[i] \in Arg
    BY ElementOfSeq
  <2>3. argi < Len(argv) => argi + 1 \in 1..Len(argv)
    BY <2>1
  <2> QED
    BY <2>1, <2>2, <2>3 DEF Here, Following
<1>2. Fits(Refused)
  BY DEF Fits
<1>3. argi + 1 <= Len(argv) + 1
  BY <1>1
<1>4. Fits(MoveTidy)
  <2>1. CASE ~IsXtidyRight(argi)
    BY <1>2, <2>1 DEF MoveTidy
  <2>2. CASE IsXtidyRight(argi)
    <3>1. argi + 1 \in DOMAIN argv
      BY <2>2 DEF IsXtidyRight
    <3>2. argi + 1 <= Len(argv) /\ argv[argi + 1] \in Arg /\ argi + 2 <= Len(argv) + 1
      BY <1>1, <3>1
    <3>3. ASSUME NEW b \in BOOLEAN PROVE Fits(TidyOption(argi + 1, b))
      <4>1. CASE ~b
        <5>1. <<argv[argi + 1]>> \in Seq(Arg)
          BY <3>2, FewArguments
        <5>2. Fits(Sorted(<<>>, <<argv[argi + 1]>>, 2))
          BY <3>2, <5>1, FewArguments DEF Fits, Sorted
        <5> QED
          BY <4>1, <5>2 DEF TidyOption
      <4>2. CASE b /\ (argi + 1) + 1 \in DOMAIN argv /\ ~IsDashed(argv[(argi + 1) + 1])
        <5>1. argv[(argi + 1) + 1] \in Arg /\ argi + 3 <= Len(argv) + 1
          BY <1>1, <4>2
        <5>2. <<argv[argi + 1], argv[(argi + 1) + 1]>> \in Seq(Arg)
          BY <3>2, <5>1, FewArguments
        <5>3. Fits(Sorted(<<>>, <<argv[argi + 1], argv[(argi + 1) + 1]>>, 3))
          BY <5>1, <5>2, FewArguments DEF Fits, Sorted
        <5> QED
          BY <4>2, <5>3 DEF TidyOption
      <4>3. CASE b /\ ~((argi + 1) + 1 \in DOMAIN argv /\ ~IsDashed(argv[(argi + 1) + 1]))
        BY <1>2, <4>3 DEF TidyOption
      <4> QED
        BY <4>1, <4>2, <4>3
    <3>4. ASSUME NEW arg PROVE Fits(TidyShort(arg))
      <4>1. (TakesRest(arg) = Len(arg)) \in BOOLEAN
        OBVIOUS
      <4>2. Fits(TidyOption(argi + 1, TakesRest(arg) = Len(arg)))
        BY <3>3, <4>1
      <4> QED
        BY <1>2, <4>2 DEF TidyShort
    <3>5. ASSUME NEW text PROVE Fits(TidyLong(text))
      <4>1. (EqualIn(text) = 0) \in BOOLEAN
        OBVIOUS
      <4>2. Fits(TidyOption(argi + 1, EqualIn(text) = 0)) /\ Fits(TidyOption(argi + 1, FALSE))
        BY <3>3, <4>1
      <4> QED
        BY <1>2, <4>2 DEF TidyLong
    <3> QED
      BY <2>2, <3>4, <3>5 DEF MoveTidy
  <2> QED
    BY <2>1, <2>2
<1>5. Fits(MoveInclude)
  <2>1. CASE Len(Here) > 2
    <3>1. Fits(Sorted(<<Here>>, <<Here>>, 1))
      BY <1>1, <1>3, FewArguments DEF Fits, Sorted
    <3>2. Len(Here) # 2
      <4>1. \A a \in Arg : Len(a) \in Nat
        BY LenProperties DEF Arg
      <4>2. Here \in Arg
        BY <1>1
      <4>3. Len(Here) \in Nat
        BY <4>1, <4>2
      <4>4. \A n \in Nat : n > 2 => n # 2
        OBVIOUS
      <4> QED
        BY <2>1, <4>3, <4>4, Zenon
    <3> QED
      BY <2>1, <3>1, <3>2 DEF MoveInclude
  <2>2. CASE Len(Here) = 2 /\ argi < Len(argv) /\ ~IsDashed(Following)
    <3>1. argi + 2 <= Len(argv) + 1 /\ Following \in Arg
      BY <1>1, <2>2
    <3>2. <<Here, Following>> \in Seq(Arg) /\ Len(<<Here, Following>>) = 2
      BY <1>1, <3>1, FewArguments
    <3>3. Fits(Sorted(<<Here, Following>>, <<Here, Following>>, 2))
      BY <3>1, <3>2 DEF Fits, Sorted
    <3> QED
      BY <2>2, <3>3 DEF MoveInclude
  <2>3. CASE ~(Len(Here) > 2) /\ ~(Len(Here) = 2 /\ argi < Len(argv) /\ ~IsDashed(Following))
    BY <1>2, <2>3 DEF MoveInclude
  <2> QED
    BY <2>1, <2>2, <2>3
<1>6. ASSUME \E name \in LONG_INCLUDE_PATH_OPTIONS : IsIncludeOption(name)
      PROVE  Fits(MoveIncludeOption)
  <2> DEFINE name == CHOOSE name \in LONG_INCLUDE_PATH_OPTIONS : IsIncludeOption(name)
             rest == From(Here, Len(name) + 1)
             of(dir, kept) == IF dir = <<>> \/ dir[1] = "-" THEN Refused
                              ELSE Sorted(kept, <<<<"-", "I">> \o dir>>, Len(kept))
  <2>1. name \in LONG_INCLUDE_PATH_OPTIONS
    BY <1>6
  <2>2. Len(name) \in Nat
    <3>1. \A n \in LONG_INCLUDE_PATH_OPTIONS : Len(n) \in Nat
      BY DEF LONG_INCLUDE_PATH_OPTIONS
    <3> QED
      BY <2>1, <3>1
  <2> HIDE DEF name
  <2>3. rest \in Arg
    BY <1>1, <2>2, FromIs DEF Arg
  <2>4. ASSUME NEW dir \in Arg, NEW kept \in Seq(Arg), Len(kept) \in Nat \ {0},
               argi + Len(kept) <= Len(argv) + 1
        PROVE  Fits(of(dir, kept))
    <3>1. <<"-", "I">> \in Arg
      <4>1. "-" \in Token /\ "I" \in Token
        BY TokensAre
      <4> QED
        BY <4>1 DEF Arg
    <3>2. <<"-", "I">> \o dir \in Arg
      BY <3>1, ConcatProperties DEF Arg
    <3>3. <<<<"-", "I">> \o dir>> \in Seq(Arg)
      BY <3>2, FewArguments
    <3>4. Fits(Sorted(kept, <<<<"-", "I">> \o dir>>, Len(kept)))
      BY <2>4, <3>3 DEF Fits, Sorted
    <3> QED
      BY <1>2, <3>4
  <2>5. /\ <<Here>> \in Seq(Arg) /\ Len(<<Here>>) = 1 /\ Len(<<Here>>) \in Nat \ {0}
        /\ argi + Len(<<Here>>) <= Len(argv) + 1
    BY <1>1, <1>3, FewArguments
  <2>6. MoveIncludeOption =
          CASE rest = <<>> -> IF argi = Len(argv) THEN Refused
                              ELSE of(Following, <<Here, Following>>)
            [] rest # <<>> /\ rest[1] = "=" -> of(Tail(rest), <<Here>>)
            [] OTHER -> of(rest, <<Here>>)
    BY DEF MoveIncludeOption, name
  <2> HIDE DEF rest, of
  <2>8. CASE rest = <<>>
    <3>1. ASSUME argi # Len(argv) PROVE Fits(of(Following, <<Here, Following>>))
      <4>1. argi < Len(argv)
        <5>1. argi \in Nat /\ Len(argv) \in Nat /\ argi <= Len(argv)
          BY <1>1, <1>3
        <5> QED
          BY <3>1, <5>1
      <4>3. argi + 2 <= Len(argv) + 1 /\ Following \in Arg
        BY <1>1, <4>1
      <4>2. <<Here, Following>> \in Seq(Arg) /\ Len(<<Here, Following>>) = 2
        BY <1>1, <4>3, FewArguments
      <4>4. Len(<<Here, Following>>) \in Nat \ {0}
        BY <4>2
      <4> QED
        BY <2>4, <4>2, <4>3, <4>4
    <3> QED
      BY <1>2, <2>6, <2>8, <3>1
  <2>9. CASE rest # <<>> /\ rest[1] = "="
    <3>1. Tail(rest) \in Arg
      BY <2>3, <2>9, HeadTailProperties DEF Arg
    <3>2. Fits(of(Tail(rest), <<Here>>))
      BY <2>4, <2>5, <3>1
    <3> QED
      BY <2>6, <2>9, <3>2
  <2>10. CASE ~(rest = <<>>) /\ ~(rest # <<>> /\ rest[1] = "=")
    <3>1. Fits(of(rest, <<Here>>))
      BY <2>3, <2>4, <2>5
    <3> QED
      BY <2>6, <2>10, <3>1
  <2> QED
    BY <2>8, <2>9, <2>10
<1>7. Fits(Sorted(<<>>, <<Here>>, 1)) /\ Fits(Sorted(<<Here>>, <<>>, 1))
  BY <1>1, <1>3, FewArguments DEF Fits, Sorted
<1> QED
  BY <1>4, <1>5, <1>6, <1>7 DEF SortArgument

\* Those kept do not overtake those that are read.
LEMMA ArgumentsAreMoved ==
  ASSUME argv \in Seq(Arg), argi \in 1..Len(argv), new_argc \in 1..argi, NEW sorted,
         Fits(sorted), sorted # Refused
  PROVE  /\ Compacted(sorted.kept) \in Seq(Arg)
         /\ Len(Compacted(sorted.kept)) = Len(argv)
         /\ argi + sorted.read \in 1..(Len(argv) + 1)
         /\ new_argc + Len(sorted.kept) \in 1..(argi + sorted.read)
<1> DEFINE kept == sorted.kept
           n == Len(kept)
<1>1. /\ Len(argv) \in Nat /\ DOMAIN argv = 1..Len(argv)
      /\ \A i \in 1..Len(argv) : argv[i] \in Arg
  BY LenProperties, ElementOfSeq
<1>2. /\ kept \in Seq(Arg) /\ sorted.read \in Nat \ {0} /\ argi + sorted.read <= Len(argv) + 1
      /\ n <= sorted.read
  BY DEF Fits
<1>3. n \in Nat /\ \A i \in 1..n : kept[i] \in Arg
  BY <1>2, LenProperties, ElementOfSeq
<1> HIDE DEF kept, n
<1>4. ASSUME NEW i \in 1..Len(argv)
      PROVE  (IF i \in new_argc..new_argc + n - 1 THEN kept[i - new_argc + 1] ELSE argv[i]) \in Arg
  <2>1. new_argc \in Nat /\ i \in Nat
    OBVIOUS
  <2>2. i \in new_argc..new_argc + n - 1 => i - new_argc + 1 \in 1..n
    BY <1>3, <2>1
  <2> QED
    BY <1>1, <1>3, <2>2
<1>5. Compacted(kept) = [i \in 1..Len(argv) |-> IF i \in new_argc..new_argc + n - 1
                                                THEN kept[i - new_argc + 1] ELSE argv[i]]
  BY <1>1 DEF Compacted, n
<1>6. Compacted(kept) \in Seq(Arg) /\ Len(Compacted(kept)) = Len(argv)
  BY <1>1, <1>4, <1>5
<1>7. argi \in Nat /\ new_argc \in Nat /\ 1 <= new_argc /\ new_argc <= argi
  BY <1>1
<1>8. argi + sorted.read \in 1..(Len(argv) + 1)
  BY <1>1, <1>2, <1>7
<1>9. new_argc + n \in 1..(argi + sorted.read)
  BY <1>2, <1>3, <1>7
<1> QED
  BY <1>6, <1>8, <1>9 DEF kept, n

\* What getopt_long() returns, and that it reads no more than there is.
Returns(parsed) ==
  \/ parsed = Invalid
  \/ /\ parsed.returned \in Seq(Given)
     /\ parsed.read \in Nat /\ argi + parsed.read <= Len(tidy_argv) + 1

LEMMA ValueReturns ==
  ASSUME tidy_argv \in Seq(Arg), argi \in 1..Len(tidy_argv), NEW before \in Seq(Given),
         NEW val \in Token \cup Letters, NEW attached \in Arg
  PROVE  Returns(WithValue(before, val, attached))
<1>1. /\ Len(tidy_argv) \in Nat /\ argi \in Nat /\ argi <= Len(tidy_argv)
      /\ \A i \in 1..Len(tidy_argv) : tidy_argv[i] \in Arg
  BY LenProperties, ElementOfSeq
<1>2. \A value \in Arg : Append(before, Opt(val, value)) \in Seq(Given)
  <2>1. \A value \in Arg : Opt(val, value) \in Given
    BY DEF Opt, Given
  <2> QED
    BY <2>1, AppendProperties
<1>3. CASE attached # <<>>
  <2>1. Append(before, Opt(val, attached)) \in Seq(Given)
    BY <1>2
  <2> QED
    BY <1>1, <1>3, <2>1 DEF WithValue, Returns, Parsed
<1>4. CASE attached = <<>> /\ argi # Len(tidy_argv)
  <2>1. argi < Len(tidy_argv) /\ argi + 1 \in 1..Len(tidy_argv)
    BY <1>1, <1>4
  <2>2. Append(before, Opt(val, Next1)) \in Seq(Given)
    BY <1>1, <1>2, <2>1 DEF Next1
  <2> QED
    BY <1>1, <1>4, <2>1, <2>2 DEF WithValue, Returns, Parsed
<1>5. CASE attached = <<>> /\ argi = Len(tidy_argv)
  BY <1>5 DEF WithValue, Returns
<1> QED
  BY <1>3, <1>4, <1>5

LEMMA ShortReturns ==
  ASSUME tidy_argv \in Seq(Arg), argi \in 1..Len(tidy_argv), NEW arg \in Arg, arg # <<>>
  PROVE  Returns(ShortOptions(arg))
<1> DEFINE n == Len(arg)
           rests == {k \in 2..Len(arg) : arg[k] \in ArgLetters} \cup {Len(arg) + 1}
           ends == {TakesRest(arg)} \cup {k \in 2..Len(arg) : arg[k] = "I"}
           takes == Min(ends)
           flags == [k \in 1..takes - 2 |-> Opt(arg[k + 1], <<>>)]
<1>1. n \in Nat \ {0} /\ \A i \in 1..n : arg[i] \in Token
  BY EmptySeq, ElementOfSeq DEF Arg
<1>2. TakesRest(arg) \in 2..(n + 1)
  <2>1. rests \in SUBSET (2..(n + 1)) /\ rests # {}
    BY <1>1
  <2>2. rests \in SUBSET Nat
    BY <1>1, <2>1
  <2>3. Min(rests) \in rests
    BY <2>1, <2>2, LeastIs
  <2> QED
    BY <2>1, <2>3 DEF TakesRest
<1>3. takes \in 2..(n + 1)
  <2>1. ends \in SUBSET (2..(n + 1)) /\ ends # {}
    BY <1>1, <1>2
  <2>2. ends \in SUBSET Nat
    BY <1>1, <2>1
  <2>3. Min(ends) \in ends
    BY <2>1, <2>2, LeastIs
  <2> QED
    BY <2>1, <2>3
<1>4. ShortOptions(arg) =
        IF \E k \in DOMAIN flags : flags[k].val \notin Letters THEN Invalid
        ELSE IF takes > Len(arg) THEN Parsed(flags, 1)
        ELSE WithValue(flags, arg[takes], From(arg, takes + 1))
  BY DEF ShortOptions
<1> HIDE DEF takes
<1>5. flags \in Seq(Given)
  <2>1. takes - 2 \in Nat
    BY <1>1, <1>3
  <2>2. <<>> \in Arg
    BY EmptySeq DEF Arg
  <2>3. ASSUME NEW k \in 1..takes - 2 PROVE Opt(arg[k + 1], <<>>) \in Given
    <3>1. k + 1 \in 1..n
      BY <1>1, <1>3
    <3> QED
      BY <1>1, <2>2, <3>1 DEF Opt, Given
  <2> QED
    BY <2>1, <2>3
<1> HIDE DEF flags
<1>6. Returns(Parsed(flags, 1))
  <2>1. argi + 1 <= Len(tidy_argv) + 1
    BY LenProperties
  <2> QED
    BY <1>5, <2>1 DEF Returns, Parsed
<1>7. ASSUME ~(takes > Len(arg)) PROVE Returns(WithValue(flags, arg[takes], From(arg, takes + 1)))
  <2>1. takes \in 1..n /\ takes + 1 \in Nat \ {0}
    BY <1>1, <1>3, <1>7
  <2>2. From(arg, takes + 1) \in Arg /\ arg[takes] \in Token
    BY <1>1, <2>1, FromIs DEF Arg
  <2> QED
    BY <1>5, <2>2, ValueReturns
<1>8. Returns(Invalid)
  BY DEF Returns
<1> QED
  BY <1>4, <1>6, <1>7, <1>8

LEMMA LongReturns ==
  ASSUME tidy_argv \in Seq(Arg), argi \in 1..Len(tidy_argv), NEW text \in Arg
  PROVE  Returns(LongOption(text))
<1> DEFINE meant == {i \in DOMAIN OPTIONS : IsPrefix(LongName(text), OPTIONS[i].name)}
           option == OPTIONS[CHOOSE i \in meant : TRUE]
           equal == EqualIn(text)
<1>1. LongOption(text) =
        IF Cardinality(meant) # 1 \/ (~option.has_arg /\ equal # 0) THEN Invalid
        ELSE IF ~option.has_arg THEN Parsed(<<Opt(option.val, <<>>)>>, 1)
        ELSE WithValue(<<>>, option.val, IF equal = 0 THEN <<>> ELSE From(text, equal + 1))
  BY DEF LongOption
<1>2. <<>> \in Arg /\ <<>> \in Seq(Given)
  BY EmptySeq DEF Arg
<1>3. equal \in Nat
  <2> DEFINE at == {i \in 1..Len(text) : text[i] = "="}
  <2>1. equal = IF at # {} THEN Min(at) ELSE 0
    BY DEF EqualIn, SelectInSeq
  <2>2. at \in SUBSET Nat
    OBVIOUS
  <2> HIDE DEF at
  <2>3. at # {} => Min(at) \in Nat
    BY <2>2, LeastIs
  <2> HIDE DEF equal
  <2> QED
    BY <2>1, <2>3
<1> HIDE DEF equal
<1>4. (IF equal = 0 THEN <<>> ELSE From(text, equal + 1)) \in Arg
  BY <1>2, <1>3, FromIs DEF Arg
<1>5. ASSUME Cardinality(meant) = 1 PROVE option.val \in Letters
  <2>1. meant # {}
    <3> HIDE DEF meant
    <3> QED
      BY <1>5, FS_EmptySet
  <2>2. (CHOOSE i \in meant : TRUE) \in DOMAIN OPTIONS
    BY <2>1
  <2> HIDE DEF meant
  <2> QED
    BY <2>2 DEF Letters
<1> HIDE DEF option, meant
<1>6. ASSUME Cardinality(meant) = 1
      PROVE  /\ Returns(Parsed(<<Opt(option.val, <<>>)>>, 1))
             /\ Returns(WithValue(<<>>, option.val, IF equal = 0 THEN <<>> ELSE From(text, equal + 1)))
  <2>1. option.val \in Token \cup Letters
    BY <1>5, <1>6
  <2>2. Opt(option.val, <<>>) \in Given
    BY <1>2, <2>1 DEF Opt, Given
  <2>3. <<Opt(option.val, <<>>)>> \in Seq(Given)
    BY <2>2
  <2>4. argi + 1 <= Len(tidy_argv) + 1
    BY LenProperties
  <2>5. Returns(Parsed(<<Opt(option.val, <<>>)>>, 1))
    BY <2>3, <2>4 DEF Returns, Parsed
  <2> QED
    BY <1>2, <1>4, <2>1, <2>5, ValueReturns
<1>7. Returns(Invalid)
  BY DEF Returns
<1> QED
  BY <1>1, <1>6, <1>7

LEMMA OptionReturns ==
  ASSUME tidy_argv \in Seq(Arg), argi \in 1..Len(tidy_argv), IsDashed(tidy_argv[argi])
  PROVE  Returns(getopt_long)
<1>1. tidy_argv[argi] \in Arg /\ tidy_argv[argi] # <<>>
  BY ElementOfSeq DEF IsDashed
<1>2. \A arg \in Arg : From(arg, 3) \in Arg
  BY FromIs DEF Arg
<1> QED
  BY <1>1, <1>2, ShortReturns, LongReturns DEF getopt_long

\* The values of an option are arguments.
Valuing(iter, val, r) ==
  iter = [s \in SUBSET DOMAIN r |->
            IF s = {} THEN <<>>
            ELSE IF r[Max(s)].val = val THEN Append(iter[s \ {Max(s)}], r[Max(s)].value)
                 ELSE iter[s \ {Max(s)}]]

LEMMA ValuesAreFold ==
  ASSUME NEW val
  PROVE  ValuesOf(val) = (CHOOSE iter : Valuing(iter, val, opts))[DOMAIN opts]
  BY DEF ValuesOf, FoldLeft, MapThenFoldSet, Valuing

LEMMA ValuesAreArguments ==
  ASSUME NEW val, opts \in Seq(Given)
  PROVE  ValuesOf(val) \in Seq(Arg)
<1> DEFINE V == Seq(Arg)
           more(values, o) == IF o.val = val THEN Append(values, o.value) ELSE values
           F == [p \in V \X Given |-> more(p[1], p[2])]
           iter == CHOOSE f : Valuing(f, val, opts)
<1>1. /\ F \in [V \X Given -> V]
      /\ \A n \in V : \A o \in Given : F[<<n, o>>] = more(n, o)
  <2>1. ASSUME NEW n \in V, NEW o \in Given PROVE more(n, o) \in V
    <3>1. o.value \in Arg
      BY DEF Given
    <3> QED
      BY <3>1, AppendProperties
  <2> HIDE DEF more, V
  <2> QED
    BY <2>1
<1>2. <<>> \in V
  BY EmptySeq
<1> HIDE DEF F, V
<1>3. \A s \in SUBSET DOMAIN opts : s # {} => Max(s) \in DOMAIN opts /\ opts[Max(s)] \in Given
  BY LastOfSome
<1>4. \E f : Valuing(f, val, opts)
  <2>1. PICK f \in [SUBSET DOMAIN opts -> V] : FoldsBy(f, F, <<>>, opts)
    BY <1>1, <1>2, FoldExists
  <2>2. \A s \in SUBSET DOMAIN opts :
          s # {} => f[s] = more(f[s \ {Max(s)}], opts[Max(s)])
    <3> HIDE DEF more
    <3> QED
      BY <1>1, <1>3, <2>1 DEF FoldsBy
  <2>3. Valuing(f, val, opts)
    BY <2>1, <2>2 DEF FoldsBy, Valuing
  <2> QED
    BY <2>3
<1>5. Valuing(iter, val, opts)
  BY <1>4
<1>6. ValuesOf(val) = iter[DOMAIN opts]
  BY ValuesAreFold
<1> HIDE DEF iter
<1>7. /\ iter[{}] = <<>>
      /\ \A s \in SUBSET DOMAIN opts : s # {} => iter[s] = more(iter[s \ {Max(s)}], opts[Max(s)])
  BY <1>5 DEF Valuing
<1> HIDE DEF more
<1>8. Follows(iter, V, F, <<>>, opts)
  BY <1>1, <1>3, <1>7 DEF Follows
<1>9. iter[DOMAIN opts] \in V
  BY <1>1, <1>2, <1>8, FollowingRuns
<1> QED
  BY <1>6, <1>9 DEF V

\* Every argument is a path.
ArgumentsArePaths == \A arg \in Arg : PathOf(arg) \in PathType

LEMMA DirectoriesArePaths ==
  ASSUME ArgumentsArePaths, source_path \in Arg, opts \in Seq(Given)
  PROVE  source_dir \in PathType /\ include_paths \in Seq(PathType)
<1>1. ASSUME NEW path \in PathType PROVE path_dirname(path) \in PathType
  <2>1. path.abs \in BOOLEAN /\ path.comps \in Seq(Component)
    BY DEF PathType
  <2>2. Len(path.comps) > 1 => Front(path.comps) \in Seq(Component)
    <3>1. Len(<<>>) = 0
      OBVIOUS
    <3>2. Len(path.comps) > 1 => path.comps # <<>>
      BY <3>1
    <3> QED
      BY <2>1, <3>2, LastIsAppended
  <2>3. <<>> \in Seq(Component) /\ <<".">> \in Seq(Component)
    <3>1. "." \in Component
      BY FileSystemAssumption
    <3> QED
      BY <3>1
  <2> QED
    BY <2>1, <2>2, <2>3 DEF path_dirname, Path, PathType
<1>2. source_dir \in PathType
  BY <1>1 DEF source_dir, ArgumentsArePaths
<1>3. ValuesOf("I") \in Seq(Arg)
  BY ValuesAreArguments
<1> DEFINE n == Len(ValuesOf("I"))
           given == [i \in 1..n |-> PathOf(ValuesOf("I")[i])]
<1>4. /\ n \in Nat /\ DOMAIN ValuesOf("I") = 1..n
      /\ \A i \in 1..n : ValuesOf("I")[i] \in Arg
  BY <1>3, LenProperties, ElementOfSeq
<1>5. \A i \in 1..n : PathOf(ValuesOf("I")[i]) \in PathType
  BY <1>4 DEF ArgumentsArePaths
<1>6. given \in Seq(PathType)
  <2> HIDE DEF n
  <2> QED
    BY <1>4, <1>5
<1>7. <<source_dir>> \in Seq(PathType)
  BY <1>2
<1>8. include_paths = <<source_dir>> \o given
  BY <1>4 DEF include_paths
<1> HIDE DEF given
<1> QED
  BY <1>2, <1>6, <1>7, <1>8, ConcatProperties

-----------------------------------------------------------------------------
(* The program *)

TypeOK ==
  /\ line \in CommandLine /\ cwd \in Dirs /\ ipaths \in Seq(Dirs)
  /\ argv \in Seq(Arg) /\ tidy_argv \in Seq(Arg) /\ source_path \in Arg
  /\ opts \in Seq(Given)
  /\ pc = "scan" => argi = 1 /\ new_argc = 1
  /\ pc = "move" => argi \in 1..(Len(argv) + 1) /\ new_argc \in 1..argi
  /\ pc = "getopt" => argi \in 1..(Len(tidy_argv) + 1)

LEMMA InitTypes ==
  ASSUME CliInit
  PROVE  TypeOK
<1>1. line \in CommandLine /\ argv = line.argv /\ cwd = line.cwd
  BY DEF CliInit
<1>2. <<>> \in Seq(Arg) /\ <<>> \in Arg /\ <<>> \in Seq(Given) /\ <<>> \in Seq(Dirs)
  BY EmptySeq DEF Arg
<1> QED
  BY <1>1, <1>2, TokensAre DEF CliInit, TypeOK

LEMMA ScanTypes ==
  ASSUME TypeOK, Scan
  PROVE  TypeOK'
<1>1. CASE exit("EX_USAGE") \/ exit("EX_UNAVAILABLE")
  BY <1>1 DEF TypeOK, exit, pathVars
<1>2. CASE ~(exit("EX_USAGE") \/ exit("EX_UNAVAILABLE"))
  <2>1. /\ pc' = "move" /\ argv' \in {argv_add_include_paths, argv}
        /\ source_path' = get_source_path
        /\ UNCHANGED <<pathVars, tidy_argv, argi, new_argc, line, opts>>
    BY <1>2 DEF Scan
  <2>2. argv' \in Seq(Arg) /\ source_path' \in Arg
    BY <2>1, SourceIsArgument, PathsAreAdded DEF TypeOK
  <2>3. argi = 1 /\ new_argc = 1
    BY DEF TypeOK, Scan
  <2>4. Len(argv') \in Nat
    BY <2>2, LenProperties
  <2> QED
    BY <2>1, <2>2, <2>3, <2>4 DEF TypeOK, pathVars
<1> QED
  BY <1>1, <1>2

LEMMA MoveTypes ==
  ASSUME TypeOK, MoveArgument
  PROVE  TypeOK'
<1>1. argv \in Seq(Arg) /\ argi \in 1..Len(argv) /\ new_argc \in 1..argi
  BY LenProperties DEF TypeOK, MoveArgument
<1>2. Fits(SortArgument)
  BY <1>1, ArgumentFits
<1>3. CASE SortArgument = Refused
  BY <1>3 DEF TypeOK, MoveArgument, exit, pathVars
<1>4. CASE SortArgument # Refused
  <2> DEFINE sorted == SortArgument
  <2>1. /\ argv' = Compacted(sorted.kept) /\ new_argc' = new_argc + Len(sorted.kept)
        /\ tidy_argv' = tidy_argv \o sorted.tidied /\ argi' = argi + sorted.read
        /\ UNCHANGED <<pathVars, pc, source_path, source_lang, line, opts>> /\ pc = "move"
    BY <1>4 DEF MoveArgument
  <2>2. sorted # Refused /\ Fits(sorted) /\ sorted.tidied \in Seq(Arg)
    BY <1>2, <1>4 DEF Fits
  <2> HIDE DEF sorted
  <2>3. /\ argv' \in Seq(Arg) /\ argi' \in 1..(Len(argv') + 1) /\ new_argc' \in 1..argi'
    BY <1>1, <2>1, <2>2, ArgumentsAreMoved
  <2>4. tidy_argv' \in Seq(Arg)
    BY <2>1, <2>2, ConcatProperties DEF TypeOK
  <2> QED
    BY <2>1, <2>3, <2>4 DEF TypeOK, pathVars
<1> QED
  BY <1>3, <1>4

LEMMA OptionTypes ==
  ASSUME TypeOK, ParseOption
  PROVE  TypeOK'
<1>1. /\ tidy_argv \in Seq(Arg) /\ argi \in 1..Len(tidy_argv) /\ IsDashed(tidy_argv[argi])
      /\ Len(tidy_argv) \in Nat /\ opts \in Seq(Given)
  BY LenProperties DEF TypeOK, ParseOption
<1>2. Returns(getopt_long)
  BY <1>1, OptionReturns
<1>3. CASE getopt_long = Invalid
  BY <1>3 DEF TypeOK, ParseOption, exit, pathVars
<1>4. CASE getopt_long # Invalid
  <2> DEFINE parsed == getopt_long
  <2>1. /\ opts' = opts \o parsed.returned /\ argi' = argi + parsed.read
        /\ UNCHANGED <<pathVars, pc, argv, tidy_argv, source_path, line>> /\ pc = "getopt"
    BY <1>4 DEF ParseOption
  <2>2. /\ parsed.returned \in Seq(Given)
        /\ parsed.read \in Nat /\ argi + parsed.read <= Len(tidy_argv) + 1
    BY <1>2, <1>4 DEF Returns
  <2> HIDE DEF parsed
  <2>3. opts' \in Seq(Given)
    BY <1>1, <2>1, <2>2, ConcatProperties
  <2>4. argi' \in 1..(Len(tidy_argv) + 1)
    BY <1>1, <2>1, <2>2
  <2> QED
    BY <2>1, <2>3, <2>4 DEF TypeOK, pathVars
<1> QED
  BY <1>3, <1>4

LEMMA NextTypes ==
  ASSUME ArgumentsArePaths, TypeOK, [CliNext]_cliVars
  PROVE  TypeOK'
<1>1. CASE Scan
  BY <1>1, ScanTypes
<1>2. CASE MoveArgument
  BY <1>2, MoveTypes
<1>3. CASE MoveDone
  <2>1. new_argc - 1 \in 0..Len(argv) /\ argv \in Seq(Arg) /\ Len(tidy_argv) \in Nat
    <3>1. /\ argv \in Seq(Arg) /\ tidy_argv \in Seq(Arg)
          /\ argi \in 1..(Len(argv) + 1) /\ new_argc \in 1..argi
      BY <1>3 DEF TypeOK, MoveDone
    <3>2. Len(argv) \in Nat /\ Len(tidy_argv) \in Nat
      BY <3>1, LenProperties
    <3> QED
      BY <3>1, <3>2
  <2>2. SubSeq(argv, 1, new_argc - 1) \in Seq(Arg)
    BY <2>1, PrefixOf
  <2>3. argv' \in Seq(Arg) /\ argi' = 1 /\ pc' = "getopt"
    BY <1>3, <2>2 DEF MoveDone
  <2> QED
    BY <1>3, <2>1, <2>3 DEF MoveDone, TypeOK, pathVars
<1>4. CASE ParseOption
  BY <1>4, OptionTypes
<1>5. CASE SkipOperand
  <2>1. Len(tidy_argv) \in Nat
    BY LenProperties DEF TypeOK
  <2> QED
    BY <1>5, <2>1 DEF SkipOperand, TypeOK, pathVars
<1>6. CASE CheckOptions
  <2>1. CASE \E status \in {"EX_USAGE", "EX_OK", "EX_IOERR"} : exit(status)
    BY <2>1 DEF exit, TypeOK, pathVars
  <2>2. CASE ~\E status \in {"EX_USAGE", "EX_OK", "EX_IOERR"} : exit(status)
    <3>1. /\ pc' = "paths" /\ cwd' = Directory /\ Directory \in Dirs
          /\ argv' = LIBCLANG_ARGS \o argv
          /\ UNCHANGED <<ipaths, tidy_argv, argi, new_argc, source_path, line, opts>>
      BY <1>6, <2>2 DEF CheckOptions
    <3>2. LIBCLANG_ARGS \in Seq(Arg)
      <4>1. /\ "-" \in Token /\ "D" \in Token /\ "include-tidy" \in Token
            /\ "Qunused-arguments" \in Token /\ "Wno-unknown-warning-option" \in Token
        BY TokensAre
      <4>2. /\ <<"-", "D", "include-tidy">> \in Arg /\ <<"-", "Qunused-arguments">> \in Arg
            /\ <<"-", "Wno-unknown-warning-option">> \in Arg
        BY <4>1 DEF Arg
      <4> QED
        BY <4>2 DEF LIBCLANG_ARGS
    <3>3. argv' \in Seq(Arg)
      BY <3>1, <3>2, ConcatProperties DEF TypeOK
    <3> QED
      BY <3>1, <3>3 DEF TypeOK
  <2> QED
    BY <2>1, <2>2
<1>7. CASE AddPaths
  <2>1. argv' \in Seq(Arg)
    <3>1. argv \in Seq(Arg) /\ argv' = SubSeq(argv, 1, Len(argv) - 1)
      BY <1>7 DEF TypeOK, AddPaths, Front
    <3>2. CASE Len(argv) = 0
      <4>1. argv' = <<>>
        BY <3>1, <3>2, SubSeqEmpty
      <4> QED
        BY <4>1, EmptySeq
    <3>3. CASE Len(argv) # 0
      <4>1. Len(argv) - 1 \in 0..Len(argv)
        BY <3>1, <3>3, LenProperties
      <4> QED
        BY <3>1, <4>1, PrefixOf
    <3> QED
      BY <3>2, <3>3
  <2>2. ipaths' \in Seq(Dirs)
    <3>1. include_paths \in Seq(PathType) /\ ipaths \in Seq(Dirs)
      BY DirectoriesArePaths DEF TypeOK
    <3>2. ipaths' = AddedTo(ipaths, include_paths)
      BY <1>7 DEF AddPaths, AddedTo
    <3> QED
      BY <3>1, <3>2, DirsAreAdded
  <2> QED
    BY <1>7, <2>1, <2>2 DEF AddPaths, TypeOK
<1>8. CASE FindConfig \/ NameHeader
  BY <1>8 DEF FindConfig, NameHeader, TypeOK, pathVars
<1>9. CASE UNCHANGED cliVars
  BY <1>9 DEF cliVars, pathVars, TypeOK
<1> QED
  BY <1>1, <1>2, <1>3, <1>4, <1>5, <1>6, <1>7, <1>8, <1>9 DEF CliNext

-----------------------------------------------------------------------------
(* The names of headers, step by step *)

\* Nothing is added before the options are checked, and no header is named before
\* the directories are known.
NothingEarly ==
  /\ pc \in {"scan", "move", "getopt", "paths"} => ipaths = <<>>
  /\ pc \in {"scan", "move", "getopt", "paths", "config", "include"} => header = NoPath

\* NamesAreFound, of a header and its name.
IsFoundBy(path, name) ==
  /\ ipath_find(name) \in Files
  /\ Cardinality(Holding(name)) = 1 => ipath_find(name) = realpath(path)
  /\ \A i \in Above(realpath(path)) : Len(name) <= Len(realpath(path)) - Len(ipaths[i])
EndsForAReason(path) ==
  IF path = NoPath THEN realpath(source_dir) \in {cwd, NotThere} ELSE Above(realpath(path)) = {}

WellNamed ==
  /\ pc \in {"config", "include"} => IsOrderOf(ipaths, include_paths)
  /\ pc = "named" => IsFoundBy(header, include_name.comps)
  /\ pc = "abort" => EndsForAReason(header)

CliInv == TypeOK /\ NothingEarly /\ WellNamed

LEMMA WellNamedAreFound ==
  ASSUME WellNamed
  PROVE  NamesAreFound
<1>1. IsInOrder <=> IsOrderOf(ipaths, include_paths)
  BY DEF IsInOrder, IsOrderOf
<1> QED
  BY <1>1 DEF NamesAreFound, WellNamed, IsFoundBy, EndsForAReason

\* They stay what they are as long as what they depend on does.
LEMMA NothingElseCounts ==
  ASSUME UNCHANGED <<cwd, source_path, opts>>
  PROVE  /\ IsOrderOf(ipaths, include_paths)' <=> IsOrderOf(ipaths', include_paths)
         /\ UNCHANGED ipaths =>
              /\ IsFoundBy(header, include_name.comps)' <=> IsFoundBy(header', include_name'.comps)
              /\ EndsForAReason(header)' <=> EndsForAReason(header')
<1>1. include_paths' = include_paths /\ source_dir' = source_dir
  <2>1. source_dir' = source_dir
    BY DEF source_dir
  <2>2. ValuesOf("I")' = ValuesOf("I")
    BY DEF ValuesOf, FoldLeft, MapThenFoldSet
  <2> QED
    BY <2>1, <2>2 DEF include_paths
<1>2. IsOrderOf(ipaths, include_paths)' <=> IsOrderOf(ipaths', include_paths)
  BY <1>1 DEF IsOrderOf, realpath
<1>3. UNCHANGED ipaths =>
        (IsFoundBy(header, include_name.comps)' <=> IsFoundBy(header', include_name'.comps))
  BY DEF IsFoundBy, ipath_find, Holding, Above, realpath
<1>4. UNCHANGED ipaths => (EndsForAReason(header)' <=> EndsForAReason(header'))
  BY <1>1 DEF EndsForAReason, Above, realpath
<1> QED
  BY <1>2, <1>3, <1>4

LEMMA NamedWell ==
  ASSUME LinksLieBeside, FilesHaveOwnNames, ArgumentsArePaths, TypeOK, NameHeader
  PROVE  /\ pc' = "named" => IsFoundBy(header', include_name'.comps)
         /\ pc' = "abort" => EndsForAReason(header')
         /\ pc' \in {"named", "abort"}
<1>1. PICK path \in Included :
        /\ header' = path /\ include_name' = tidy_File_getRelativePath(path)
        /\ pc' = IF include_name'.abs THEN "abort" ELSE "named"
  BY DEF NameHeader
<1>2. include_paths \in Seq(PathType)
  BY DirectoriesArePaths DEF TypeOK
<1>3. path \in PathType /\ path # NoPath /\ realpath(path) \in Files
  <2>1. PICK dir \in Range(include_paths), name \in Name : path = Path(dir.abs, dir.comps \o name)
    BY DEF Included
  <2>2. dir \in PathType
    <3>1. \A i \in DOMAIN include_paths : include_paths[i] \in PathType
      BY <1>2, LenProperties, ElementOfSeq
    <3> QED
      BY <3>1 DEF Range
  <2>3. dir.abs \in BOOLEAN /\ dir.comps \in Seq(Component) /\ name \in Seq(Component) \ {<<>>}
    BY <2>2, TokensAre DEF PathType
  <2>4. dir.comps \o name \in Seq(Component) /\ dir.comps \o name # <<>>
    BY <2>3, ConcatProperties, ConcatEqualIffEmpty
  <2>5. path \in PathType /\ path # NoPath
    BY <2>1, <2>3, <2>4 DEF PathType, Path, NoPath
  <2> QED
    BY <2>5 DEF Included
<1>4. cwd \in Dirs /\ ipaths \in Seq(Dirs)
  BY DEF TypeOK
<1>5. /\ include_name'.abs => Above(realpath(path)) = {}
      /\ ~include_name'.abs =>
           /\ ipath_find(include_name'.comps) \in Files
           /\ Cardinality(Holding(include_name'.comps)) = 1 =>
                ipath_find(include_name'.comps) = realpath(path)
           /\ \A i \in Above(realpath(path)) :
                Len(include_name'.comps) <= Len(realpath(path)) - Len(ipaths[i])
  BY <1>1, <1>3, <1>4, HeaderIsNamed
<1>6. include_name'.abs => EndsForAReason(path)
  BY <1>3, <1>5 DEF EndsForAReason
<1>7. ~include_name'.abs => IsFoundBy(path, include_name'.comps)
  BY <1>5 DEF IsFoundBy
<1> QED
  BY <1>1, <1>6, <1>7

\* The program gives up on a source whose directory ends where it begins.
LEMMA ConfigFound ==
  ASSUME LinksLieBeside, ArgumentsArePaths, TypeOK, path_normalize(source_dir) = NoPath
  PROVE  EndsForAReason(NoPath)
<1>1. cwd \in Dirs /\ source_dir \in PathType
  BY DirectoriesArePaths DEF TypeOK
<1>2. realpath(NoPath) = cwd
  BY <1>1, PathLeads DEF NoPath
<1>3. CASE realpath(source_dir) # NotThere
  <2>1. realpath(path_normalize(source_dir)) = realpath(source_dir)
    BY <1>1, <1>3, NormalizedPathLeads
  <2> QED
    BY <1>2, <2>1 DEF EndsForAReason
<1> QED
  BY <1>3 DEF EndsForAReason

LEMMA ReadingNamesNothing ==
  ASSUME NothingEarly,
         pc \in {"scan", "move", "getopt"}, UNCHANGED <<ipaths, header>>,
         pc' \notin {"config", "include", "named", "abort"}
  PROVE  NothingEarly' /\ WellNamed'
  BY DEF NothingEarly, WellNamed

LEMMA NamesStep ==
  ASSUME LinksLieBeside, FilesHaveOwnNames, ArgumentsArePaths, CliInv, [CliNext]_cliVars
  PROVE  NothingEarly' /\ WellNamed'
<1>1. TypeOK /\ NothingEarly /\ WellNamed
  BY DEF CliInv
<1>2. CASE Scan
  <2>1. /\ pc = "scan" /\ UNCHANGED <<ipaths, header>>
        /\ pc' \in {"move", "EX_USAGE", "EX_UNAVAILABLE"}
    BY <1>2 DEF Scan, exit, pathVars
  <2> QED
    BY <1>1, <2>1, ReadingNamesNothing
<1>3. CASE MoveArgument \/ MoveDone
  <2>1. /\ pc = "move" /\ UNCHANGED <<ipaths, header>>
        /\ pc' \in {"move", "getopt", "EX_USAGE"}
    BY <1>3 DEF MoveArgument, MoveDone, exit, pathVars
  <2> QED
    BY <1>1, <2>1, ReadingNamesNothing
<1>4. CASE ParseOption \/ SkipOperand \/ CheckOptions
  <2>1. /\ pc = "getopt" /\ UNCHANGED <<ipaths, header>>
        /\ pc' \in {"getopt", "paths", "EX_USAGE", "EX_OK", "EX_IOERR"}
    BY <1>4 DEF ParseOption, SkipOperand, CheckOptions, exit, pathVars
  <2> QED
    BY <1>1, <2>1, ReadingNamesNothing
<1>5. CASE AddPaths
  <2>1. /\ pc = "paths" /\ pc' = "config" /\ UNCHANGED <<cwd, source_path, opts, header>>
        /\ ipaths' = AddedTo(ipaths, include_paths)
    BY <1>5 DEF AddPaths, AddedTo
  <2>2. ipaths = <<>> /\ header = NoPath
    BY <1>1, <2>1 DEF NothingEarly
  <2>3. include_paths \in Seq(PathType) /\ cwd \in Dirs
    BY <1>1, DirectoriesArePaths DEF TypeOK
  <2>4. IsOrderOf(ipaths', include_paths)
    BY <2>1, <2>2, <2>3, FirstInOrder
  <2>5. IsOrderOf(ipaths, include_paths)'
    BY <2>1, <2>4, NothingElseCounts
  <2> QED
    BY <2>1, <2>2, <2>5 DEF NothingEarly, WellNamed
<1>6. CASE FindConfig
  <2>1. /\ pc = "config" /\ UNCHANGED <<cwd, ipaths, source_path, opts, header>>
        /\ pc' = "include" \/ (pc' = "abort" /\ path_normalize(source_dir) = NoPath)
    BY <1>6 DEF FindConfig, pathVars
  <2>2. header = NoPath /\ IsOrderOf(ipaths, include_paths)
    BY <1>1, <2>1 DEF NothingEarly, WellNamed
  <2>3. IsOrderOf(ipaths, include_paths)'
    BY <2>1, <2>2, NothingElseCounts
  <2>4. pc' = "abort" => EndsForAReason(header')
    BY <1>1, <2>1, <2>2, ConfigFound
  <2>5. pc' = "abort" => EndsForAReason(header)'
    BY <2>1, <2>4, NothingElseCounts
  <2> QED
    BY <2>1, <2>2, <2>3, <2>5 DEF NothingEarly, WellNamed
<1>7. CASE NameHeader
  <2>1. UNCHANGED <<cwd, ipaths, source_path, opts>>
    BY <1>7 DEF NameHeader, pathVars
  <2>2. /\ pc' = "named" => IsFoundBy(header', include_name'.comps)
        /\ pc' = "abort" => EndsForAReason(header')
        /\ pc' \in {"named", "abort"}
    BY <1>1, <1>7, NamedWell
  <2>3. /\ pc' = "named" => IsFoundBy(header, include_name.comps)'
        /\ pc' = "abort" => EndsForAReason(header)'
    BY <2>1, <2>2, NothingElseCounts
  <2> QED
    BY <2>2, <2>3 DEF NothingEarly, WellNamed
<1>8. CASE UNCHANGED cliVars
  <2>1. UNCHANGED <<pc, cwd, ipaths, source_path, opts, header, include_name>>
    BY <1>8 DEF cliVars, pathVars
  <2>2. /\ IsOrderOf(ipaths, include_paths)' <=> IsOrderOf(ipaths, include_paths)
        /\ IsFoundBy(header, include_name.comps)' <=> IsFoundBy(header, include_name.comps)
        /\ EndsForAReason(header)' <=> EndsForAReason(header)
    BY <2>1, NothingElseCounts
  <2> QED
    BY <1>1, <2>1, <2>2 DEF NothingEarly, WellNamed
<1> QED
  BY <1>2, <1>3, <1>4, <1>5, <1>6, <1>7, <1>8 DEF CliNext

\* The arguments that are kept are never moved onto one that is not read yet, no
\* argument is read that is not there, and what libclang and include-tidy get are
\* arguments, whatever the line: cli_options.c, move_tidy_args() and
\* cli_options_init().
THEOREM ArgumentsAreMovedInPlace ==
  ASSUME ArgumentsArePaths
  PROVE  CliSpec => []TypeOK
<1>1. CliInit => TypeOK
  BY InitTypes
<1>2. TypeOK /\ [CliNext]_cliVars => TypeOK'
  BY NextTypes
<1> QED
  BY <1>1, <1>2, PTL DEF CliSpec

\* The directories headers are looked for in are those that were given, each once, in
\* the order they were first given; a header gets a name it is found by if only one of
\* them has a file of that name, and the shortest there is; and the program gives up
\* only on headers in no directory it knows and on a source whose directory ends where
\* it begins: whatever the files, the directories, the links and the line, as long as
\* links are beside what they lead to and no directory has the name of a file:
\* ipath.c, path_util.c, and cli_options_init() of cli_options.c.
THEOREM HeadersAreFound ==
  ASSUME LinksLieBeside, FilesHaveOwnNames, ArgumentsArePaths
  PROVE  CliSpec => []NamesAreFound
<1>1. CliInit => CliInv
  <2> SUFFICES ASSUME CliInit PROVE CliInv
    OBVIOUS
  <2>1. pc = "scan" /\ ipaths = <<>> /\ header = NoPath
    BY DEF CliInit
  <2> QED
    BY <2>1, InitTypes DEF CliInv, NothingEarly, WellNamed
<1>2. CliInv /\ [CliNext]_cliVars => CliInv'
  <2> SUFFICES ASSUME CliInv, [CliNext]_cliVars PROVE CliInv'
    OBVIOUS
  <2>1. TypeOK'
    BY NextTypes DEF CliInv
  <2> QED
    BY <2>1, NamesStep DEF CliInv
<1>3. CliInv => NamesAreFound
  BY WellNamedAreFound DEF CliInv
<1> QED
  BY <1>1, <1>2, <1>3, PTL DEF CliSpec
=============================================================================
