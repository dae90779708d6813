-------------------------- MODULE HashTable_proofs --------------------------
(***************************************************************************)
(* Proofs that the hash table keeps its chains whole, and that it is a set *)
(* to its callers, for every set of data, hash function and list of primes.*)
(***************************************************************************)
EXTENDS HashTable, FiniteSetTheorems, WellFoundedInduction, TLAPS

-----------------------------------------------------------------------------
(***************************************************************************)
(* The buckets of data.                                                    *)
(***************************************************************************)

\* An entry is in a bucket of the array that is meant.
LEMMA BucketType ==
  ASSUME NEW d \in Data, NEW p \in DOMAIN HT_PRIME
  PROVE  /\ BucketOf(d, p) \in BucketHead
         /\ BucketOf(d, p) \notin Data \cup {NoEntry}
         /\ BucketOf(d, p)[1] = p
         /\ BucketOf(d, p)[2] \in 0..(HT_PRIME[p] - 1)
<1>1. HT_PRIME[p] \in Nat \ {0} /\ Hash[d] \in Nat
  BY HashTableAssumption
<1>2. Hash[d] % HT_PRIME[p] \in 0..(HT_PRIME[p] - 1)
  BY <1>1
<1>3. <<p, Hash[d] % HT_PRIME[p]>> \in BucketHead
  BY <1>2 DEF BucketHead
<1> QED
  BY <1>2, <1>3, HeadAssumption DEF BucketOf

LEMMA HeadType ==
  ASSUME NEW p \in DOMAIN HT_PRIME, NEW b \in 0..(HT_PRIME[p] - 1)
  PROVE  <<p, b>> \in BucketHead /\ <<p, b>> \notin Data \cup {NoEntry}
BY HeadAssumption DEF BucketHead

\* A bucket is its array and its number.
LEMMA HeadOf ==
  ASSUME NEW h \in BucketHead
  PROVE  /\ h[1] \in DOMAIN HT_PRIME /\ h[2] \in 0..(HT_PRIME[h[1]] - 1)
         /\ h = <<h[1], h[2]>>
BY DEF BucketHead

LEMMA LeastPrime ==
  ASSUME NEW T \in SUBSET Nat, T # {}
  PROVE  \E x \in T : \A y \in T : x <= y
<1>1. PICK x \in T : \A y \in T : <<y, x>> \notin OpToRel(<, Nat)
  BY NatLessThanWellFounded, WFMin
<1>2. \A y \in T : <<y, x>> \in OpToRel(<, Nat) <=> y < x
  BY DEF OpToRel
<1>3. \A y \in T : ~(y < x)
  BY <1>1, <1>2, Zenon
<1> QED
  BY <1>3

-----------------------------------------------------------------------------
(***************************************************************************)
(* The inductive invariant.                                                *)
(***************************************************************************)

Links ==
  /\ next \in [Data \cup BucketHead -> Data \cup {NoEntry}]
  /\ prev \in [Data -> Data \cup BucketHead \cup {NoEntry}]

\* Who follows d in a chain comes back to it.
Backed(d) == next[d] # NoEntry => prev[next[d]] = d

\* The entries of A are in the chains of the array p, each in its own bucket's,
\* and nothing else is.
Chained(A, p) ==
  /\ \A d \in A :
       /\ prev[d] \in A \cup {BucketOf(d, p)}
       /\ prev[d] \in A => BucketOf(prev[d], p) = BucketOf(d, p)
       /\ next[prev[d]] = d
       /\ next[d] \in A \cup {NoEntry} /\ Backed(d)
  /\ \A h \in BucketHead : h[1] = p => next[h] \in A \cup {NoEntry} /\ Backed(h)

\* The entries of R wait in what is left of the array p: from ht_entry on in the
\* bucket ht_bucket, and in the buckets after it.
Waiting(R, p) ==
  /\ \A d \in R :
       /\ BucketOf(d, p)[2] >= ht_bucket
       /\ \/ d = ht_entry
          \/ /\ prev[d] = BucketOf(d, p) /\ next[prev[d]] = d
             /\ BucketOf(d, p)[2] > ht_bucket
          \/ /\ prev[d] \in R /\ next[prev[d]] = d
             /\ BucketOf(prev[d], p) = BucketOf(d, p)
       /\ next[d] \in R \cup {NoEntry} /\ Backed(d)
  /\ \A h \in BucketHead :
       h[1] = p /\ h[2] > ht_bucket =>
         /\ next[h] \in R \cup {NoEntry} /\ Backed(h)
         /\ next[h] # NoEntry => BucketOf(next[h], p) = h
  /\ ht_entry # NoEntry =>
       /\ ht_entry \in R /\ prev[ht_entry] \notin R
       /\ BucketOf(ht_entry, p)[2] = ht_bucket

\* There is no cycle: of any entries, one is not behind another of them.
Grounded == \A S \in SUBSET ht_allocated : S # {} => \E d \in S : prev[d] \notin S

\* No array but these is in use.
Unused(P) == \A h \in BucketHead : h[1] \notin P => next[h] = NoEntry

Quiet ==
  ht_pc \in {"idle", "find", "insert", "next"} =>
    /\ Chained(ht_allocated, prime_idx) /\ Unused({prime_idx})
    /\ ~buckets => ht_allocated = {}

\* What was looked at so far is not what is looked for.
Passed(P) ==
  /\ ht_arg \notin P
  /\ \A y \in P \cup {BucketOf(ht_arg, prime_idx)} : next[y] \in P \cup {ht_entry}

Looking ==
  ht_pc \in {"find", "insert"} =>
    /\ ht_arg \in Data
    /\ ht_entry \in ht_allocated \cup {NoEntry}
    /\ ht_pc = "insert" => buckets
    /\ buckets => \E P \in SUBSET ht_allocated : Passed(P)
    /\ ~buckets => ht_entry = NoEntry

Growing ==
  ht_pc = "grow" =>
    /\ buckets /\ ht_arg \in ht_allocated
    /\ prime_idx - 1 \in DOMAIN HT_PRIME /\ ht_bucket < old_n_buckets
    /\ Unused({prime_idx - 1, prime_idx})
    /\ \E M \in SUBSET ht_allocated :
         Chained(M, prime_idx) /\ Waiting(ht_allocated \ M, prime_idx - 1)

Cleaning ==
  ht_pc = "cleanup" =>
    /\ buckets /\ ht_bucket < n_buckets
    /\ Unused({prime_idx})
    /\ Waiting(ht_allocated, prime_idx)

Counted ==
  /\ IsFiniteSet(ht_allocated)
  /\ ht_pc # "cleanup" => ht_size = Cardinality(ht_allocated)

\* The iterator is in the chain of its bucket, and is off once the table changes.
Iterating ==
  /\ ht_pc = "next" => ht_iter.on
  /\ ht_iter.on =>
       /\ ht_pc \in {"idle", "find", "next"} /\ buckets
       /\ ht_iter.bucket_idx \in -1..(n_buckets - 1)
       /\ ht_iter.next # NoEntry =>
            /\ ht_iter.next \in ht_allocated
            /\ BucketOf(ht_iter.next, prime_idx)[2] = ht_iter.bucket_idx

HashInv ==
  /\ HashTableTypeOK
  /\ Grounded
  /\ Quiet /\ Looking /\ Growing /\ Cleaning
  /\ Counted /\ Iterating


-----------------------------------------------------------------------------
(***************************************************************************)
(* What linking an entry does to the pointers.                             *)
(***************************************************************************)

LEMMA NextLinked ==
  ASSUME Links, NEW d \in Data, NEW h \in BucketHead, next' = next_linked(d, h)
  PROVE  /\ next'[d] = next[h] /\ next'[h] = d
         /\ \A x \in (Data \cup BucketHead) \ {d, h} : next'[x] = next[x]
         /\ next' \in [Data \cup BucketHead -> Data \cup {NoEntry}]
BY HeadAssumption DEF Links, next_linked

LEMMA PrevLinked ==
  ASSUME Links, NEW d \in Data, NEW h \in BucketHead, prev' = prev_linked(d, h),
         next[h] # d
  PROVE  /\ prev'[d] = h
         /\ next[h] # NoEntry => prev'[next[h]] = d
         /\ \A x \in Data \ {d, next[h]} : prev'[x] = prev[x]
         /\ prev' \in [Data -> Data \cup BucketHead \cup {NoEntry}]
BY HeadAssumption DEF Links, prev_linked

\* An entry that is linked to its bucket joins the chain.
LEMMA LinkChained ==
  ASSUME Links, NEW A \in SUBSET Data, NEW p \in DOMAIN HT_PRIME, Chained(A, p),
         NEW d \in Data \ A,
         next' = next_linked(d, BucketOf(d, p)), prev' = prev_linked(d, BucketOf(d, p))
  PROVE  Chained(A \cup {d}, p)'
<1> DEFINE h == BucketOf(d, p)
<1>1. h \in BucketHead /\ h \notin Data /\ h[1] = p
  BY BucketType
<1>2. next[h] \in A \cup {NoEntry} /\ next[h] # d /\ Backed(h)
  BY <1>1, HashTableAssumption DEF Chained
<1>3. NoEntry \notin Data \cup BucketHead /\ Data \cap BucketHead = {}
  BY HashTableAssumption, HeadAssumption
<1>4. \A e \in Data : BucketOf(e, p) \in BucketHead
  BY BucketType
<1> HIDE DEF h
<1>5. /\ next'[d] = next[h] /\ next'[h] = d
      /\ \A x \in (Data \cup BucketHead) \ {d, h} : next'[x] = next[x]
  BY <1>1, NextLinked DEF h
<1>6. /\ prev'[d] = h
      /\ next[h] # NoEntry => prev'[next[h]] = d
      /\ \A x \in Data \ {d, next[h]} : prev'[x] = prev[x]
  BY <1>1, <1>2, PrevLinked DEF h
<1>7. \A x \in A : next[x] # NoEntry => next[x] # next[h]
  <2> SUFFICES ASSUME NEW x \in A, next[x] # NoEntry, next[x] = next[h] PROVE FALSE
    OBVIOUS
  <2>1. prev[next[x]] = x /\ prev[next[h]] = h
    BY <1>2 DEF Chained, Backed
  <2> QED
    BY <2>1, <1>1
<1>8. ASSUME NEW e \in A
      PROVE  /\ prev'[e] \in A \cup {d} \cup {BucketOf(e, p)}
             /\ prev'[e] \in A \cup {d} => BucketOf(prev'[e], p) = BucketOf(e, p)
             /\ next'[prev'[e]] = e
             /\ next'[e] \in A \cup {d} \cup {NoEntry} /\ Backed(e)'
  <2>1. next'[e] = next[e]
    BY <1>1, <1>5
  <2>2. CASE e = next[h]
    <3>1. prev[e] = h /\ h = BucketOf(e, p)
      BY <2>2, <1>1, <1>2, <1>3 DEF Chained, Backed
    <3>2. prev'[e] = d /\ next'[d] = e /\ BucketOf(d, p) = BucketOf(e, p)
      BY <2>2, <3>1, <1>3, <1>5, <1>6 DEF h
    <3>3. next[e] \in A \cup {NoEntry} /\ (next[e] # NoEntry => prev[next[e]] = e)
      BY DEF Chained, Backed
    <3>4. next[e] # NoEntry => next[e] \in Data \ {d, next[h]}
      BY <3>3, <1>7, <1>3
    <3>5. Backed(e)'
      BY <2>1, <3>3, <3>4, <1>6 DEF Backed
    <3> QED
      BY <2>1, <3>2, <3>3, <3>5
  <2>3. CASE e # next[h]
    <3>1. prev'[e] = prev[e] /\ prev[e] # h /\ prev[e] # d
      BY <2>3, <1>1, <1>3, <1>4, <1>6 DEF Chained
    <3>2. prev[e] \in (Data \cup BucketHead) \ {d, h}
      BY <3>1, <1>4 DEF Chained
    <3>3. next'[prev'[e]] = e
      BY <3>1, <3>2, <1>5 DEF Chained
    <3>4. Backed(e)'
      <4> SUFFICES ASSUME next'[e] # NoEntry PROVE prev'[next'[e]] = e
        BY DEF Backed
      <4>1. next[e] \in A /\ next[e] # next[h] /\ prev[next[e]] = e
        BY <2>1, <1>7 DEF Chained, Backed
      <4> QED
        BY <2>1, <4>1, <1>6
    <3> QED
      BY <2>1, <3>1, <3>3, <3>4 DEF Chained
  <2> QED
    BY <2>2, <2>3
<1>9. /\ prev'[d] = BucketOf(d, p) /\ prev'[d] \notin A \cup {d}
      /\ next'[prev'[d]] = d
      /\ next'[d] \in A \cup {NoEntry} /\ Backed(d)'
  BY <1>1, <1>2, <1>5, <1>6 DEF Backed, h
<1>10. ASSUME NEW g \in BucketHead, g[1] = p
       PROVE  next'[g] \in A \cup {d} \cup {NoEntry} /\ Backed(g)'
  <2>1. CASE g = h
    BY <2>1, <1>5, <1>6 DEF Backed
  <2>2. CASE g # h
    <3>1. next'[g] = next[g] /\ next[g] \in A \cup {NoEntry}
      BY <2>2, <1>3, <1>5, <1>10 DEF Chained
    <3>2. next[g] # NoEntry => next[g] # next[h] /\ prev[next[g]] = g
      BY <2>2, <1>2, <1>10 DEF Chained, Backed
    <3> QED
      BY <3>1, <3>2, <1>6 DEF Backed
  <2> QED
    BY <2>1, <2>2
<1> QED
  BY <1>8, <1>9, <1>10 DEF Chained

\* So it does not change who is behind whom otherwise.
LEMMA LinkGrounded ==
  ASSUME Links, Grounded, ht_allocated \subseteq Data, NEW d \in Data, NEW h \in BucketHead,
         next[h] # d, prev' = prev_linked(d, h), ht_allocated' \subseteq ht_allocated \cup {d}
  PROVE  Grounded'
<1>1. /\ prev'[d] = h /\ h \notin Data /\ NoEntry \notin Data
      /\ next[h] # NoEntry => prev'[next[h]] = d
      /\ \A x \in Data \ {d, next[h]} : prev'[x] = prev[x]
  BY PrevLinked, HeadAssumption, HashTableAssumption
<1> SUFFICES ASSUME NEW S \in SUBSET ht_allocated', S # {}, \A x \in S : prev'[x] \in S
             PROVE  FALSE
  BY DEF Grounded
<1>2. d \notin S
  BY <1>1
<1>3. next[h] \notin S
  BY <1>1, <1>2
<1>4. S \in SUBSET ht_allocated /\ \A x \in S : prev[x] = prev'[x]
  BY <1>1, <1>2, <1>3
<1> QED
  BY <1>4 DEF Grounded

LEMMA FewerGrounded ==
  ASSUME Grounded, ht_allocated' \subseteq ht_allocated,
         \A x \in ht_allocated' : prev'[x] = prev[x]
  PROVE  Grounded'
<1> SUFFICES ASSUME NEW S \in SUBSET ht_allocated', S # {}, \A x \in S : prev'[x] \in S
             PROVE  FALSE
  BY DEF Grounded
<1>1. S \in SUBSET ht_allocated /\ \A x \in S : prev[x] \in S
  OBVIOUS
<1> QED
  BY <1>1 DEF Grounded

-----------------------------------------------------------------------------
(***************************************************************************)
(* What unlinking an entry does to the pointers.                           *)
(***************************************************************************)

LEMMA Unlinked ==
  ASSUME Links, NEW d \in Data, next' = next_unlinked(d), prev' = prev_unlinked(d),
         next[d] # d, prev[d] # d, prev[d] # NoEntry
  PROVE  /\ next'[d] = NoEntry /\ prev'[d] = NoEntry
         /\ next'[prev[d]] = next[d]
         /\ next[d] # NoEntry => prev'[next[d]] = prev[d]
         /\ \A x \in (Data \cup BucketHead) \ {d, prev[d]} : next'[x] = next[x]
         /\ \A x \in Data \ {d, next[d]} : prev'[x] = prev[x]
BY HeadAssumption DEF Links, next_unlinked, prev_unlinked

LEMMA UnlinkChained ==
  ASSUME Links, NEW A \in SUBSET Data, NEW p \in DOMAIN HT_PRIME, Chained(A, p),
         NEW d \in A, prev[d] # d,
         next' = next_unlinked(d), prev' = prev_unlinked(d)
  PROVE  Chained(A \ {d}, p)'
<1>1. NoEntry \notin Data \cup BucketHead /\ Data \cap BucketHead = {}
  BY HashTableAssumption, HeadAssumption
<1>2. \A e \in A : BucketOf(e, p) \in BucketHead /\ BucketOf(e, p)[1] = p
  BY BucketType
<1>3. /\ prev[d] \in (A \cup {BucketOf(d, p)}) \ {d} /\ next[prev[d]] = d
      /\ prev[d] \in A => BucketOf(prev[d], p) = BucketOf(d, p)
      /\ next[d] \in A \cup {NoEntry} /\ Backed(d)
  BY DEF Chained
<1>4. next[d] # d
  BY <1>1, <1>3 DEF Backed
<1>5. /\ next'[prev[d]] = next[d]
      /\ next[d] # NoEntry => prev'[next[d]] = prev[d]
      /\ \A x \in (Data \cup BucketHead) \ {d, prev[d]} : next'[x] = next[x]
      /\ \A x \in Data \ {d, next[d]} : prev'[x] = prev[x]
  BY <1>1, <1>2, <1>3, <1>4, Unlinked
<1>6. ASSUME NEW x \in A \cup BucketHead, x # d, x \in BucketHead => x[1] = p
      PROVE  next'[x] \in (A \ {d}) \cup {NoEntry} /\ Backed(x)'
  <2>1. next[x] \in A \cup {NoEntry} /\ Backed(x)
    BY <1>6 DEF Chained
  <2>2. CASE x = prev[d]
    BY <2>2, <1>1, <1>3, <1>4, <1>5 DEF Backed
  <2>3. CASE x # prev[d]
    <3>1. next'[x] = next[x] /\ next[x] # d /\ (next[x] # NoEntry => prev[next[x]] = x)
      BY <2>1, <2>3, <1>1, <1>5, <1>6 DEF Backed
    <3>2. next[x] # NoEntry => next[x] # next[d]
      BY <3>1, <1>3, <1>6 DEF Backed
    <3> QED
      BY <2>1, <3>1, <3>2, <1>5 DEF Backed
  <2> QED
    BY <2>2, <2>3
<1>7. ASSUME NEW e \in A \ {d}
      PROVE  /\ prev'[e] \in (A \ {d}) \cup {BucketOf(e, p)}
             /\ prev'[e] \in A \ {d} => BucketOf(prev'[e], p) = BucketOf(e, p)
             /\ next'[prev'[e]] = e
  <2>1. /\ prev[e] \in A \cup {BucketOf(e, p)} /\ next[prev[e]] = e
        /\ prev[e] \in A => BucketOf(prev[e], p) = BucketOf(e, p)
    BY DEF Chained
  <2>2. CASE e = next[d]
    <3>1. prev[e] = d /\ BucketOf(e, p) = BucketOf(d, p) /\ prev'[e] = prev[d]
      BY <2>1, <2>2, <1>1, <1>3, <1>5 DEF Backed
    <3> QED
      BY <2>2, <3>1, <1>1, <1>2, <1>3, <1>5
  <2>3. CASE e # next[d]
    <3>1. prev'[e] = prev[e] /\ prev[e] # d /\ prev[e] # prev[d]
      BY <2>1, <2>3, <1>3, <1>5
    <3>2. prev[e] \in (Data \cup BucketHead) \ {d, prev[d]}
      BY <2>1, <3>1, <1>2
    <3> QED
      BY <2>1, <3>1, <3>2, <1>5
  <2> QED
    BY <2>2, <2>3
<1> QED
  BY <1>1, <1>6, <1>7 DEF Chained

LEMMA UnlinkGrounded ==
  ASSUME Links, Grounded, ht_allocated \subseteq Data, NEW d \in ht_allocated,
         prev[d] # NoEntry, next[d] # d, Backed(d), ht_allocated' = ht_allocated \ {d},
         next' = next_unlinked(d), prev' = prev_unlinked(d)
  PROVE  Grounded'
<1>1. prev[d] # d
  <2>1. {d} \in SUBSET ht_allocated /\ {d} # {}
    OBVIOUS
  <2> QED
    BY <2>1 DEF Grounded
<1>2. /\ next[d] # NoEntry => prev'[next[d]] = prev[d]
      /\ \A x \in Data \ {d, next[d]} : prev'[x] = prev[x]
  BY <1>1, Unlinked
<1> SUFFICES ASSUME NEW S \in SUBSET ht_allocated', S # {}, \A x \in S : prev'[x] \in S
             PROVE  FALSE
  BY DEF Grounded
<1> DEFINE T == IF next[d] \in S THEN S \cup {d} ELSE S
<1>3. T \in SUBSET ht_allocated /\ T # {}
  OBVIOUS
<1>4. \A x \in T : prev[x] \in T
  <2>1. CASE next[d] \in S
    <3>1. next[d] # NoEntry
      BY <2>1, HashTableAssumption
    <3>2. prev[next[d]] = d /\ prev[d] \in S
      BY <2>1, <3>1, <1>2 DEF Backed
    <3> QED
      BY <2>1, <3>2, <1>2
  <2>2. CASE next[d] \notin S
    BY <2>2, <1>2
  <2> QED
    BY <2>1, <2>2
<1> HIDE DEF T
<1> QED
  BY <1>3, <1>4 DEF Grounded

-----------------------------------------------------------------------------
(***************************************************************************)
(* The entries that wait for ht_table_grow() or ht_table_cleanup().        *)
(***************************************************************************)

\* When a loop over the array p starts, all of its entries wait.
LEMMA ChainedWaits ==
  ASSUME NEW A \in SUBSET Data, NEW p \in DOMAIN HT_PRIME, Chained(A, p)',
         ht_bucket' = 0, ht_entry' = next'[<<p, 0>>]
  PROVE  Waiting(A, p)'
<1>1. NoEntry \notin Data \cup BucketHead /\ Data \cap BucketHead = {}
  BY HashTableAssumption, HeadAssumption
<1>2. ASSUME NEW d \in A
      PROVE  /\ BucketOf(d, p) \in BucketHead /\ BucketOf(d, p)[1] = p
             /\ BucketOf(d, p)[2] \in Nat
             /\ BucketOf(d, p)[2] = 0 => BucketOf(d, p) = <<p, 0>>
  BY <1>2, BucketType, HeadOf
<1>3. <<p, 0>> \in BucketHead /\ <<p, 0>>[1] = p /\ <<p, 0>>[2] = 0
  <2>1. 0 \in 0..(HT_PRIME[p] - 1)
    BY HashTableAssumption
  <2> QED
    BY <2>1, HeadType
<1>4. ASSUME NEW h \in BucketHead, h[1] = p
      PROVE  /\ next'[h] \in A \cup {NoEntry} /\ Backed(h)'
             /\ next'[h] # NoEntry => BucketOf(next'[h], p) = h /\ prev'[next'[h]] \notin A
  BY <1>1, <1>4 DEF Chained, Backed
<1>5. ASSUME NEW d \in A
      PROVE  /\ BucketOf(d, p)[2] >= 0
             /\ \/ d = ht_entry'
                \/ /\ prev'[d] = BucketOf(d, p) /\ next'[prev'[d]] = d
                   /\ BucketOf(d, p)[2] > 0
                \/ /\ prev'[d] \in A /\ next'[prev'[d]] = d
                   /\ BucketOf(prev'[d], p) = BucketOf(d, p)
             /\ next'[d] \in A \cup {NoEntry} /\ Backed(d)'
  BY <1>2 DEF Chained
<1>6. ht_entry' # NoEntry =>
        /\ ht_entry' \in A /\ prev'[ht_entry'] \notin A
        /\ BucketOf(ht_entry', p)[2] = 0
  BY <1>3, <1>4
<1> QED
  BY <1>4, <1>5, <1>6 DEF Waiting

\* One is dealt with.
LEMMA WaitingShrinks ==
  ASSUME NEW R \in SUBSET Data, NEW p \in DOMAIN HT_PRIME, Waiting(R, p),
         NEW e, e = ht_entry, e # NoEntry,
         ht_bucket' = ht_bucket, ht_entry' = next[e], ht_bucket \in Nat,
         \A x \in R \ {e} : next'[x] = next[x] /\ prev'[x] = prev[x],
         \A h \in BucketHead : h[1] = p => next'[h] = next[h]
  PROVE  Waiting(R \ {e}, p)'
<1>1. NoEntry \notin Data \cup BucketHead /\ Data \cap BucketHead = {}
  BY HashTableAssumption, HeadAssumption
<1>2. e \in R /\ prev[e] \notin R /\ BucketOf(e, p)[2] = ht_bucket
      /\ next[e] \in R \cup {NoEntry} /\ Backed(e)
  BY DEF Waiting
<1>3. \A d \in R : /\ BucketOf(d, p) \in BucketHead /\ BucketOf(d, p)[1] = p
                   /\ BucketOf(d, p)[2] \in Nat
  BY BucketType
<1>4. ASSUME NEW d \in R \ {e}
      PROVE  /\ BucketOf(d, p)[2] >= ht_bucket
             /\ \/ d = next[e]
                \/ /\ prev'[d] = BucketOf(d, p) /\ next'[prev'[d]] = d
                   /\ BucketOf(d, p)[2] > ht_bucket
                \/ /\ prev'[d] \in R \ {e} /\ next'[prev'[d]] = d
                   /\ BucketOf(prev'[d], p) = BucketOf(d, p)
             /\ next'[d] \in (R \ {e}) \cup {NoEntry} /\ Backed(d)'
  <2>1. next[d] # e
    BY <1>1, <1>2 DEF Waiting, Backed
  <2> QED
    BY <2>1, <1>3 DEF Waiting, Backed
<1>5. ASSUME NEW h \in BucketHead, h[1] = p, h[2] > ht_bucket
      PROVE  /\ next'[h] \in (R \ {e}) \cup {NoEntry} /\ Backed(h)'
             /\ next'[h] # NoEntry => BucketOf(next'[h], p) = h
  <2>1. next[h] # e
    BY <1>2, <1>3, <1>5, <1>1 DEF Waiting
  <2> QED
    BY <2>1, <1>5 DEF Waiting, Backed
<1>6. next[e] # NoEntry =>
        /\ next[e] \in R \ {e} /\ prev'[next[e]] \notin R \ {e}
        /\ BucketOf(next[e], p)[2] = ht_bucket
  <2> SUFFICES ASSUME next[e] # NoEntry
               PROVE  /\ next[e] \in R \ {e} /\ prev'[next[e]] \notin R \ {e}
                      /\ BucketOf(next[e], p)[2] = ht_bucket
    OBVIOUS
  <2>1. prev[next[e]] = e /\ next[e] \in R
    BY <1>2 DEF Backed
  <2>2. next[e] # e
    BY <2>1, <1>2
  <2>3. BucketOf(next[e], p) = BucketOf(e, p)
    BY <2>1, <2>2, <1>1, <1>2, <1>3 DEF Waiting
  <2> QED
    BY <2>1, <2>2, <2>3, <1>2
<1> QED
  BY <1>4, <1>5, <1>6 DEF Waiting

\* At the end of a chain no entry waits in its bucket.
LEMMA BucketIsDone ==
  ASSUME Grounded, NEW R \in SUBSET ht_allocated, NEW p \in DOMAIN HT_PRIME,
         ht_allocated \subseteq Data, Waiting(R, p), ht_entry = NoEntry, ht_bucket \in Nat
  PROVE  \A d \in R : BucketOf(d, p)[2] > ht_bucket
<1> DEFINE S == {d \in R : ~(BucketOf(d, p)[2] > ht_bucket)}
<1>1. S \in SUBSET ht_allocated
  OBVIOUS
<1>2. \A d \in S : prev[d] \in S
  BY HashTableAssumption DEF Waiting
<1> HIDE DEF S
<1>3. S = {}
  BY <1>1, <1>2 DEF Grounded
<1> QED
  BY <1>3 DEF S

LEMMA WaitingNextBucket ==
  ASSUME Grounded, NEW R \in SUBSET ht_allocated, NEW p \in DOMAIN HT_PRIME,
         ht_allocated \subseteq Data, Waiting(R, p), ht_entry = NoEntry, ht_bucket \in Nat,
         ht_bucket + 1 < HT_PRIME[p], next' = next, prev' = prev,
         ht_bucket' = ht_bucket + 1, ht_entry' = next[<<p, ht_bucket + 1>>]
  PROVE  Waiting(R, p)'
<1>1. NoEntry \notin Data \cup BucketHead /\ Data \cap BucketHead = {}
  BY HashTableAssumption, HeadAssumption
<1>2. \A d \in R : /\ BucketOf(d, p) \in BucketHead /\ BucketOf(d, p)[1] = p
                   /\ BucketOf(d, p)[2] \in Nat
                   /\ BucketOf(d, p) = <<p, BucketOf(d, p)[2]>>
  BY BucketType, HeadOf
<1>3. \A d \in R : BucketOf(d, p)[2] >= ht_bucket + 1
  BY <1>2, BucketIsDone
<1> DEFINE h == <<p, ht_bucket + 1>>
<1>4. h \in BucketHead /\ h[1] = p /\ h[2] = ht_bucket + 1
  BY HashTableAssumption, HeadType
<1>5. \A d \in R : BucketOf(d, p)[2] = ht_bucket + 1 => BucketOf(d, p) = h
  BY <1>2
<1> HIDE DEF h
<1>6. ht_entry' = next[h]
  BY DEF h
<1>7. /\ next[h] \in R \cup {NoEntry}
      /\ next[h] # NoEntry => /\ prev[next[h]] = h /\ h \notin R
                              /\ BucketOf(next[h], p) = h
  BY <1>1, <1>4 DEF Waiting, Backed
<1>8. ASSUME NEW d \in R
      PROVE  \/ d = next[h]
             \/ /\ prev[d] = BucketOf(d, p) /\ next[prev[d]] = d
                /\ BucketOf(d, p)[2] > ht_bucket + 1
             \/ /\ prev[d] \in R /\ next[prev[d]] = d
                /\ BucketOf(prev[d], p) = BucketOf(d, p)
  BY <1>1, <1>2, <1>3, <1>5 DEF Waiting
<1>9. /\ \A d \in R : next[d] \in R \cup {NoEntry} /\ Backed(d)
      /\ \A g \in BucketHead :
           g[1] = p /\ g[2] > ht_bucket + 1 =>
             /\ next[g] \in R \cup {NoEntry} /\ Backed(g)
             /\ next[g] # NoEntry => BucketOf(next[g], p) = g
  BY HeadOf DEF Waiting
<1> QED
  BY <1>3, <1>4, <1>6, <1>7, <1>8, <1>9 DEF Waiting, Backed

\* And at the end of the array none at all.
LEMMA WaitingOver ==
  ASSUME Grounded, NEW R \in SUBSET ht_allocated, NEW p \in DOMAIN HT_PRIME,
         ht_allocated \subseteq Data, Waiting(R, p), ht_entry = NoEntry, ht_bucket \in Nat,
         ~(ht_bucket + 1 < HT_PRIME[p])
  PROVE  R = {}
<1>1. \A d \in R : BucketOf(d, p)[2] \in 0..(HT_PRIME[p] - 1) /\ HT_PRIME[p] \in Nat
  BY BucketType, HashTableAssumption
<1> QED
  BY <1>1, BucketIsDone

-----------------------------------------------------------------------------
(***************************************************************************)
(* What a search and the iterator can reach.                               *)
(***************************************************************************)

\* A set that follows a chain from its bucket on has all of the bucket's entries.
LEMMA AllReached ==
  ASSUME Grounded, ht_allocated \subseteq Data, NEW p \in DOMAIN HT_PRIME,
         Chained(ht_allocated, p), NEW d \in ht_allocated, NEW S,
         \A y \in S \cup {BucketOf(d, p)} : next[y] \in S \cup {NoEntry}
  PROVE  d \in S
<1> DEFINE T == {e \in ht_allocated : BucketOf(e, p) = BucketOf(d, p) /\ e \notin S}
<1>1. T \in SUBSET ht_allocated
  OBVIOUS
<1>2. \A e \in T : prev[e] \in T
  BY HashTableAssumption DEF Chained
<1> HIDE DEF T
<1>3. T = {}
  BY <1>1, <1>2 DEF Grounded
<1> QED
  BY <1>3 DEF T

\* First the successor, and then what can be reached from there.
LEMMA ReachedStep ==
  ASSUME Links, NEW x \in Data \cup BucketHead
  PROVE  Reached(x) = IF next[x] = NoEntry THEN {} ELSE {next[x]} \cup Reached(next[x])
<1>1. NoEntry \notin Data
  BY HashTableAssumption
<1>2. CASE next[x] = NoEntry
  <2>1. {} \in SUBSET Data /\ \A y \in {} \cup {x} : next[y] \in {} \cup {NoEntry}
    BY <1>2
  <2> QED
    BY <1>2, <2>1 DEF Reached
<1>3. CASE next[x] # NoEntry
  <2>1. next[x] \in Data
    BY <1>3 DEF Links
  <2>2. ASSUME NEW d \in Reached(x) PROVE d \in {next[x]} \cup Reached(next[x])
    <3>1. SUFFICES ASSUME NEW S \in SUBSET Data, d # next[x],
                          \A y \in S \cup {next[x]} : next[y] \in S \cup {NoEntry}
                   PROVE  d \in S
      BY DEF Reached
    <3> DEFINE U == S \cup {next[x]}
    <3>2. U \in SUBSET Data /\ \A y \in U \cup {x} : next[y] \in U \cup {NoEntry}
      BY <2>1, <3>1
    <3>3. d \in U
      BY <3>2 DEF Reached
    <3> QED
      BY <3>1, <3>3
  <2>3. ASSUME NEW d \in {next[x]} \cup Reached(next[x]) PROVE d \in Reached(x)
    <3>1. SUFFICES ASSUME NEW S \in SUBSET Data,
                          \A y \in S \cup {x} : next[y] \in S \cup {NoEntry}
                   PROVE  d \in S
      BY <2>1 DEF Reached
    <3>2. next[x] \in S
      BY <1>3, <3>1
    <3>3. \A y \in S \cup {next[x]} : next[y] \in S \cup {NoEntry}
      BY <3>1, <3>2
    <3> QED
      BY <3>2, <3>3 DEF Reached
  <2> QED
    BY <1>3, <2>2, <2>3
<1> QED
  BY <1>2, <1>3

\* From a bucket, its entries.
LEMMA ReachedFromHead ==
  ASSUME Grounded, Links, ht_allocated \subseteq Data, NEW p \in DOMAIN HT_PRIME,
         Chained(ht_allocated, p), NEW h \in BucketHead, h[1] = p
  PROVE  Reached(h) = {d \in ht_allocated : BucketOf(d, p) = h}
<1> DEFINE S == {d \in ht_allocated : BucketOf(d, p) = h}
<1>1. NoEntry \notin Data \cup BucketHead /\ Data \cap BucketHead = {}
  BY HashTableAssumption, HeadAssumption
<1>2. S \in SUBSET Data /\ \A y \in S \cup {h} : next[y] \in S \cup {NoEntry}
  BY <1>1, BucketType DEF Chained, Backed
<1>3. Reached(h) \subseteq S
  <2> HIDE DEF S
  <2> QED
    BY <1>2 DEF Reached
<1>4. ASSUME NEW d \in S PROVE d \in Reached(h)
  <2>1. d \in ht_allocated /\ BucketOf(d, p) = h
    OBVIOUS
  <2> QED
    BY <2>1, AllReached DEF Reached
<1> QED
  BY <1>3, <1>4

\* Nothing comes twice.
LEMMA NotReachedAgain ==
  ASSUME Grounded, Links, ht_allocated \subseteq Data, NEW p \in DOMAIN HT_PRIME,
         Chained(ht_allocated, p), NEW d \in ht_allocated
  PROVE  d \notin Reached(d) /\ \A e \in Reached(d) : BucketOf(e, p) = BucketOf(d, p)
<1>1. NoEntry \notin Data \cup BucketHead /\ Data \cap BucketHead = {}
  BY HashTableAssumption, HeadAssumption
<1> DEFINE R == Reached(d)
           S == {e \in ht_allocated :
                   /\ e \in R /\ prev[e] \in R \cup {d}
                   /\ BucketOf(e, p) = BucketOf(d, p)}
<1>2. R \subseteq Data /\ \A y \in R \cup {d} : next[y] \in R \cup {NoEntry}
  BY ReachedStep DEF Links, Reached
<1>3. S \in SUBSET Data /\ \A y \in S \cup {d} : next[y] \in S \cup {NoEntry}
  <2> HIDE DEF R
  <2> QED
    BY <1>1, <1>2 DEF Chained, Backed
<1>4. R \subseteq S
  <2> HIDE DEF S
  <2> QED
    BY <1>3 DEF Reached
<1> HIDE DEF R
<1>5. ASSUME d \in R PROVE FALSE
  <2>1. R \in SUBSET ht_allocated /\ \A e \in R : prev[e] \in R
    BY <1>4, <1>5
  <2> QED
    BY <2>1, <1>5 DEF Grounded
<1> QED
  BY <1>4, <1>5 DEF R

-----------------------------------------------------------------------------
(***************************************************************************)
(* Every step keeps the invariant: first those of calls that leave the     *)
(* table alone.                                                            *)
(***************************************************************************)

LEMMA InvTypes ==
  ASSUME HashInv
  PROVE  /\ Links /\ ht_allocated \subseteq Data
         /\ prime_idx \in DOMAIN HT_PRIME /\ n_buckets \in Nat \ {0}
         /\ NoEntry \notin Data \cup BucketHead /\ Data \cap BucketHead = {}
BY HashTableAssumption, HeadAssumption DEF HashInv, HashTableTypeOK, Links, n_buckets

IteratorType == [on : BOOLEAN, bucket_idx : Int, next : Data \cup {NoEntry}]
ResultType == [node : Data \cup {NoEntry}, inserted : BOOLEAN]

LEMMA RecordTypes ==
  /\ NoIterator \in IteratorType /\ [NoIterator EXCEPT !.on = TRUE] \in IteratorType
  /\ \A d \in Data \cup {NoEntry}, b \in BOOLEAN : Returned(d, b) \in ResultType
<1>1. NoIterator \in IteratorType
  BY DEF NoIterator, IteratorType
<1>2. [NoIterator EXCEPT !.on = TRUE] \in IteratorType
  BY <1>1 DEF IteratorType
<1>3. \A d \in Data \cup {NoEntry}, b \in BOOLEAN : Returned(d, b) \in ResultType
  BY Zenon DEF Returned, ResultType
<1> QED
  BY <1>1, <1>2, <1>3

LEMMA HashInvInit == HashTableInit => HashInv
<1> SUFFICES ASSUME HashTableInit PROVE HashInv
  OBVIOUS
<1>1. HashTableTypeOK
  <2>1. 1 \in DOMAIN HT_PRIME
    BY HashTableAssumption
  <2>2. ht_iter \in IteratorType /\ ht_result \in ResultType
    BY RecordTypes DEF HashTableInit
  <2>3. /\ next \in [Data \cup BucketHead -> Data \cup {NoEntry}]
        /\ prev \in [Data -> Data \cup BucketHead \cup {NoEntry}]
    BY DEF HashTableInit
  <2>4. buckets \in BOOLEAN
    BY Zenon DEF HashTableInit
  <2>5. /\ ht_size \in Int /\ ht_bucket \in Nat
        /\ ht_allocated \in SUBSET Data
        /\ ht_arg \in Data \cup {NoEntry} /\ ht_entry \in Data \cup {NoEntry}
        /\ ht_pc \in {"idle", "insert", "find", "grow", "next", "cleanup"}
    BY DEF HashTableInit
  <2>6. prime_idx \in DOMAIN HT_PRIME
    BY <2>1 DEF HashTableInit
  <2> QED
    BY <2>2, <2>3, <2>4, <2>5, <2>6, Zenon DEF HashTableTypeOK, IteratorType, ResultType
<1>2. Grounded /\ Quiet /\ Looking /\ Growing /\ Cleaning /\ Iterating
  BY HashTableAssumption
  DEF HashTableInit, Grounded, Quiet, Chained, Backed, Unused, Looking, Growing, Cleaning,
      Iterating, NoIterator
<1>3. Counted
  BY FS_EmptySet DEF HashTableInit, Counted
<1> QED
  BY <1>1, <1>2, <1>3 DEF HashInv

TableKept == UNCHANGED <<buckets, prime_idx, ht_size, next, prev, ht_allocated>>

LEMMA QuietKept ==
  ASSUME HashInv, TableKept,
         ht_pc \in {"idle", "find", "insert", "next"},
         ht_pc' \in {"idle", "find", "insert", "next"}
  PROVE  Grounded' /\ Quiet' /\ Counted' /\ Growing' /\ Cleaning'
BY DEF TableKept, HashInv, Grounded, Quiet, Counted, Growing, Cleaning, Chained, Backed, Unused

LEMMA FindBegins ==
  ASSUME HashInv, NEW d \in Data, HtBeginFind(d) \/ HtBeginInsert(d)
  PROVE  HashInv'
<1>1. TableKept /\ ht_pc = "idle" /\ ht_pc' \in {"find", "insert"} /\ ht_arg' = d
  BY DEF HtBeginFind, HtBeginInsert, TableKept
<1>2. /\ BucketOf(d, prime_idx) \in BucketHead /\ BucketOf(d, prime_idx)[1] = prime_idx
      /\ BucketOf(d, prime_idx) \notin Data
  BY InvTypes, BucketType
<1>3. /\ ht_entry' = IF buckets THEN next[BucketOf(d, prime_idx)] ELSE NoEntry
      /\ ht_pc' = "insert" => buckets
  BY DEF HtBeginFind, HtBeginInsert
<1>4. ht_entry' \in ht_allocated \cup {NoEntry}
  BY <1>1, <1>2, <1>3 DEF HashInv, Quiet, Chained
<1>5. HashTableTypeOK'
  <2>1. ht_iter' \in {ht_iter, NoIterator} /\ UNCHANGED <<ht_bucket, ht_result>>
    BY DEF HtBeginFind, HtBeginInsert
  <2>2. ht_iter' \in IteratorType
    BY <2>1, RecordTypes DEF HashInv, HashTableTypeOK, IteratorType
  <2> QED
    BY <1>1, <1>4, <2>1, <2>2, InvTypes DEF TableKept, HashInv, HashTableTypeOK, IteratorType
<1>6. Looking'
  <2>1. buckets => Passed({})'
    BY <1>1, <1>3 DEF Passed, TableKept
  <2> QED
    BY <1>1, <1>3, <1>4, <2>1 DEF Looking, TableKept
<1>7. Iterating'
  BY <1>1 DEF HtBeginFind, HtBeginInsert, HashInv, Iterating, NoIterator, n_buckets
<1> QED
  BY <1>1, <1>5, <1>6, <1>7, QuietKept DEF HashInv

LEMMA ChainFollowed ==
  ASSUME HashInv, FollowChain
  PROVE  HashInv'
<1>1. TableKept /\ ht_pc \in {"find", "insert"} /\ ht_pc' = ht_pc /\ ht_arg' = ht_arg
  BY DEF FollowChain, TableKept
<1>2. /\ ht_entry \in ht_allocated /\ ht_entry # ht_arg /\ ht_entry' = next[ht_entry]
      /\ buckets /\ ht_arg \in Data
  BY <1>1 DEF FollowChain, HashInv, Looking
<1>3. ht_entry' \in ht_allocated \cup {NoEntry}
  BY <1>1, <1>2 DEF HashInv, Quiet, Chained
<1>4. Looking'
  <2>1. PICK P \in SUBSET ht_allocated : Passed(P)
    BY <1>1, <1>2 DEF HashInv, Looking
  <2>2. PICK Q : Q = P \cup {ht_entry}
    OBVIOUS
  <2>3. Passed(Q)'
    BY <1>1, <1>2, <2>1, <2>2 DEF Passed, TableKept
  <2>4. Q \in SUBSET ht_allocated'
    BY <1>1, <1>2, <2>2 DEF TableKept
  <2> QED
    BY <1>1, <1>2, <1>3, <2>3, <2>4 DEF Looking, TableKept
<1>5. HashTableTypeOK'
  BY <1>1, <1>3, InvTypes DEF FollowChain, HashInv, HashTableTypeOK
<1>6. Iterating'
  BY <1>1 DEF FollowChain, HashInv, Iterating, n_buckets
<1> QED
  BY <1>1, <1>4, <1>5, <1>6, QuietKept DEF HashInv

LEMMA SearchReturns ==
  ASSUME HashInv, FindReturns \/ InsertFinds
  PROVE  HashInv'
<1>1. TableKept /\ ht_pc \in {"find", "insert"} /\ ht_pc' = "idle"
  BY DEF FindReturns, InsertFinds, TableKept, Idle
<1>2. HashTableTypeOK'
  <2>1. Idle(NoEntry) /\ UNCHANGED ht_iter /\ ht_result' = Returned(ht_entry, FALSE)
    BY DEF FindReturns, InsertFinds
  <2>2. ht_result' \in ResultType
    BY <2>1, RecordTypes DEF HashInv, HashTableTypeOK
  <2> QED
    BY <1>1, <2>1, <2>2 DEF TableKept, HashInv, HashTableTypeOK, Idle, ResultType
<1>3. Looking' /\ Iterating'
  BY <1>1 DEF FindReturns, InsertFinds, HashInv, Looking, Iterating, n_buckets
<1> QED
  BY <1>1, <1>2, <1>3, QuietKept DEF HashInv

LEMMA IteratorSteps ==
  ASSUME HashInv,
         ht_iterator_init \/ HtBeginNext \/ NextReturns \/ NextBucket \/ NextEnds
  PROVE  HashInv'
<1>1. TableKept /\ ht_pc \in {"idle", "next"} /\ ht_pc' \in {"idle", "next"}
  BY DEF ht_iterator_init, HtBeginNext, NextReturns, NextBucket, NextEnds, TableKept, Idle,
         ht_call
<1>2. Looking'
  BY <1>1 DEF Looking
<1>3. CASE ht_iterator_init \/ HtBeginNext \/ NextEnds
  <2>1. /\ ht_iter' \in {ht_iter, NoIterator, [NoIterator EXCEPT !.on = TRUE]}
        /\ ht_result' \in {ht_result, Returned(NoEntry, FALSE)}
        /\ Idle(NoEntry) \/ UNCHANGED <<ht_arg, ht_entry, ht_bucket>>
    BY <1>3 DEF ht_iterator_init, HtBeginNext, NextEnds, ht_call
  <2>2. HashTableTypeOK'
    <3>1. ht_iter \in IteratorType /\ ht_result \in ResultType
      BY DEF HashInv, HashTableTypeOK, IteratorType, ResultType
    <3>2. ht_iter' \in IteratorType
      BY <2>1, <3>1, RecordTypes
    <3>3. ht_result' \in ResultType
      BY <2>1, <3>1, RecordTypes
    <3> QED
      BY <1>1, <2>1, <3>2, <3>3
      DEF HashInv, HashTableTypeOK, TableKept, Idle, IteratorType, ResultType
  <2>3. Iterating'
    <3>1. CASE ht_iterator_init
      BY <3>1, <1>1, InvTypes
      DEF ht_iterator_init, Iterating, NoIterator, n_buckets, TableKept, ht_call
    <3>2. CASE HtBeginNext
      BY <3>2, <1>1 DEF HtBeginNext, HashInv, Iterating, n_buckets, TableKept
    <3>3. CASE NextEnds
      BY <3>3 DEF NextEnds, Iterating, NoIterator, Idle
    <3> QED
      BY <1>3, <3>1, <3>2, <3>3
  <2> QED
    BY <1>1, <1>2, <2>2, <2>3, QuietKept DEF HashInv
<1>4. CASE NextReturns
  <2> DEFINE d == ht_iter.next
  <2>1. /\ d \in ht_allocated /\ next[d] \in ht_allocated \cup {NoEntry}
        /\ next[d] # NoEntry => BucketOf(next[d], prime_idx) = BucketOf(d, prime_idx)
    BY <1>1, <1>4, InvTypes DEF NextReturns, HashInv, Iterating, Quiet, Chained, Backed
  <2>2. /\ ht_iter' = [ht_iter EXCEPT !.next = next[d]]
        /\ ht_iter \in [on : BOOLEAN, bucket_idx : Int, next : Data \cup {NoEntry}]
    BY <1>4 DEF NextReturns, HashInv, HashTableTypeOK
  <2>3. /\ ht_iter'.on = ht_iter.on /\ ht_iter'.bucket_idx = ht_iter.bucket_idx
        /\ ht_iter'.next = next[d]
        /\ ht_iter' \in [on : BOOLEAN, bucket_idx : Int, next : Data \cup {NoEntry}]
    BY <2>1, <2>2, InvTypes
  <2>4. HashTableTypeOK'
    BY <1>4, <2>1, <2>3, InvTypes DEF NextReturns, HashInv, HashTableTypeOK, Idle, Returned
  <2>5. Iterating'
    BY <1>1, <1>4, <2>1, <2>3 DEF NextReturns, HashInv, Iterating, n_buckets, Idle, TableKept
  <2> QED
    BY <1>1, <1>2, <2>4, <2>5, QuietKept DEF HashInv
<1>5. CASE NextBucket
  <2> DEFINE b == ht_iter.bucket_idx + 1
             h == <<prime_idx, b>>
  <2>1. /\ ht_iter \in [on : BOOLEAN, bucket_idx : Int, next : Data \cup {NoEntry}]
        /\ ht_iter.on /\ ht_pc = "next" /\ buckets
        /\ b \in 0..(n_buckets - 1)
    BY <1>5, InvTypes DEF NextBucket, HashInv, HashTableTypeOK, Iterating
  <2>2. h \in BucketHead /\ h[1] = prime_idx /\ h[2] = b
    BY <2>1, InvTypes, HeadType DEF n_buckets
  <2>3. /\ next[h] \in ht_allocated \cup {NoEntry}
        /\ next[h] # NoEntry => BucketOf(next[h], prime_idx)[2] = b
    BY <2>1, <2>2, InvTypes, BucketType DEF HashInv, Quiet, Chained, Backed
  <2> HIDE DEF h
  <2>4. ht_iter' = [ht_iter EXCEPT !.bucket_idx = b, !.next = next[h]]
    BY <1>5 DEF NextBucket, h
  <2>5. /\ ht_iter'.on /\ ht_iter'.bucket_idx = b /\ ht_iter'.next = next[h]
        /\ ht_iter' \in [on : BOOLEAN, bucket_idx : Int, next : Data \cup {NoEntry}]
    <3>1. b \in Int /\ next[h] \in Data \cup {NoEntry}
      BY <2>1, <2>3, InvTypes
    <3> HIDE DEF b
    <3> QED
      BY <2>1, <2>4, <3>1
  <2>6. HashTableTypeOK'
    BY <1>5, <2>5 DEF NextBucket, HashInv, HashTableTypeOK, ht_call
  <2>7. Iterating'
    BY <1>1, <1>5, <2>1, <2>3, <2>5
    DEF NextBucket, Iterating, n_buckets, TableKept, ht_call
  <2> QED
    BY <1>1, <1>2, <2>6, <2>7, QuietKept DEF HashInv
<1> QED
  BY <1>3, <1>4, <1>5

-----------------------------------------------------------------------------
(***************************************************************************)
(* The steps that change the table.                                        *)
(***************************************************************************)

LEMMA InitKeeps ==
  ASSUME HashInv, NEW n \in EstSize, ht_table_init(n)
  PROVE  HashInv'
<1> DEFINE enough == {p \in DOMAIN HT_PRIME : IsEnough(p, n)}
<1>1. prime_idx' \in DOMAIN HT_PRIME
  <2>1. HT_PRIME \in Seq(Nat \ {0}) /\ HT_PRIME # <<>>
    BY HashTableAssumption
  <2>2. Len(HT_PRIME) \in enough /\ enough \in SUBSET Nat
    BY <2>1 DEF IsEnough
  <2>3. PICK p \in enough : \A q \in enough : p <= q
    <3> HIDE DEF enough
    <3> QED
      BY <2>2, LeastPrime
  <2>4. /\ p \in DOMAIN HT_PRIME /\ IsEnough(p, n)
        /\ \A q \in 1..(p - 1) : ~IsEnough(q, n)
    <3>1. p \in 1..Len(HT_PRIME) /\ Len(HT_PRIME) \in Nat
      BY <2>1
    <3>2. ASSUME NEW q \in 1..(p - 1) PROVE q \in DOMAIN HT_PRIME /\ ~(p <= q)
      BY <2>1, <3>1
    <3> QED
      BY <2>3, <3>2
  <2> QED
    BY <2>4 DEF ht_table_init
<1>2. /\ ~buckets /\ ht_pc = "idle" /\ buckets' = TRUE
      /\ UNCHANGED <<ht_size, next, prev, ht_allocated, ht_pc, ht_arg, ht_entry, ht_bucket,
                     ht_result, ht_iter>>
  BY DEF ht_table_init, ht_call
<1>3. ht_allocated = {} /\ ~ht_iter.on /\ \A h \in BucketHead : next[h] = NoEntry
  BY <1>2 DEF HashInv, Quiet, Iterating, Unused, Chained
<1>4. buckets' \in BOOLEAN
  BY <1>2, Zenon
<1>5. HashTableTypeOK'
  BY <1>1, <1>2, <1>4 DEF HashInv, HashTableTypeOK
<1>6. Quiet' /\ Grounded' /\ Counted'
  BY <1>2, <1>3 DEF HashInv, Quiet, Grounded, Counted, Chained, Backed, Unused
<1>7. Looking' /\ Growing' /\ Cleaning' /\ Iterating'
  BY <1>2, <1>3 DEF Looking, Growing, Cleaning, Iterating
<1> QED
  BY <1>5, <1>6, <1>7 DEF HashInv

\* What was looked for in vain is not in the table.
LEMMA NotFound ==
  ASSUME HashInv, ht_pc \in {"find", "insert"}, ht_entry = NoEntry
  PROVE  ht_arg \in Data \ ht_allocated
<1>1. ht_arg \in Data
  BY DEF HashInv, Looking
<1>2. CASE ~buckets
  BY <1>1, <1>2 DEF HashInv, Quiet
<1>3. CASE buckets
  <2>1. PICK P \in SUBSET ht_allocated : Passed(P)
    BY <1>3 DEF HashInv, Looking
  <2>2. Chained(ht_allocated, prime_idx) /\ Grounded
    BY DEF HashInv, Quiet
  <2>3. ht_arg \notin ht_allocated
    BY <2>1, <2>2, AllReached, InvTypes DEF Passed
  <2> QED
    BY <1>1, <2>3
<1> QED
  BY <1>2, <1>3

LEMMA InsertLinksKeeps ==
  ASSUME HashInv, InsertLinks
  PROVE  HashInv'
<1> DEFINE d == ht_arg
           h == BucketOf(d, prime_idx)
<1>1. PICK p \in DOMAIN HT_PRIME : p = prime_idx
  BY InvTypes
<1>2. PICK A \in SUBSET Data : A = ht_allocated
  BY InvTypes
<1>3. /\ d \in Data \ A /\ buckets /\ ~ht_iter.on
      /\ Chained(A, p) /\ Unused({p}) /\ Grounded /\ Counted
  BY <1>1, <1>2, NotFound DEF InsertLinks, HashInv, Looking, Quiet, Iterating
<1>4. /\ h \in BucketHead /\ h[1] = p /\ h \notin Data
      /\ next[h] \in A \cup {NoEntry}
  BY <1>1, <1>3, BucketType DEF Chained
<1>5. /\ next' = next_linked(d, h) /\ prev' = prev_linked(d, h)
      /\ ht_allocated' = A \cup {d} /\ ht_size' = ht_size + 1
      /\ UNCHANGED <<buckets, ht_iter>>
  BY <1>2 DEF InsertLinks
<1>6. next[h] # d
  BY <1>3, <1>4, InvTypes
<1>7. PICK c \in Data : c = d
  BY <1>3
<1>8. /\ next' \in [Data \cup BucketHead -> Data \cup {NoEntry}]
      /\ prev' \in [Data -> Data \cup BucketHead \cup {NoEntry}]
      /\ \A g \in BucketHead : g[1] # p => next'[g] = next[g]
  <2>1. d \in Data /\ Links
    BY <1>3, InvTypes
  <2> HIDE DEF d, h
  <2>2. /\ next' \in [Data \cup BucketHead -> Data \cup {NoEntry}]
        /\ \A x \in (Data \cup BucketHead) \ {d, h} : next'[x] = next[x]
    BY <2>1, <1>4, <1>5, NextLinked
  <2>3. prev' \in [Data -> Data \cup BucketHead \cup {NoEntry}]
    BY <2>1, <1>4, <1>5, <1>6, PrevLinked
  <2> QED
    BY <2>1, <2>2, <2>3, <1>4, InvTypes
<1>9. Chained(A \cup {c}, p)' /\ Grounded'
  <2>1. Chained(A \cup {c}, p)'
    BY <1>1, <1>3, <1>5, <1>7, LinkChained, InvTypes
  <2>2. Grounded'
    BY <1>2, <1>3, <1>4, <1>5, <1>6, LinkGrounded, InvTypes
  <2> QED
    BY <2>1, <2>2
<1>10. PICK B \in SUBSET Data : B = A \cup {c}
  BY <1>3
<1>11. ht_allocated' = B /\ Chained(B, p)' /\ d \in B
  BY <1>5, <1>7, <1>9, <1>10
<1>12. Unused({p})'
  BY <1>3, <1>8 DEF Unused
<1>13. Counted'
  <2>1. IsFiniteSet(B) /\ Cardinality(B) = Cardinality(A) + 1
    BY <1>2, <1>3, <1>7, <1>10, FS_AddElement DEF Counted
  <2>2. ht_size = Cardinality(A)
    BY <1>2, <1>3 DEF InsertLinks, Counted
  <2> QED
    BY <1>5, <1>11, <2>1, <2>2 DEF Counted
<1>14. Iterating'
  BY <1>3, <1>5 DEF InsertLinks, Idle, Iterating
<1>15. CASE ~must_grow(ht_size + 1)
  <2>1. /\ Idle(NoEntry) /\ ht_result' = Returned(d, TRUE) /\ prime_idx' = prime_idx
    BY <1>15 DEF InsertLinks
  <2>2. ht_result' \in ResultType
    BY <1>3, <2>1, RecordTypes
  <2>3. HashTableTypeOK'
    <3>1. HashTableTypeOK /\ ht_size' \in Int /\ ht_allocated' \in SUBSET Data
      BY <1>5, <1>10, <1>11 DEF HashInv, HashTableTypeOK
    <3>2. /\ ht_pc' = "idle" /\ ht_arg' = NoEntry /\ ht_entry' = NoEntry /\ ht_bucket' = 0
          /\ prime_idx' = prime_idx /\ buckets' = buckets /\ ht_iter' = ht_iter
      BY <1>5, <2>1 DEF Idle
    <3> QED
      BY <1>8, <2>2, <3>1, <3>2 DEF HashTableTypeOK, ResultType
  <2>4. Quiet' /\ Looking' /\ Growing' /\ Cleaning'
    BY <1>1, <1>3, <1>5, <1>11, <1>12, <2>1
    DEF Idle, Quiet, Looking, Growing, Cleaning
  <2> QED
    BY <1>9, <1>13, <1>14, <2>3, <2>4 DEF HashInv
<1>16. CASE must_grow(ht_size + 1)
  <2>1. /\ ht_pc' = "grow" /\ ht_arg' = d /\ ht_bucket' = 0 /\ prime_idx' = p + 1
        /\ ht_entry' = next'[<<p, 0>>] /\ UNCHANGED ht_result
    BY <1>1, <1>5, <1>16 DEF InsertLinks
  <2>2. p + 1 \in DOMAIN HT_PRIME /\ p \in Nat
    BY <1>1, <1>16, HashTableAssumption DEF must_grow
  <2>3. PICK q \in DOMAIN HT_PRIME : q = p + 1 /\ q - 1 = p
    BY <2>2
  <2>4. Waiting(B, p)'
    BY <1>11, <2>1, ChainedWaits
  <2>5. Chained({}, q)' /\ Unused({p, q})'
    <3>1. \A g \in BucketHead : g[1] = q => next'[g] = NoEntry
      BY <1>3, <1>8, <2>2, <2>3 DEF Unused
    <3> QED
      BY <1>12, <3>1 DEF Chained, Unused, Backed
  <2>6. /\ prime_idx' = q /\ prime_idx' - 1 = p
        /\ HT_PRIME[p] \in Nat \ {0}
    BY <2>1, <2>3, HashTableAssumption
  <2>7. Growing'
    <3>1. {} \in SUBSET ht_allocated' /\ B \ {} = B
      OBVIOUS
    <3>2. \E M \in SUBSET ht_allocated' :
            Chained(M, q)' /\ Waiting(B \ M, p)'
      BY <2>4, <2>5, <3>1
    <3>3. Unused({p, q})' /\ p \in DOMAIN HT_PRIME /\ ht_bucket' < HT_PRIME[p]
      BY <2>1, <2>5, <2>6
    <3> QED
      BY <1>3, <1>5, <1>11, <2>1, <2>6, <3>2, <3>3 DEF Growing, old_n_buckets
  <2>8. HashTableTypeOK'
    <3>1. <<p, 0>> \in BucketHead
      BY <2>6, HeadType
    <3>2. ht_entry' \in Data \cup {NoEntry} /\ ht_size' \in Int
      BY <1>5, <1>8, <2>1, <3>1 DEF HashInv, HashTableTypeOK
    <3> QED
      BY <1>3, <1>5, <1>8, <1>10, <1>11, <2>1, <2>6, <3>2 DEF HashInv, HashTableTypeOK
  <2>9. Quiet' /\ Looking' /\ Cleaning'
    BY <2>1 DEF Quiet, Looking, Cleaning
  <2> QED
    BY <1>9, <1>13, <1>14, <2>7, <2>8, <2>9 DEF HashInv
<1> QED
  BY <1>15, <1>16

LEMMA GrowMovesKeeps ==
  ASSUME HashInv, GrowMoves
  PROVE  HashInv'
<1>1. PICK p \in DOMAIN HT_PRIME : p = prime_idx
  BY InvTypes
<1>2. PICK q \in DOMAIN HT_PRIME : q = prime_idx - 1
  BY DEF GrowMoves, HashInv, Growing
<1>3. p # q /\ p - 1 = q /\ p \in Nat
  BY <1>1, <1>2, HashTableAssumption
<1>4. PICK M \in SUBSET ht_allocated : Chained(M, p) /\ Waiting(ht_allocated \ M, q)
  BY <1>1, <1>2 DEF GrowMoves, HashInv, Growing
<1>5. PICK R \in SUBSET Data : R = ht_allocated \ M
  BY InvTypes
<1>6. PICK e \in R : e = ht_entry
  BY <1>4, <1>5 DEF GrowMoves, Waiting
<1> DEFINE h == BucketOf(e, p)
<1>7. /\ h \in BucketHead /\ h[1] = p /\ h \notin Data
      /\ next[h] \in M \cup {NoEntry} /\ next[h] # e
  BY <1>4, <1>5, BucketType, InvTypes DEF Chained
<1>8. /\ next' = next_linked(e, h) /\ prev' = prev_linked(e, h) /\ ht_entry' = next[e]
      /\ UNCHANGED <<buckets, prime_idx, ht_size, ht_allocated, ht_pc, ht_arg, ht_bucket,
                     ht_result, ht_iter>>
      /\ ht_pc = "grow"
  BY <1>1, <1>6 DEF GrowMoves
<1>9. PICK N \in SUBSET Data : N = M \cup {e}
  BY <1>5, InvTypes
<1>10. Chained(N, p)'
  BY <1>4, <1>5, <1>8, <1>9, LinkChained, InvTypes
<1> HIDE DEF h
<1>11. /\ next' \in [Data \cup BucketHead -> Data \cup {NoEntry}]
       /\ \A x \in (Data \cup BucketHead) \ {e, h} : next'[x] = next[x]
  BY <1>7, <1>8, NextLinked, InvTypes
<1>12. /\ prev' \in [Data -> Data \cup BucketHead \cup {NoEntry}]
       /\ \A x \in Data \ {e, next[h]} : prev'[x] = prev[x]
  BY <1>7, <1>8, PrevLinked, InvTypes
<1>13. Waiting(R \ {e}, q)'
  <2>1. \A x \in R \ {e} : next'[x] = next[x] /\ prev'[x] = prev[x]
    BY <1>5, <1>7, <1>11, <1>12, InvTypes
  <2>2. \A g \in BucketHead : g[1] = q => next'[g] = next[g]
    BY <1>3, <1>7, <1>11, InvTypes
  <2>3. ht_bucket \in Nat /\ e # NoEntry
    BY InvTypes DEF HashInv, HashTableTypeOK
  <2> QED
    BY <1>4, <1>5, <1>6, <1>8, <2>1, <2>2, <2>3, WaitingShrinks
<1>14. PICK L : L = R \ {e}
  OBVIOUS
<1>15. L = ht_allocated' \ N /\ N \in SUBSET ht_allocated' /\ Waiting(L, q)'
  BY <1>5, <1>8, <1>9, <1>13, <1>14
<1>16. Growing'
  <2>1. Unused({q, p})'
    BY <1>1, <1>2, <1>7, <1>8, <1>11, InvTypes DEF HashInv, Growing, Unused
  <2>2. /\ buckets /\ ht_arg \in ht_allocated /\ ht_bucket < HT_PRIME[q]
    BY <1>2, <1>8 DEF HashInv, Growing, old_n_buckets
  <2>3. prime_idx' = p /\ prime_idx' - 1 = q
    BY <1>1, <1>3, <1>8
  <2>4. PICK A : A = ht_allocated
    OBVIOUS
  <2>5. \E S \in SUBSET A : Chained(S, p)' /\ Waiting(A \ S, q)'
    BY <1>8, <1>10, <1>15, <2>4
  <2> QED
    BY <1>8, <2>1, <2>2, <2>3, <2>4, <2>5 DEF Growing, old_n_buckets
<1>17. Grounded'
  BY <1>5, <1>7, <1>8, LinkGrounded, InvTypes DEF HashInv
<1>18. HashTableTypeOK'
  <2>1. ht_entry' \in Data \cup {NoEntry}
    BY <1>8, InvTypes DEF Links
  <2> QED
    BY <1>8, <1>11, <1>12, <2>1 DEF HashInv, HashTableTypeOK
<1>19. Quiet' /\ Looking' /\ Cleaning' /\ Counted' /\ Iterating'
  BY <1>8 DEF HashInv, Quiet, Looking, Cleaning, Counted, Iterating
<1> QED
  BY <1>16, <1>17, <1>18, <1>19 DEF HashInv

LEMMA GrowNextBucketKeeps ==
  ASSUME HashInv, GrowNextBucket
  PROVE  HashInv'
<1>1. PICK p \in DOMAIN HT_PRIME : p = prime_idx
  BY InvTypes
<1>2. PICK q \in DOMAIN HT_PRIME : q = prime_idx - 1
  BY DEF GrowNextBucket, HashInv, Growing
<1>3. PICK M \in SUBSET ht_allocated : Chained(M, p) /\ Waiting(ht_allocated \ M, q)
  BY <1>1, <1>2 DEF GrowNextBucket, HashInv, Growing
<1>4. PICK R \in SUBSET ht_allocated : R = ht_allocated \ M
  OBVIOUS
<1>5. /\ ht_bucket' = ht_bucket + 1 /\ ht_entry' = next[<<q, ht_bucket + 1>>]
      /\ UNCHANGED <<buckets, prime_idx, ht_size, next, prev, ht_allocated, ht_pc, ht_arg,
                     ht_result, ht_iter>>
      /\ ht_pc = "grow" /\ ht_entry = NoEntry
      /\ ht_bucket + 1 < HT_PRIME[q] /\ ht_bucket \in Nat
  BY <1>2 DEF GrowNextBucket, old_n_buckets, HashInv, HashTableTypeOK
<1>6. Waiting(R, q)'
  BY <1>3, <1>4, <1>5, WaitingNextBucket, InvTypes DEF HashInv
<1>7. Growing'
  <2>1. Chained(M, p)' /\ Unused({prime_idx - 1, prime_idx})'
    BY <1>3, <1>5 DEF HashInv, Growing, Chained, Backed, Unused
  <2>2. PICK A : A = ht_allocated
    OBVIOUS
  <2>3. \E S \in SUBSET A : Chained(S, p)' /\ Waiting(A \ S, q)'
    BY <1>4, <1>6, <2>1, <2>2
  <2> QED
    BY <1>1, <1>2, <1>5, <2>1, <2>2, <2>3 DEF HashInv, Growing, old_n_buckets
<1>8. HashTableTypeOK'
  <2>1. <<q, ht_bucket + 1>> \in BucketHead
    BY <1>5, HeadType, HashTableAssumption
  <2>2. ht_entry' \in Data \cup {NoEntry} /\ ht_bucket' \in Nat
    BY <1>5, <2>1, InvTypes DEF Links
  <2> QED
    BY <1>5, <2>2 DEF HashInv, HashTableTypeOK
<1>9. Grounded' /\ Quiet' /\ Looking' /\ Cleaning' /\ Counted' /\ Iterating'
  BY <1>5 DEF HashInv, Grounded, Quiet, Looking, Cleaning, Counted, Iterating
<1> QED
  BY <1>7, <1>8, <1>9 DEF HashInv

\* Freeing an array of buckets empties its heads.
LEMMA WithoutBuckets ==
  ASSUME Links, NEW p \in DOMAIN HT_PRIME, next' = without_buckets(p)
  PROVE  /\ next' \in [Data \cup BucketHead -> Data \cup {NoEntry}]
         /\ \A x \in Data \cup BucketHead : x \in Data \/ x[1] # p => next'[x] = next[x]
         /\ \A h \in BucketHead : h[1] = p => next'[h] = NoEntry
BY HeadAssumption DEF Links, without_buckets

\* Then every entry has been moved.
LEMMA GrowDoneKeeps ==
  ASSUME HashInv, GrowDone
  PROVE  HashInv'
<1>1. PICK p \in DOMAIN HT_PRIME : p = prime_idx
  BY InvTypes
<1>2. PICK q \in DOMAIN HT_PRIME : q = prime_idx - 1
  BY DEF GrowDone, HashInv, Growing
<1>3. p # q
  BY <1>1, <1>2, HashTableAssumption
<1>4. /\ buckets /\ ht_pc = "grow" /\ ht_entry = NoEntry /\ ht_bucket \in Nat
      /\ ~(ht_bucket + 1 < HT_PRIME[q]) /\ Unused({q, p})
  BY <1>1, <1>2, HashTableAssumption
  DEF GrowDone, HashInv, HashTableTypeOK, Growing, old_n_buckets
<1>5. Chained(ht_allocated, p)
  <2>1. PICK M \in SUBSET ht_allocated : Chained(M, p) /\ Waiting(ht_allocated \ M, q)
    BY <1>1, <1>2, <1>4 DEF HashInv, Growing
  <2>2. ht_allocated \ M = {}
    BY <1>4, <2>1, WaitingOver, InvTypes DEF HashInv
  <2>3. M = ht_allocated
    BY <2>2
  <2> QED
    BY <2>1, <2>3
<1>6. /\ next' = without_buckets(q) /\ ht_result' = Returned(ht_arg, TRUE)
      /\ ht_pc' = "idle" /\ ht_arg' = NoEntry /\ ht_entry' = NoEntry /\ ht_bucket' = 0
      /\ UNCHANGED <<buckets, prime_idx, ht_size, prev, ht_allocated, ht_iter>>
  BY <1>2 DEF GrowDone, Idle
<1>7. /\ next' \in [Data \cup BucketHead -> Data \cup {NoEntry}]
      /\ \A x \in Data \cup BucketHead : x \in Data \/ x[1] # q => next'[x] = next[x]
      /\ \A h \in BucketHead : h[1] = q => next'[h] = NoEntry
  BY <1>6, WithoutBuckets, InvTypes
<1>8. Quiet'
  <2>1. \A d \in ht_allocated :
          prev[d] \in Data \cup BucketHead /\ (prev[d] \in Data \/ prev[d][1] # q)
    BY <1>3, <1>5, BucketType, InvTypes DEF Chained
  <2>2. Chained(ht_allocated, p)'
    BY <1>3, <1>5, <1>6, <1>7, <2>1, InvTypes DEF Chained, Backed
  <2>3. Unused({p})'
    BY <1>4, <1>7 DEF Unused
  <2> QED
    BY <1>1, <1>4, <1>6, <2>2, <2>3 DEF Quiet
<1>9. HashTableTypeOK'
  <2>1. ht_result' \in ResultType
    BY <1>6, RecordTypes DEF HashInv, HashTableTypeOK
  <2> QED
    BY <1>6, <1>7, <2>1 DEF HashInv, HashTableTypeOK, ResultType
<1>10. Grounded' /\ Looking' /\ Growing' /\ Cleaning' /\ Counted' /\ Iterating'
  BY <1>4, <1>6 DEF HashInv, Grounded, Looking, Growing, Cleaning, Counted, Iterating
<1> QED
  BY <1>8, <1>9, <1>10 DEF HashInv

LEMMA DeleteKeeps ==
  ASSUME HashInv, NEW d \in Data, ht_table_delete(d)
  PROVE  HashInv'
<1>1. PICK p \in DOMAIN HT_PRIME : p = prime_idx
  BY InvTypes
<1>2. PICK A \in SUBSET Data : A = ht_allocated
  BY InvTypes
<1>3. /\ ht_pc = "idle" /\ d \in A /\ Chained(A, p) /\ Unused({p}) /\ Grounded
  BY <1>1, <1>2 DEF ht_table_delete, HashInv, Quiet
<1>4. /\ next' = next_unlinked(d) /\ prev' = prev_unlinked(d)
      /\ ht_allocated' = A \ {d} /\ ht_size' = ht_size - 1 /\ ht_iter' = NoIterator
      /\ UNCHANGED <<buckets, prime_idx, ht_pc, ht_arg, ht_entry, ht_bucket, ht_result>>
  BY <1>2 DEF ht_table_delete, ht_call
<1>5. /\ prev[d] \in A \cup {BucketOf(d, p)} /\ prev[d] # NoEntry /\ prev[d] # d
      /\ Backed(d) /\ next[d] \in A \cup {NoEntry} /\ next[d] # d
  <2>1. {d} \in SUBSET ht_allocated /\ {d} # {}
    BY <1>2, <1>3
  <2>2. prev[d] # d
    BY <1>3, <2>1 DEF Grounded
  <2> QED
    BY <1>3, <2>2, BucketType, InvTypes DEF Chained, Backed
<1>6. Chained(A \ {d}, p)' /\ Grounded'
  <2>1. Chained(A \ {d}, p)'
    BY <1>3, <1>4, <1>5, UnlinkChained, InvTypes
  <2>2. Grounded'
    BY <1>2, <1>3, <1>4, <1>5, UnlinkGrounded, InvTypes
  <2> QED
    BY <2>1, <2>2
<1>7. PICK B \in SUBSET Data : B = A \ {d}
  OBVIOUS
<1>8. \A x \in (Data \cup BucketHead) \ {d, prev[d]} : next'[x] = next[x]
  BY <1>4, <1>5, Unlinked, InvTypes
<1>9. Quiet'
  <2>1. \A h \in BucketHead : h[1] # p => next'[h] = next[h]
    BY <1>3, <1>5, <1>8, BucketType, InvTypes
  <2>2. Unused({p})'
    BY <1>3, <2>1 DEF Unused
  <2>3. Chained(B, p)' /\ (~buckets => B = {})
    BY <1>2, <1>3, <1>6, <1>7 DEF HashInv, Quiet
  <2> QED
    BY <1>1, <1>4, <1>7, <2>2, <2>3 DEF Quiet
<1>10. Counted'
  BY <1>2, <1>3, <1>4, FS_RemoveElement DEF HashInv, Counted
<1>11. HashTableTypeOK'
  <2>1. /\ next' \in [Data \cup BucketHead -> Data \cup {NoEntry}]
        /\ prev' \in [Data -> Data \cup BucketHead \cup {NoEntry}]
    BY <1>4, InvTypes DEF Links, next_unlinked, prev_unlinked
  <2>2. ht_iter' \in IteratorType
    BY <1>4, RecordTypes
  <2>3. ht_size' \in Int
    BY <1>4 DEF HashInv, HashTableTypeOK
  <2> QED
    BY <1>4, <2>1, <2>2, <2>3 DEF HashInv, HashTableTypeOK, IteratorType
<1>12. Looking' /\ Growing' /\ Cleaning' /\ Iterating'
  BY <1>3, <1>4 DEF Looking, Growing, Cleaning, Iterating, NoIterator
<1> QED
  BY <1>6, <1>9, <1>10, <1>11, <1>12 DEF HashInv

LEMMA BeginCleanupKeeps ==
  ASSUME HashInv, BeginCleanup
  PROVE  HashInv'
<1>1. PICK p \in DOMAIN HT_PRIME : p = prime_idx
  BY InvTypes
<1>2. PICK A \in SUBSET Data : A = ht_allocated
  BY InvTypes
<1>3. /\ ht_pc' = "cleanup" /\ ht_bucket' = 0 /\ ht_entry' = next'[<<p, 0>>]
      /\ ht_iter' = NoIterator /\ buckets /\ ht_pc = "idle"
      /\ UNCHANGED <<buckets, prime_idx, ht_size, next, prev, ht_allocated, ht_arg, ht_result>>
  BY <1>1 DEF BeginCleanup
<1>4. Chained(A, p)' /\ Unused({p})'
  BY <1>1, <1>2, <1>3 DEF HashInv, Quiet, Chained, Backed, Unused
<1>5. Waiting(A, p)'
  BY <1>3, <1>4, ChainedWaits
<1>6. Cleaning'
  BY <1>1, <1>2, <1>3, <1>4, <1>5, InvTypes DEF Cleaning, n_buckets
<1>7. HashTableTypeOK'
  <2>1. 0 \in 0..(HT_PRIME[p] - 1)
    BY <1>1, InvTypes DEF n_buckets
  <2>2. ht_entry' \in Data \cup {NoEntry}
    BY <1>3, <2>1, HeadType, InvTypes DEF Links
  <2>3. ht_iter' \in IteratorType
    BY <1>3, RecordTypes
  <2> QED
    BY <1>3, <2>2, <2>3 DEF HashInv, HashTableTypeOK, IteratorType
<1>8. Grounded' /\ Quiet' /\ Looking' /\ Growing' /\ Counted' /\ Iterating'
  BY <1>3 DEF HashInv, Grounded, Quiet, Looking, Growing, Counted, Iterating, NoIterator
<1> QED
  BY <1>6, <1>7, <1>8 DEF HashInv

LEMMA CleanupFreesKeeps ==
  ASSUME HashInv, CleanupFrees
  PROVE  HashInv'
<1>1. PICK p \in DOMAIN HT_PRIME : p = prime_idx
  BY InvTypes
<1>2. PICK A \in SUBSET Data : A = ht_allocated
  BY InvTypes
<1>3. /\ ht_pc = "cleanup" /\ buckets /\ ht_bucket < HT_PRIME[p] /\ Unused({p})
      /\ Waiting(A, p)
  BY <1>1, <1>2 DEF CleanupFrees, HashInv, Cleaning, n_buckets
<1>4. PICK e \in A : e = ht_entry
  BY <1>3 DEF CleanupFrees, Waiting
<1>5. /\ next' = [next EXCEPT ![e] = NoEntry] /\ prev' = [prev EXCEPT ![e] = NoEntry]
      /\ ht_entry' = next[e] /\ ht_allocated' = A \ {e}
      /\ UNCHANGED <<buckets, prime_idx, ht_size, ht_pc, ht_arg, ht_bucket, ht_result, ht_iter>>
  BY <1>2, <1>4 DEF CleanupFrees
<1>6. /\ next' \in [Data \cup BucketHead -> Data \cup {NoEntry}]
      /\ prev' \in [Data -> Data \cup BucketHead \cup {NoEntry}]
      /\ \A x \in (Data \cup BucketHead) \ {e} : next'[x] = next[x]
      /\ \A x \in Data \ {e} : prev'[x] = prev[x]
  BY <1>5, InvTypes DEF Links
<1>7. Waiting(A \ {e}, p)'
  <2>1. e # NoEntry /\ ht_bucket \in Nat
    BY InvTypes DEF HashInv, HashTableTypeOK
  <2> QED
    BY <1>3, <1>4, <1>5, <1>6, <2>1, WaitingShrinks, InvTypes
<1>8. PICK B : B = A \ {e}
  OBVIOUS
<1>9. Cleaning'
  <2>1. Unused({p})'
    BY <1>3, <1>6, InvTypes DEF Unused
  <2> QED
    BY <1>1, <1>3, <1>5, <1>7, <1>8, <2>1 DEF Cleaning, n_buckets
<1>10. Grounded'
  BY <1>2, <1>5, <1>6, FewerGrounded DEF HashInv
<1>11. Counted'
  BY <1>2, <1>3, <1>5, FS_RemoveElement DEF HashInv, Counted
<1>12. HashTableTypeOK'
  <2>1. ht_entry' \in Data \cup {NoEntry}
    BY <1>5, InvTypes DEF Links
  <2> QED
    BY <1>5, <1>6, <2>1 DEF HashInv, HashTableTypeOK
<1>13. Quiet' /\ Looking' /\ Growing' /\ Iterating'
  BY <1>3, <1>5 DEF HashInv, Quiet, Looking, Growing, Iterating
<1> QED
  BY <1>9, <1>10, <1>11, <1>12, <1>13 DEF HashInv

LEMMA CleanupNextBucketKeeps ==
  ASSUME HashInv, CleanupNextBucket
  PROVE  HashInv'
<1>1. PICK p \in DOMAIN HT_PRIME : p = prime_idx
  BY InvTypes
<1>2. PICK A \in SUBSET ht_allocated : A = ht_allocated
  OBVIOUS
<1>3. /\ ht_pc = "cleanup" /\ buckets /\ Unused({p}) /\ Waiting(A, p)
      /\ ht_entry = NoEntry /\ ht_bucket + 1 < HT_PRIME[p] /\ ht_bucket \in Nat
      /\ ht_bucket' = ht_bucket + 1 /\ ht_entry' = next[<<p, ht_bucket + 1>>]
      /\ UNCHANGED <<buckets, prime_idx, ht_size, next, prev, ht_allocated, ht_pc, ht_arg,
                     ht_result, ht_iter>>
  BY <1>1, <1>2 DEF CleanupNextBucket, HashInv, HashTableTypeOK, Cleaning, n_buckets
<1>4. Waiting(A, p)'
  BY <1>2, <1>3, WaitingNextBucket, InvTypes DEF HashInv
<1>5. Cleaning'
  BY <1>1, <1>2, <1>3, <1>4 DEF Cleaning, n_buckets, Unused
<1>6. HashTableTypeOK'
  <2>1. <<p, ht_bucket + 1>> \in BucketHead
    BY <1>3, HeadType, HashTableAssumption
  <2>2. ht_entry' \in Data \cup {NoEntry} /\ ht_bucket' \in Nat
    BY <1>3, <2>1, InvTypes DEF Links
  <2> QED
    BY <1>3, <2>2 DEF HashInv, HashTableTypeOK
<1>7. Grounded' /\ Quiet' /\ Looking' /\ Growing' /\ Counted' /\ Iterating'
  BY <1>3 DEF HashInv, Grounded, Quiet, Looking, Growing, Counted, Iterating
<1> QED
  BY <1>5, <1>6, <1>7 DEF HashInv

\* Then every entry has been freed.
LEMMA CleanupDoneKeeps ==
  ASSUME HashInv, CleanupDone
  PROVE  HashInv' /\ ht_allocated = {}
<1>1. PICK p \in DOMAIN HT_PRIME : p = prime_idx
  BY InvTypes
<1>2. /\ ht_pc = "cleanup" /\ buckets /\ Unused({p}) /\ Waiting(ht_allocated, p)
      /\ ht_entry = NoEntry /\ ~(ht_bucket + 1 < HT_PRIME[p]) /\ ht_bucket \in Nat
      /\ next' = without_buckets(p) /\ ~buckets' /\ buckets' \in BOOLEAN
      /\ prime_idx' = 1 /\ ht_size' = 0
      /\ ht_pc' = "idle" /\ ht_arg' = NoEntry /\ ht_entry' = NoEntry /\ ht_bucket' = 0
      /\ UNCHANGED <<prev, ht_allocated, ht_result, ht_iter>>
  <2>1. HT_PRIME[p] \in Nat
    BY HashTableAssumption
  <2>2. ~buckets' /\ buckets' \in BOOLEAN
    BY Zenon DEF CleanupDone
  <2> QED
    BY <1>1, <2>1, <2>2
    DEF CleanupDone, HashInv, HashTableTypeOK, Cleaning, n_buckets, Idle
<1>3. ht_allocated = {}
  BY <1>2, WaitingOver, InvTypes DEF HashInv
<1>4. /\ next' \in [Data \cup BucketHead -> Data \cup {NoEntry}]
      /\ \A h \in BucketHead : next'[h] = NoEntry
  BY <1>2, WithoutBuckets, InvTypes DEF Unused
<1>5. Quiet' /\ Grounded'
  BY <1>2, <1>3, <1>4 DEF Quiet, Grounded, Chained, Backed, Unused
<1>6. HashTableTypeOK'
  <2>1. 1 \in DOMAIN HT_PRIME
    BY HashTableAssumption
  <2> QED
    BY <1>2, <1>4, <2>1 DEF HashInv, HashTableTypeOK
<1>7. Counted'
  BY <1>2, <1>3, FS_EmptySet DEF Counted
<1>8. Looking' /\ Growing' /\ Cleaning' /\ Iterating'
  BY <1>2 DEF HashInv, Looking, Growing, Cleaning, Iterating
<1> QED
  BY <1>3, <1>5, <1>6, <1>7, <1>8 DEF HashInv

LEMMA HashInvStep == HashInv /\ [HashTableNext]_hashVars => HashInv'
<1> SUFFICES ASSUME HashInv, [HashTableNext]_hashVars PROVE HashInv'
  OBVIOUS
<1>1. CASE HashCallStep
  BY <1>1, ChainFollowed, SearchReturns, InsertLinksKeeps, GrowMovesKeeps,
     GrowNextBucketKeeps, GrowDoneKeeps, IteratorSteps, CleanupFreesKeeps,
     CleanupNextBucketKeeps, CleanupDoneKeeps
  DEF HashCallStep
<1>2. CASE UNCHANGED hashVars
  BY <1>2
  DEF hashVars, ht_call, HashInv, HashTableTypeOK, Grounded, Quiet, Looking, Growing, Cleaning,
      Counted, Iterating, Chained, Waiting, Backed, Unused, Passed, n_buckets, old_n_buckets
<1>3. CASE HashTableNext /\ ~HashCallStep
  BY <1>3, InitKeeps, FindBegins, DeleteKeeps, IteratorSteps, BeginCleanupKeeps
  DEF HashTableNext
<1> QED
  BY <1>1, <1>2, <1>3

-----------------------------------------------------------------------------
(***************************************************************************)
(* The theorems.                                                           *)
(***************************************************************************)

\* After every call, in whatever order calls are made and however often the table
\* has grown, the chains hold the entries in use and nothing else.
THEOREM ChainsAreWhole == HashTableSpec => []ChainsHold
<1>1. HashInv => ChainsHold
  <2> SUFFICES ASSUME HashInv, ht_pc = "idle" PROVE ChainsHold
    BY DEF ChainsHold
  <2>1. /\ Chained(ht_allocated, prime_idx) /\ Unused({prime_idx}) /\ Grounded
        /\ ~buckets => ht_allocated = {}
        /\ ht_size = Cardinality(ht_allocated)
    BY DEF HashInv, Quiet, Counted
  <2>2. ASSUME NEW d \in ht_allocated PROVE d \in Reached(BucketOf(d, prime_idx))
    BY <2>1, <2>2, InvTypes, BucketType, ReachedFromHead
  <2>3. \A d \in ht_allocated :
          /\ prev[d] \in ht_allocated \cup {BucketOf(d, prime_idx)}
          /\ next[prev[d]] = d
          /\ next[d] # NoEntry => next[d] \in ht_allocated /\ prev[next[d]] = d
    BY <2>1 DEF Chained, Backed
  <2>4. \A h \in BucketHead :
          next[h] # NoEntry => next[h] \in ht_allocated /\ prev[next[h]] = h
    BY <2>1 DEF Chained, Unused, Backed
  <2> QED
    BY <2>1, <2>2, <2>3, <2>4 DEF ChainsHold
<1> QED
  BY <1>1, HashInvInit, HashInvStep, PTL DEF HashTableSpec

-----------------------------------------------------------------------------
(***************************************************************************)
(* The table implements the set.                                           *)
(***************************************************************************)

\* With the iterator off nothing is ahead.
LEMMA NothingAhead == ~ht_iter.on => ahead = {}
BY DEF ahead

\* What is ahead depends on the iterator and the chains only.
LEMMA AheadKept ==
  ASSUME TableKept, UNCHANGED ht_iter
  PROVE  ahead' = ahead
BY DEF TableKept, ahead, Reached

\* Within a bucket: the entry returned, and those after it.
LEMMA AheadOf ==
  ASSUME HashInv, ht_iter.on, ht_iter.next # NoEntry
  PROVE  /\ ht_iter.next \in ahead
         /\ ahead \ {ht_iter.next} =
              Reached(ht_iter.next)
              \cup {d \in ht_allocated : BucketOf(d, prime_idx)[2] > ht_iter.bucket_idx}
<1> DEFINE d == ht_iter.next
<1>1. /\ d \in ht_allocated /\ BucketOf(d, prime_idx)[2] = ht_iter.bucket_idx
      /\ ht_iter.bucket_idx \in Int
      /\ Chained(ht_allocated, prime_idx) /\ Grounded
  BY InvTypes DEF HashInv, Iterating, Quiet
<1>2. d \notin Reached(d)
  BY <1>1, NotReachedAgain, InvTypes
<1> QED
  BY <1>1, <1>2 DEF ahead

\* Steps that the callers do not see.
LEMMA HiddenSteps ==
  ASSUME HashInv,
         \/ \E n \in EstSize : ht_table_init(n)
         \/ \E d \in Data : HtBeginFind(d)
         \/ HtBeginNext \/ FollowChain
         \/ GrowMoves \/ GrowNextBucket \/ CleanupFrees \/ CleanupNextBucket \/ CleanupDone
  PROVE  committed' = committed /\ ahead' = ahead /\ ht_result' = ht_result
<1>1. CASE (\E d \in Data : HtBeginFind(d)) \/ HtBeginNext \/ FollowChain
  <2>1. TableKept /\ UNCHANGED <<ht_iter, ht_result>>
    BY <1>1 DEF HtBeginFind, HtBeginNext, FollowChain, TableKept
  <2>2. ht_pc \notin {"grow", "cleanup"} /\ ht_pc' \notin {"grow", "cleanup"}
    BY <1>1 DEF HtBeginFind, HtBeginNext, FollowChain
  <2>3. committed' = committed
    BY <2>1, <2>2 DEF committed, TableKept
  <2> QED
    BY <2>1, <2>3, AheadKept
<1>2. CASE \E n \in EstSize : ht_table_init(n)
  <2>1. /\ ~buckets /\ ht_pc = "idle"
        /\ UNCHANGED <<ht_pc, ht_arg, ht_allocated, ht_result, ht_iter>>
    BY <1>2 DEF ht_table_init, ht_call
  <2>2. ~ht_iter.on
    BY <2>1 DEF HashInv, Iterating
  <2> QED
    BY <2>1, <2>2 DEF committed, ahead
<1>3. CASE GrowMoves \/ GrowNextBucket
  <2>1. /\ ht_pc = "grow"
        /\ UNCHANGED <<ht_pc, ht_arg, ht_allocated, ht_result, ht_iter>>
    BY <1>3 DEF GrowMoves, GrowNextBucket
  <2>2. ~ht_iter.on
    BY <2>1 DEF HashInv, Iterating
  <2> QED
    BY <2>1, <2>2 DEF committed, ahead
<1>4. CASE CleanupFrees \/ CleanupNextBucket
  <2>1. ht_pc = "cleanup" /\ UNCHANGED <<ht_pc, ht_result, ht_iter>>
    BY <1>4 DEF CleanupFrees, CleanupNextBucket
  <2>2. ~ht_iter.on
    BY <2>1 DEF HashInv, Iterating
  <2> QED
    BY <2>1, <2>2 DEF committed, ahead
<1>5. CASE CleanupDone
  <2>1. ht_pc = "cleanup" /\ ht_pc' = "idle" /\ UNCHANGED <<ht_allocated, ht_result, ht_iter>>
    BY <1>5 DEF CleanupDone, Idle
  <2>2. ~ht_iter.on /\ ht_allocated = {}
    BY <1>5, <2>1, CleanupDoneKeeps DEF HashInv, Iterating
  <2> QED
    BY <2>1, <2>2 DEF committed, ahead
<1> QED
  BY <1>1, <1>2, <1>3, <1>4, <1>5

\* An insertion takes effect when the growth it causes is over.
LEMMA InsertImplements ==
  ASSUME HashInv, InsertFinds \/ InsertLinks \/ GrowDone
  PROVE  HashedSet!Insert(ht_arg) \/ UNCHANGED <<committed, ahead, ht_result>>
<1>1. ~ht_iter.on /\ ht_iter' = ht_iter
  BY DEF InsertFinds, InsertLinks, GrowDone, HashInv, Iterating
<1>2. ahead = {} /\ ahead' = {}
  BY <1>1 DEF ahead
<1>3. CASE InsertFinds
  <2>1. /\ committed = ht_allocated /\ committed' = ht_allocated
        /\ ht_arg \in ht_allocated /\ ht_result' = Returned(ht_arg, FALSE)
    BY <1>3, InvTypes
    DEF InsertFinds, committed, Idle, HashInv, Looking
  <2> QED
    BY <1>2, <2>1 DEF HashedSet!Insert, HashedSet!Returns, Returned
<1>4. CASE InsertLinks
  <2>1. ht_arg \notin ht_allocated /\ committed = ht_allocated
    BY <1>4, NotFound DEF InsertLinks, committed
  <2>2. CASE must_grow(ht_size + 1)
    BY <1>2, <1>4, <2>1, <2>2 DEF InsertLinks, committed
  <2>3. CASE ~must_grow(ht_size + 1)
    <3>1. /\ committed' = ht_allocated \cup {ht_arg}
          /\ ht_result' = Returned(ht_arg, TRUE)
      BY <1>4, <2>3 DEF InsertLinks, committed, Idle
    <3> QED
      BY <1>2, <2>1, <3>1 DEF HashedSet!Insert, HashedSet!Returns, Returned
  <2> QED
    BY <2>2, <2>3
<1>5. CASE GrowDone
  <2>1. /\ committed = ht_allocated \ {ht_arg} /\ committed' = ht_allocated
        /\ ht_arg \in ht_allocated /\ ht_result' = Returned(ht_arg, TRUE)
    BY <1>5 DEF GrowDone, committed, Idle, HashInv, Growing
  <2> QED
    BY <1>2, <2>1 DEF HashedSet!Insert, HashedSet!Returns, Returned
<1> QED
  BY <1>3, <1>4, <1>5

LEMMA FindImplements ==
  ASSUME HashInv, FindReturns
  PROVE  HashedSet!Find(ht_arg)
<1>1. TableKept /\ UNCHANGED ht_iter
  BY DEF FindReturns, TableKept
<1>2. committed = ht_allocated /\ committed' = ht_allocated
  BY DEF FindReturns, committed, Idle
<1>3. ht_entry = IF ht_arg \in ht_allocated THEN ht_arg ELSE NoEntry
  BY NotFound DEF FindReturns, HashInv, Looking
<1> QED
  BY <1>1, <1>2, <1>3, AheadKept
  DEF FindReturns, HashedSet!Find, HashedSet!Returns, Returned

\* The iterator returns what is ahead of it, and ends when nothing is.
LEMMA NextImplements ==
  ASSUME HashInv, NextReturns \/ NextBucket \/ NextEnds
  PROVE  HashedSet!NextInAnyOrder \/ UNCHANGED <<committed, ahead, ht_result>>
<1>1. /\ ht_pc = "next" /\ ht_iter.on /\ buckets
      /\ ht_iter \in IteratorType
      /\ ht_iter.bucket_idx \in -1..(n_buckets - 1)
      /\ Chained(ht_allocated, prime_idx) /\ Grounded
      /\ TableKept /\ committed' = committed
  BY DEF NextReturns, NextBucket, NextEnds, HashInv, Iterating, Quiet, TableKept, committed,
         Idle, HashTableTypeOK, IteratorType, ht_call
<1> DEFINE after(i) == {d \in ht_allocated : BucketOf(d, prime_idx)[2] > i}
<1>2. CASE NextReturns
  <2> DEFINE k == ht_iter.next
  <2>1. /\ ht_iter' = [ht_iter EXCEPT !.next = next[k]]
        /\ ht_result' = Returned(k, FALSE) /\ k # NoEntry
    BY <1>2 DEF NextReturns
  <2>2. k \in Data
    BY <1>1, <2>1 DEF IteratorType
  <2>3. /\ ht_iter'.on /\ ht_iter'.bucket_idx = ht_iter.bucket_idx
        /\ ht_iter'.next = next[k]
    BY <1>1, <2>1 DEF IteratorType
  <2>4. ahead' = (IF next[k] = NoEntry THEN {} ELSE {next[k]} \cup Reached(next[k]))
                 \cup after(ht_iter.bucket_idx)
    BY <1>1, <2>3 DEF ahead, Reached, TableKept
  <2>5. ahead' = ahead \ {k} /\ k \in ahead
    BY <1>1, <2>1, <2>2, <2>4, AheadOf, ReachedStep, InvTypes
  <2> QED
    BY <1>1, <2>1, <2>5 DEF HashedSet!NextInAnyOrder, HashedSet!Returns, Returned
<1>3. CASE NextBucket
  <2> DEFINE b == ht_iter.bucket_idx + 1
             h == <<prime_idx, b>>
  <2>1. /\ ht_iter' = [ht_iter EXCEPT !.bucket_idx = b, !.next = next[h]]
        /\ ht_iter.next = NoEntry /\ b # n_buckets /\ ht_result' = ht_result
    BY <1>3 DEF NextBucket
  <2>2. b \in 0..(n_buckets - 1)
    BY <1>1, <2>1, InvTypes
  <2>3. h \in BucketHead /\ h[1] = prime_idx
    BY <2>2, HeadType, InvTypes DEF n_buckets
  <2>4. \A d \in ht_allocated : BucketOf(d, prime_idx) = h <=> BucketOf(d, prime_idx)[2] = b
    BY BucketType, HeadOf, InvTypes
  <2>5. \A d \in ht_allocated : BucketOf(d, prime_idx)[2] \in Nat
    BY BucketType, InvTypes
  <2> HIDE DEF h
  <2>6. ht_iter'.on /\ ht_iter'.bucket_idx = b /\ ht_iter'.next = next[h]
    <3> HIDE DEF b
    <3> QED
      BY <1>1, <2>1 DEF IteratorType
  <2>7. ahead' = (IF next[h] = NoEntry THEN {} ELSE {next[h]} \cup Reached(next[h]))
                 \cup after(b)
    BY <1>1, <2>6 DEF ahead, Reached, TableKept
  <2>8. ahead' = {d \in ht_allocated : BucketOf(d, prime_idx) = h} \cup after(b)
    BY <1>1, <2>3, <2>7, ReachedStep, ReachedFromHead, InvTypes
  <2>9. ahead = after(ht_iter.bucket_idx)
    BY <1>1, <2>1 DEF ahead
  <2>10. ahead' = ahead
    BY <2>2, <2>4, <2>5, <2>8, <2>9, <1>1, InvTypes
  <2> QED
    BY <1>1, <2>1, <2>10
<1>4. CASE NextEnds
  <2>1. /\ ht_iter.next = NoEntry /\ ht_iter.bucket_idx + 1 = n_buckets
        /\ ht_result' = Returned(NoEntry, FALSE) /\ ht_iter' = NoIterator
    BY <1>4 DEF NextEnds
  <2>2. \A d \in ht_allocated : BucketOf(d, prime_idx)[2] \in 0..(n_buckets - 1)
    BY BucketType, InvTypes DEF n_buckets
  <2>3. ahead = {}
    BY <1>1, <2>1, <2>2, InvTypes DEF ahead
  <2>4. ahead' = {}
    BY <2>1 DEF ahead, NoIterator
  <2> QED
    BY <1>1, <2>1, <2>3, <2>4 DEF HashedSet!NextInAnyOrder, HashedSet!Returns, Returned
<1> QED
  BY <1>2, <1>3, <1>4

LEMMA TableImplements ==
  ASSUME HashInv, [HashTableNext]_hashVars
  PROVE  [HashedSet!AnyCall \/ HashedSet!NextInAnyOrder]_(HashedSet!keySetVars)
<1> USE DEF HashedSet!keySetVars
<1>1. CASE UNCHANGED hashVars
  BY <1>1 DEF hashVars, ht_call, committed, ahead, Reached
<1>2. ASSUME NEW d \in Data, HtBeginInsert(d)
      PROVE  HashedSet!Forget
  BY <1>2 DEF HtBeginInsert, HashedSet!Forget, committed, ahead, NoIterator
<1>3. ASSUME NEW d \in Data, ht_table_delete(d)
      PROVE  HashedSet!Delete(d)
  BY <1>3 DEF ht_table_delete, HashedSet!Delete, committed, ahead, NoIterator, ht_call
<1>4. ASSUME ht_iterator_init PROVE HashedSet!Iterate
  <2>1. /\ ht_iter'.on /\ ht_iter'.bucket_idx = -1 /\ ht_iter'.next = NoEntry
        /\ committed = ht_allocated /\ committed' = ht_allocated /\ ht_result' = ht_result
        /\ prime_idx' = prime_idx /\ ht_allocated' = ht_allocated
    BY <1>4 DEF ht_iterator_init, NoIterator, committed, ht_call
  <2>2. \A d \in ht_allocated : BucketOf(d, prime_idx)[2] > -1
    BY BucketType, InvTypes
  <2>3. ahead' = ht_allocated
    BY <2>1, <2>2 DEF ahead
  <2> QED
    BY <2>1, <2>3 DEF HashedSet!Iterate
<1>5. ASSUME BeginCleanup PROVE HashedSet!Clear
  BY <1>5 DEF BeginCleanup, HashedSet!Clear, committed, ahead, NoIterator
<1>6. ht_pc \in {"find", "insert", "grow"} => ht_arg \in Data
  BY InvTypes DEF HashInv, Looking, Growing
<1>7. CASE HashTableNext
  BY <1>2, <1>3, <1>4, <1>5, <1>6, <1>7, HiddenSteps, InsertImplements, FindImplements,
     NextImplements
  DEF HashTableNext, HashCallStep, HashedSet!AnyCall, FindReturns, InsertFinds, InsertLinks,
      GrowDone
<1> QED
  BY <1>1, <1>7

\* hash_table.h: a hash table is a set.  To its callers every call is one step of a
\* set, although searches, growth and the iterator take many, and however the hash
\* function spreads the data.
THEOREM TableIsSet == HashTableSpec => ImplementsSet
<1>1. HashTableInit => HashedSet!KeySetInit
  BY DEF HashTableInit, HashedSet!KeySetInit, HashedSet!Returns, committed, ahead,
         NoIterator, Returned
<1> QED
  BY <1>1, HashInvInit, HashInvStep, TableImplements, PTL
  DEF HashTableSpec, ImplementsSet, HashedSet!UnorderedSpec

=============================================================================
