----------------------------- MODULE HashTable ------------------------------
(***************************************************************************)
(* The hash table of hash_table.c: ht_table_init(), ht_table_insert() with *)
(* ht_table_grow(), ht_table_find(), ht_table_delete(), ht_table_cleanup() *)
(* and the iterator.                                                       *)
(*                                                                         *)
(* An entry is named by its datum.  Every bucket starts with an ht_entry   *)
(* that holds no datum, named by the prime index of its array and its      *)
(* number, so that a pointer into an array that was freed can be told from *)
(* one into the array in use.  A function runs step by step, one for each  *)
(* turn of its loop.                                                       *)
(***************************************************************************)
EXTENDS Integers, FiniteSets, Sequences

CONSTANTS
  Data,
  NoEntry,
  HT_PRIME,   \* the numbers of buckets, ascending
  Hash,       \* hash_fn
  EstSize,    \* values of est_size
  MaxLF       \* max_lf

ASSUME HashTableAssumption ==
  /\ IsFiniteSet(Data) /\ NoEntry \notin Data
  /\ HT_PRIME \in Seq(Nat \ {0}) /\ HT_PRIME # <<>>
  /\ Hash \in [Data -> Nat]
  /\ EstSize \subseteq Nat
  /\ MaxLF \in Nat \ {0}

BucketHead == UNION {{p} \X (0..(HT_PRIME[p] - 1)) : p \in DOMAIN HT_PRIME}

ASSUME HeadAssumption == Data \cap BucketHead = {} /\ NoEntry \notin BucketHead

VARIABLES
  buckets,        \* whether the table has an array of buckets
  prime_idx,
  ht_size,
  next,           \* of an entry or of the head of a bucket
  prev,
  ht_allocated,   \* the entries that malloc() returned and were not freed
  ht_pc,          \* the loop that runs
  ht_arg,         \* its datum
  ht_entry,
  ht_bucket,      \* b
  ht_result,      \* what the last call returned
  ht_iter         \* ht_iterator; on: it may be used

ht_call == <<ht_pc, ht_arg, ht_entry, ht_bucket>>
hashVars ==
  <<buckets, prime_idx, ht_size, next, prev, ht_allocated, ht_call, ht_result,
    ht_iter>>

HashTableTypeOK ==
  /\ buckets \in BOOLEAN
  /\ prime_idx \in DOMAIN HT_PRIME
  /\ ht_size \in Int
  /\ next \in [Data \cup BucketHead -> Data \cup {NoEntry}]
  /\ prev \in [Data -> Data \cup BucketHead \cup {NoEntry}]
  /\ ht_allocated \in SUBSET Data
  /\ ht_pc \in {"idle", "insert", "find", "grow", "next", "cleanup"}
  /\ ht_arg \in Data \cup {NoEntry}
  /\ ht_entry \in Data \cup {NoEntry}
  /\ ht_bucket \in Nat
  /\ ht_result \in [node : Data \cup {NoEntry}, inserted : BOOLEAN]
  /\ ht_iter \in [on : BOOLEAN, bucket_idx : Int, next : Data \cup {NoEntry}]

n_buckets == HT_PRIME[prime_idx]
BucketOf(d, p) == <<p, Hash[d] % HT_PRIME[p]>>

NoIterator == [on |-> FALSE, bucket_idx |-> -1, next |-> NoEntry]
Returned(d, inserted) == [node |-> d, inserted |-> inserted]

Idle(d) == ht_pc' = "idle" /\ ht_arg' = d /\ ht_entry' = NoEntry /\ ht_bucket' = 0

HashTableInit ==
  /\ buckets = FALSE /\ prime_idx = 1 /\ ht_size = 0
  /\ next = [x \in Data \cup BucketHead |-> NoEntry]
  /\ prev = [d \in Data |-> NoEntry]
  /\ ht_allocated = {}
  /\ ht_pc = "idle" /\ ht_arg = NoEntry /\ ht_entry = NoEntry /\ ht_bucket = 0
  /\ ht_result = Returned(NoEntry, FALSE)
  /\ ht_iter = NoIterator

\* est_size entries keep the load factor at max_lf or less: or the last prime.
IsEnough(p, est_size) == HT_PRIME[p] * MaxLF >= est_size \/ p = Len(HT_PRIME)

ht_table_init(est_size) ==
  /\ ht_pc = "idle" /\ ~buckets
  /\ buckets' = TRUE
  /\ prime_idx' = CHOOSE p \in DOMAIN HT_PRIME :
                    /\ IsEnough(p, est_size)
                    /\ \A q \in 1..(p - 1) : ~IsEnough(q, est_size)
  /\ UNCHANGED <<ht_size, next, prev, ht_allocated, ht_call, ht_result,
                 ht_iter>>

-----------------------------------------------------------------------------
(* ht_table_find() and ht_table_insert().                                  *)

\* An entry added anywhere but at its bucket's head is not found there.
HtBeginFind(d) ==
  /\ ht_pc = "idle"
  /\ ht_pc' = "find" /\ ht_arg' = d
  /\ ht_entry' = IF buckets THEN next[BucketOf(d, prime_idx)] ELSE NoEntry
  /\ UNCHANGED <<buckets, prime_idx, ht_size, next, prev, ht_allocated,
                 ht_bucket, ht_result, ht_iter>>

\* The iterator must not be used once an entry is added.
HtBeginInsert(d) ==
  /\ ht_pc = "idle" /\ buckets
  /\ ht_pc' = "insert" /\ ht_arg' = d /\ ht_entry' = next[BucketOf(d, prime_idx)]
  /\ ht_iter' = NoIterator
  /\ UNCHANGED <<buckets, prime_idx, ht_size, next, prev, ht_allocated,
                 ht_bucket, ht_result>>

FollowChain ==
  /\ ht_pc \in {"find", "insert"}
  /\ ht_entry # NoEntry /\ ht_entry # ht_arg
  /\ ht_entry' = next[ht_entry]
  /\ UNCHANGED <<buckets, prime_idx, ht_size, next, prev, ht_allocated, ht_pc,
                 ht_arg, ht_bucket, ht_result, ht_iter>>

FindReturns ==
  /\ ht_pc = "find"
  /\ ht_entry \in {ht_arg, NoEntry}
  /\ ht_result' = Returned(ht_entry, FALSE)
  /\ Idle(NoEntry)
  /\ UNCHANGED <<buckets, prime_idx, ht_size, next, prev, ht_allocated,
                 ht_iter>>

InsertFinds ==
  /\ ht_pc = "insert"
  /\ ht_entry = ht_arg
  /\ ht_result' = Returned(ht_entry, FALSE)
  /\ Idle(NoEntry)
  /\ UNCHANGED <<buckets, prime_idx, ht_size, next, prev, ht_allocated,
                 ht_iter>>

\* Mutants of the next three definitions.
next_linked_short(d, head) == [next EXCEPT ![d] = NoEntry, ![head] = d]
next_linked_swapped(d, head) == [next EXCEPT ![head] = d, ![d] = d]
prev_linked_one(d, head) == [prev EXCEPT ![d] = head]

\* The pointers once d is the first entry of a bucket: those of d itself, of
\* the head, and of the entry that was the first one.
next_linked(d, head) == [next EXCEPT ![d] = next[head], ![head] = d]
prev_linked(d, head) ==
  [e \in Data |-> IF e = d THEN head ELSE IF e = next[head] THEN d ELSE prev[e]]

must_grow(new_size) ==
  new_size >= MaxLF * n_buckets /\ prime_idx < Len(HT_PRIME)

\* ht_table_grow() runs before ht_table_insert() returns: its loop starts at
\* the first old bucket.  The entry is linked already.
InsertLinks ==
  /\ ht_pc = "insert"
  /\ ht_entry = NoEntry
  /\ LET head == BucketOf(ht_arg, prime_idx) IN
     /\ next' = next_linked(ht_arg, head)
     /\ prev' = prev_linked(ht_arg, head)
     /\ ht_allocated' = ht_allocated \cup {ht_arg}
     /\ ht_size' = ht_size + 1
     /\ IF must_grow(ht_size + 1)
        THEN /\ ht_pc' = "grow" /\ ht_arg' = ht_arg
             /\ ht_entry' = next_linked(ht_arg, head)[<<prime_idx, 0>>]
             /\ ht_bucket' = 0
             /\ prime_idx' = prime_idx + 1
             /\ UNCHANGED ht_result
        ELSE /\ Idle(NoEntry)
             /\ ht_result' = Returned(ht_arg, TRUE)
             /\ UNCHANGED prime_idx
  /\ UNCHANGED <<buckets, ht_iter>>

old_n_buckets == HT_PRIME[prime_idx - 1]

\* Its turn for an entry: the successor in the old chain is read first.
GrowMoves ==
  /\ ht_pc = "grow"
  /\ ht_entry # NoEntry
  /\ LET new_head == BucketOf(ht_entry, prime_idx) IN
     /\ next' = next_linked(ht_entry, new_head)
     /\ prev' = prev_linked(ht_entry, new_head)
     /\ ht_entry' = next[ht_entry]
  /\ UNCHANGED <<buckets, prime_idx, ht_size, ht_allocated, ht_pc, ht_arg,
                 ht_bucket, ht_result, ht_iter>>

GrowNextBucket ==
  /\ ht_pc = "grow"
  /\ ht_entry = NoEntry /\ ht_bucket + 1 < old_n_buckets
  /\ ht_bucket' = ht_bucket + 1
  /\ ht_entry' = next[<<prime_idx - 1, ht_bucket + 1>>]
  /\ UNCHANGED <<buckets, prime_idx, ht_size, next, prev, ht_allocated, ht_pc,
                 ht_arg, ht_result, ht_iter>>

\* The old array of buckets is freed.
without_buckets(p) ==
  [x \in Data \cup BucketHead |->
     IF x \in BucketHead /\ x[1] = p THEN NoEntry ELSE next[x]]

GrowDone ==
  /\ ht_pc = "grow"
  /\ ht_entry = NoEntry /\ ht_bucket + 1 >= old_n_buckets
  /\ next' = without_buckets(prime_idx - 1)
  /\ ht_result' = Returned(ht_arg, TRUE)
  /\ Idle(NoEntry)
  /\ UNCHANGED <<buckets, prime_idx, ht_size, prev, ht_allocated, ht_iter>>

-----------------------------------------------------------------------------
(* ht_table_delete(), of an entry that a call returned, the iterator, and  *)
(* ht_table_cleanup().                                                     *)

next_unlinked(d) == [next EXCEPT ![prev[d]] = next[d], ![d] = NoEntry]
prev_unlinked(d) ==
  [e \in Data |-> IF e = d THEN NoEntry ELSE IF e = next[d] THEN prev[d] ELSE prev[e]]

ht_table_delete(d) ==
  /\ ht_pc = "idle" /\ d \in ht_allocated
  /\ next' = next_unlinked(d)
  /\ prev' = prev_unlinked(d)
  /\ ht_allocated' = ht_allocated \ {d}
  /\ ht_size' = ht_size - 1
  /\ ht_iter' = NoIterator
  /\ UNCHANGED <<buckets, prime_idx, ht_call, ht_result>>

ht_iterator_init ==
  /\ ht_pc = "idle" /\ buckets
  /\ ht_iter' = [NoIterator EXCEPT !.on = TRUE]
  /\ UNCHANGED <<buckets, prime_idx, ht_size, next, prev, ht_allocated, ht_call,
                 ht_result>>

HtBeginNext ==
  /\ ht_pc = "idle" /\ ht_iter.on
  /\ ht_pc' = "next"
  /\ UNCHANGED <<buckets, prime_idx, ht_size, next, prev, ht_allocated, ht_arg,
                 ht_entry, ht_bucket, ht_result, ht_iter>>

\* The successor is read before the entry is returned.
NextReturns ==
  /\ ht_pc = "next"
  /\ ht_iter.next # NoEntry
  /\ ht_result' = Returned(ht_iter.next, FALSE)
  /\ ht_iter' = [ht_iter EXCEPT !.next = next[ht_iter.next]]
  /\ Idle(NoEntry)
  /\ UNCHANGED <<buckets, prime_idx, ht_size, next, prev, ht_allocated>>

NextBucket ==
  /\ ht_pc = "next"
  /\ ht_iter.next = NoEntry /\ ht_iter.bucket_idx + 1 # n_buckets
  /\ LET b == ht_iter.bucket_idx + 1 IN
     ht_iter' = [ht_iter EXCEPT !.bucket_idx = b, !.next = next[<<prime_idx, b>>]]
  /\ UNCHANGED <<buckets, prime_idx, ht_size, next, prev, ht_allocated, ht_call,
                 ht_result>>

\* NULL ends the caller's loop.
NextEnds ==
  /\ ht_pc = "next"
  /\ ht_iter.next = NoEntry /\ ht_iter.bucket_idx + 1 = n_buckets
  /\ ht_result' = Returned(NoEntry, FALSE)
  /\ ht_iter' = NoIterator
  /\ Idle(NoEntry)
  /\ UNCHANGED <<buckets, prime_idx, ht_size, next, prev, ht_allocated>>

BeginCleanup ==
  /\ ht_pc = "idle" /\ buckets
  /\ ht_pc' = "cleanup" /\ ht_bucket' = 0 /\ ht_entry' = next[<<prime_idx, 0>>]
  /\ ht_iter' = NoIterator
  /\ UNCHANGED <<buckets, prime_idx, ht_size, next, prev, ht_allocated, ht_arg,
                 ht_result>>

CleanupFrees ==
  /\ ht_pc = "cleanup"
  /\ ht_entry # NoEntry
  /\ next' = [next EXCEPT ![ht_entry] = NoEntry]
  /\ prev' = [prev EXCEPT ![ht_entry] = NoEntry]
  /\ ht_allocated' = ht_allocated \ {ht_entry}
  /\ ht_entry' = next[ht_entry]
  /\ UNCHANGED <<buckets, prime_idx, ht_size, ht_pc, ht_arg, ht_bucket,
                 ht_result, ht_iter>>

CleanupNextBucket ==
  /\ ht_pc = "cleanup"
  /\ ht_entry = NoEntry /\ ht_bucket + 1 < n_buckets
  /\ ht_bucket' = ht_bucket + 1 /\ ht_entry' = next[<<prime_idx, ht_bucket + 1>>]
  /\ UNCHANGED <<buckets, prime_idx, ht_size, next, prev, ht_allocated, ht_pc,
                 ht_arg, ht_result, ht_iter>>

CleanupDone ==
  /\ ht_pc = "cleanup"
  /\ ht_entry = NoEntry /\ ht_bucket + 1 >= n_buckets
  /\ next' = without_buckets(prime_idx)
  /\ buckets' = FALSE /\ prime_idx' = 1 /\ ht_size' = 0
  /\ Idle(NoEntry)
  /\ UNCHANGED <<prev, ht_allocated, ht_result, ht_iter>>

\* The rest of a call that has begun.
HashCallStep ==
  \/ FollowChain \/ FindReturns \/ InsertFinds \/ InsertLinks
  \/ GrowMoves \/ GrowNextBucket \/ GrowDone
  \/ NextReturns \/ NextBucket \/ NextEnds
  \/ CleanupFrees \/ CleanupNextBucket \/ CleanupDone

HashTableNext ==
  \/ \E n \in EstSize : ht_table_init(n)
  \/ \E d \in Data : HtBeginFind(d)
  \/ \E d \in Data : HtBeginInsert(d)
  \/ \E d \in Data : ht_table_delete(d)
  \/ ht_iterator_init
  \/ HtBeginNext
  \/ BeginCleanup
  \/ HashCallStep

HashTableSpec ==
  HashTableInit /\ [][HashTableNext]_hashVars /\ WF_hashVars(HashCallStep)

-----------------------------------------------------------------------------
(* Properties.                                                             *)

\* The entries that can be reached from x: the least set that has the successor of
\* x and of each of its members.
Reached(x) ==
  {d \in Data :
     \A S \in SUBSET Data : (\A y \in S \cup {x} : next[y] \in S \cup {NoEntry}) => d \in S}

\* When no call runs, the entries in use are those the chains hold: an entry is
\* in the chain its hash names, the two ends of every link know each other, no
\* pointer leads to a freed entry or into an array of buckets that
\* ht_table_grow() freed, and there are "size" of them.
ChainsHold ==
  ht_pc = "idle" =>
    /\ ht_size = Cardinality(ht_allocated)
    /\ \A d \in ht_allocated :
         /\ buckets /\ d \in Reached(BucketOf(d, prime_idx))
         /\ prev[d] \in ht_allocated \cup {BucketOf(d, prime_idx)}
         /\ next[prev[d]] = d
         /\ next[d] # NoEntry => next[d] \in ht_allocated /\ prev[next[d]] = d
    /\ \A h \in BucketHead :
         next[h] # NoEntry => next[h] \in ht_allocated /\ prev[next[h]] = h

committed ==
  CASE ht_pc = "grow"    -> ht_allocated \ {ht_arg}
    [] ht_pc = "cleanup" -> {}
    [] OTHER          -> ht_allocated

\* What the iterator still has to return.
ahead ==
  IF ht_iter.on
  THEN (IF ht_iter.next = NoEntry THEN {} ELSE {ht_iter.next} \cup Reached(ht_iter.next))
       \cup {d \in ht_allocated : BucketOf(d, prime_idx)[2] > ht_iter.bucket_idx}
  ELSE {}

HashedSet == INSTANCE KeySet
  WITH Key <- Data, NULL <- NoEntry, elements <- committed, rest <- ahead, result <- ht_result

\* hash_table.h: a hash table is a set.  Each call returns what the set says:
\* the growth that an insertion makes loses no entry and does not show, and the
\* iterator returns every entry once.
ImplementsSet == HashedSet!UnorderedSpec

\* Every call returns: no chain has a cycle.
HashCallsReturn == ht_pc # "idle" ~> ht_pc = "idle"

=============================================================================
