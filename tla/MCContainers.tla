---------------------------- MODULE MCContainers ----------------------------
(* RedBlack, HashTable and Arrays for TLC: a behaviour uses one tree, one   *)
(* table or one array, as none of them knows of the others.                 *)
EXTENDS RedBlack, HashTable, Arrays

CONSTANTS k0, k12, k3, k5   \* named for their hashes

VARIABLE used   \* "tree", "table" or "array"

containersVars == <<redBlackVars, hashVars, arrayVars, used>>

\* Few enough that the data outgrow the last one.
Primes == <<2, 3, 4>>

\* They start in two chains; k0 and k12 stay together however the table grows.
HashOf ==
  [x \in Data |-> CASE x = k0 -> 0 [] x = k12 -> 12 [] x = k3 -> 3 [] x = k5 -> 5]

TreeNext ==
  used = "tree" /\ RedBlackNext /\ UNCHANGED <<hashVars, arrayVars, used>>

TableNext ==
  used = "table" /\ HashTableNext /\ UNCHANGED <<redBlackVars, arrayVars, used>>

ArrayNext ==
  used = "array" /\ ArraysNext /\ UNCHANGED <<redBlackVars, hashVars, used>>

ContainersInit ==
  /\ RedBlackInit /\ HashTableInit /\ ArraysInit
  /\ used \in {"tree", "table", "array"}

ContainersSpec ==
  /\ ContainersInit
  /\ [][TreeNext \/ TableNext \/ ArrayNext]_containersVars
  /\ WF_redBlackVars(TreeNext /\ RedBlackStep)
  /\ WF_hashVars(TableNext /\ HashCallStep)

\* Every call on a tree or a table returns: the loops of the fix-ups, of growth
\* and of the iterators end.
EveryCallReturns == CallsReturn /\ HashCallsReturn

-----------------------------------------------------------------------------
(* The trees that are looked at.                                           *)

\* Once nil's parent is lost nothing is claimed any more.
Sound == ~nil_moved

\* Every sequence of calls on the first few data.
Shallow == Sound /\ (allocated \cup {arg}) \subseteq ((1..4) \cup {NULL})

\* A deep tree: data are added in ascending order, and then two of them at most
\* are deleted; nothing is searched, and only the last trees are iterated over.
Deep ==
  /\ Sound
  /\ \/ \E n \in 0..Cardinality(Key) : allocated = 1..n
     \/ Cardinality(allocated) >= Cardinality(Key) - 2 /\ pc # "insert"
  /\ pc # "find"
  /\ iter.on => Cardinality(allocated) >= Cardinality(Key) - 1

ShallowOrDeep == Shallow \/ Deep

=============================================================================
