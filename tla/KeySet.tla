------------------------------- MODULE KeySet -------------------------------
(***************************************************************************)
(* What red_black.h and hash_table.h promise: a set of data that can be    *)
(* added to, removed from, searched, emptied, and iterated over, the tree  *)
(* in ascending order and the table in any.  Each operation is one step.   *)
(***************************************************************************)
EXTENDS Integers, FiniteSetsExt

CONSTANTS
  Key,    \* the data, in the order of cmp_fn
  NULL

VARIABLES
  elements,
  rest,     \* what the iterator still has to return
  result    \* of the last call that returned something

keySetVars == <<elements, rest, result>>

Returns(node, inserted) == [node |-> node, inserted |-> inserted]

KeySetInit ==
  /\ elements = {}
  /\ rest = {}
  /\ result = Returns(NULL, FALSE)

Insert(k) ==
  /\ result' = Returns(k, k \notin elements)
  /\ elements' = elements \cup {k}
  /\ rest' = {}

Delete(k) ==
  /\ UNCHANGED result
  /\ elements' = elements \ {k}
  /\ rest' = {}

Find(k) ==
  /\ result' = Returns(IF k \in elements THEN k ELSE NULL, FALSE)
  /\ UNCHANGED <<elements, rest>>

Iterate ==
  /\ rest' = elements
  /\ UNCHANGED <<elements, result>>

NextInOrder ==
  /\ result' = Returns(IF rest = {} THEN NULL ELSE Min(rest), FALSE)
  /\ rest' = IF rest = {} THEN {} ELSE rest \ {Min(rest)}
  /\ UNCHANGED elements

NextInAnyOrder ==
  /\ \/ rest = {} /\ result' = Returns(NULL, FALSE) /\ UNCHANGED rest
     \/ \E k \in rest : result' = Returns(k, FALSE) /\ rest' = rest \ {k}
  /\ UNCHANGED elements

Clear ==
  /\ UNCHANGED result
  /\ elements' = {}
  /\ rest' = {}

\* An operation that changes the set begins: the iterator must not be used any
\* more.
Forget ==
  /\ rest' = {}
  /\ UNCHANGED <<elements, result>>

AnyCall ==
  \/ \E k \in Key : Insert(k) \/ Delete(k) \/ Find(k)
  \/ Iterate
  \/ Clear
  \/ Forget

KeySetNext == AnyCall \/ NextInOrder

KeySetSpec == KeySetInit /\ [][KeySetNext]_keySetVars
UnorderedSpec == KeySetInit /\ [][AnyCall \/ NextInAnyOrder]_keySetVars

=============================================================================
