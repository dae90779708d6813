------------------------------- MODULE Arrays -------------------------------
(***************************************************************************)
(* The array of array.c in the use make_symbols_comment() makes of it: one *)
(* is filled by array_push_back() and array_push_array_back(), sorted by   *)
(* array_qsort(), and array_merge() merges the elements of equal name in   *)
(* place, one turn of its loop at a time.                                  *)
(*                                                                         *)
(* An element is a symbol with its count of references.  The memory of the *)
(* array is as long as its capacity.                                       *)
(***************************************************************************)
EXTENDS Integers, SequencesExt

CONSTANTS
  Name,           \* of symbols, in the order of symbol_cmp_by_name()
  RefCount,
  MaxLen,         \* bound: elements pushed
  ARRAY_CAP_MIN

ASSUME ArraysAssumption ==
  /\ Name \subseteq Int /\ RefCount \subseteq Nat
  /\ MaxLen \in Nat
  /\ ARRAY_CAP_MIN \in Nat \ {0, 1}

Symbol == [name : Name, ref_count : RefCount]
Unset == [name |-> 0, ref_count |-> 0]

VARIABLES
  elements,
  len,
  step,         \* what the array is used for now
  src,          \* of array_merge(), as the following ones: indices from 0
  dst,
  batch_src,    \* -1 for NULL
  batch_len,
  last_unique,
  pushed,       \* history: the symbols pushed, sorted when the array is
  freed         \* history: the elements free_fn was called for

mergeVars == <<src, dst, batch_src, batch_len, last_unique>>
arrayVars == <<elements, len, step, mergeVars, pushed, freed>>

ArraysTypeOK ==
  /\ elements \in Seq([name : Name \cup {0}, ref_count : Nat])
  /\ len \in 0..Len(elements)
  /\ step \in {"fill", "merge", "done"}
  /\ src \in 0..len /\ dst \in 0..len
  /\ batch_src \in -1..len /\ batch_len \in 0..len
  /\ last_unique \in 0..len
  /\ pushed \in Seq(Symbol) /\ Len(pushed) <= MaxLen
  /\ freed \in Seq(Symbol)

ArraysInit ==
  /\ elements = <<>> /\ len = 0
  /\ step = "fill"
  /\ src = 0 /\ dst = 0 /\ batch_src = -1 /\ batch_len = 0 /\ last_unique = 0
  /\ pushed = <<>> /\ freed = <<>>

\* The capacity grows by half of itself until it is enough.
grown_cap(min_cap) ==
  LET cap[c \in Nat \ {0, 1}] == IF c >= min_cap THEN c ELSE cap[c + c \div 2]
  IN cap[IF elements = <<>> THEN ARRAY_CAP_MIN ELSE Len(elements)]

\* realloc() leaves what it adds unset.
array_reserve(res_len) ==
  IF res_len <= Len(elements) - len THEN elements
  ELSE [i \in 1..grown_cap(len + res_len) |->
          IF i \in DOMAIN elements THEN elements[i] ELSE Unset]

\* array_push_array_back(), and array_push_back() for one element.
PushBack(s) ==
  /\ step = "fill"
  /\ Len(pushed) + Len(s) <= MaxLen
  /\ elements' = [i \in DOMAIN array_reserve(Len(s)) |->
                    IF i \in len + 1..len + Len(s) THEN s[i - len]
                    ELSE array_reserve(Len(s))[i]]
  /\ len' = len + Len(s)
  /\ pushed' = pushed \o s
  /\ UNCHANGED <<step, mergeVars, freed>>

by_name(x, y) == x.name < y.name

\* Where x can be put into s, which is in order.
Places(s, x) ==
  {k \in 1..Len(s) + 1 : /\ \A j \in 1..k - 1 : ~by_name(x, s[j])
                         /\ \A j \in k..Len(s) : ~by_name(s[j], x)}

\* What qsort(3) can make of s: it may leave elements of equal name in any order.
Sortings(s) ==
  LET sorted[n \in 0..Len(s)] ==
        IF n = 0 THEN {<<>>}
        ELSE UNION {{InsertAt(t, k, s[n]) : k \in Places(t, s[n])} : t \in sorted[n - 1]}
  IN  sorted[Len(s)]

array_qsort ==
  \E s \in Sortings(SubSeq(elements, 1, len)) :
    /\ pushed' = s
    /\ elements' = s \o SubSeq(elements, len + 1, Len(elements))

\* array_merge() leaves an array of one element alone.
BeginMerge ==
  /\ step = "fill" /\ len > 0
  /\ array_qsort
  /\ step' = IF len < 2 THEN "done" ELSE "merge"
  /\ src' = IF len < 2 THEN 0 ELSE 1
  /\ dst' = src'
  /\ UNCHANGED <<len, batch_src, batch_len, last_unique, freed>>

at(i) == elements[i + 1]

IsDuplicate == at(src).name = at(last_unique).name

KeepCurrent ==
  /\ step = "merge"
  /\ src < len /\ ~IsDuplicate
  /\ last_unique' = src
  /\ IF batch_src # -1 THEN batch_len' = batch_len + 1 /\ UNCHANGED <<dst, batch_src>>
     ELSE IF dst # src THEN batch_src' = src /\ batch_len' = 1 /\ UNCHANGED dst
     ELSE dst' = dst + 1 /\ UNCHANGED <<batch_src, batch_len>>
  /\ src' = src + 1
  /\ UNCHANGED <<elements, len, step, pushed, freed>>

\* symbol_merge_by_name(): the count goes to the last unique element, where
\* that is before the batch it may be in moves.
merged ==
  [elements EXCEPT ![last_unique + 1].ref_count = @ + at(src).ref_count]

\* Mutant: the batch starts one element early.
moved_one_off(mem) ==
  [i \in DOMAIN mem |->
     IF i \in dst + 1..dst + batch_len THEN mem[i - dst + batch_src - 1] ELSE mem[i]]

moved(mem) ==
  [i \in DOMAIN mem |->
     IF i \in dst + 1..dst + batch_len THEN mem[i - dst + batch_src] ELSE mem[i]]

\* A duplicate ends the batch: it is moved over the duplicates before it.
MergeDuplicate ==
  /\ step = "merge"
  /\ src < len /\ IsDuplicate
  /\ freed' = Append(freed, at(src))
  /\ IF batch_src = -1
     THEN elements' = merged /\ UNCHANGED <<dst, batch_src, batch_len, last_unique>>
     ELSE /\ elements' = moved(merged)
          /\ dst' = dst + batch_len /\ last_unique' = dst + batch_len - 1
          /\ batch_src' = -1 /\ batch_len' = 0
  /\ src' = src + 1
  /\ UNCHANGED <<len, step, pushed>>

MergeDone ==
  /\ step = "merge"
  /\ src = len
  /\ elements' = IF batch_src = -1 THEN elements ELSE moved(elements)
  /\ len' = dst + batch_len
  /\ step' = "done"
  /\ src' = 0 /\ dst' = 0 /\ batch_src' = -1 /\ batch_len' = 0 /\ last_unique' = 0
  /\ UNCHANGED <<pushed, freed>>

array_cleanup ==
  /\ step = "done"
  /\ elements' = <<>> /\ len' = 0 /\ step' = "fill" /\ pushed' = <<>> /\ freed' = <<>>
  /\ UNCHANGED mergeVars

\* One symbol, or the two of another array.
Pushes == {<<x>> : x \in Symbol} \cup {<<x, y>> : x, y \in Symbol}

ArraysNext ==
  \/ \E s \in Pushes : PushBack(s)
  \/ BeginMerge
  \/ KeepCurrent
  \/ MergeDuplicate
  \/ MergeDone
  \/ array_cleanup

ArraysSpec == ArraysInit /\ [][ArraysNext]_arrayVars

-----------------------------------------------------------------------------
(* Properties.                                                             *)

contents == SubSeq(elements, 1, len)

references(seq, name) ==
  SumFunctionOnSet([i \in DOMAIN seq |-> seq[i].ref_count],
                   {i \in DOMAIN seq : seq[i].name = name})

\* One symbol of each name is left, in order, with all of the name's references.
OneOfEachName ==
    /\ \A i \in 1..len - 1 : contents[i].name < contents[i + 1].name
    /\ ToSet(pushed) # {} => len > 0
    /\ \A n \in Name : references(contents, n) = references(pushed, n)

\* free_fn is called for the duplicates and for nothing else, each once, in order
\* and with the value it was pushed with.
FreesDuplicates ==
    LET dups == {i \in 2..Len(pushed) : pushed[i].name = pushed[i - 1].name}
    IN  /\ Len(freed) = Cardinality(dups)
        /\ \A i \in dups : freed[Cardinality({j \in dups : j <= i})] = pushed[i]

\* array_merge() loses no symbol, moves none over another and counts or frees none
\* twice, whatever the lengths of the runs of duplicates at the front, between and
\* at the end.
MergedExactly == step = "done" => OneOfEachName /\ FreesDuplicates

=============================================================================
