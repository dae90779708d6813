--------------------------- MODULE Symbols_proofs ---------------------------
(***************************************************************************)
(* Proofs about the symbols that ask for a header.  The scopes of the      *)
(* visitor nest, with what follows for the headers it asks for: for every  *)
(* set of declarations, and every tree that libclang may hand out.  The    *)
(* exceptions of cxx.c are sound and complete: for every set of headers,   *)
(* choice of proxies and sequence of declarations.                         *)
(***************************************************************************)
EXTENDS Symbols, Cxx, Facts

-----------------------------------------------------------------------------
(***************************************************************************)
(* The inductive invariant.                                                *)
(***************************************************************************)

\* The nodes are in preorder: all between a node and its parent are inside of
\* the parent.
InPreorder ==
  \A m \in Nodes :
    /\ tree[m].up \in 0..(m - 1)
    /\ \A k \in (tree[m].up + 1)..(m - 1) : tree[k].up >= tree[m].up

\* What the cursor of the k-th frame is a child of.
NodeBelow(k) == IF k = 1 THEN 0 ELSE stack[k - 1].node
CursorBelow(k) == IF k = 1 THEN TranslationUnit ELSE stack[k - 1].cursor

\* The k-th frame is of a node that all nodes since are inside of.
Nested(k) ==
  /\ stack[k].node \in Nodes
  /\ tree[stack[k].node] = [cursor |-> stack[k].cursor, up |-> NodeBelow(k)]
  /\ \A m \in (stack[k].node + 1)..Len(tree) : tree[m].up >= stack[k].node
  /\ up_from(stack[k].node) = {stack[l].node : l \in 1..k}
  /\ CursorBelow(k).kind \in stack[k].cursor.parents

\* It has what the visitor knew when it came to that node.
Saved(k) ==
  /\ stack[k].is_new_statement = IsNewStatement(stack[k].cursor)
  /\ stack[k].prev_fn_cls = FunctionClassIn(NodeBelow(k))
  /\ stack[k].prev_deferred_fn = DeferredIn(NodeBelow(k))
  /\ stack[k].prev_statement = StatementClass(NodeBelow(k), stack[k].node - 1)

VisitInv ==
  /\ SymbolsTypeOK
  /\ InPreorder
  /\ \A k \in DOMAIN stack : Nested(k) /\ Saved(k)
  /\ ScopesNest

SymbolsInv ==
  /\ VisitInv
  /\ CallsAccounted
  /\ ExemptCallsHidden
  /\ InheritedIsSufficient

-----------------------------------------------------------------------------
(***************************************************************************)
(* The operators of the properties.                                        *)
(***************************************************************************)

\* Of some naturals that a natural bounds there is a greatest.
LEMMA GreatestNatural ==
  ASSUME NEW n \in Nat, NEW S \in SUBSET (0..n), S # {}
  PROVE  Max(S) \in S /\ \A y \in S : y <= Max(S)
<1> DEFINE T == {n - y : y \in S}
<1>1. T \in SUBSET Nat /\ T # {}
  <2>1. \A y \in S : n - y \in Nat
    OBVIOUS
  <2>2. PICK y \in S : TRUE
    OBVIOUS
  <2>3. n - y \in T
    OBVIOUS
  <2> QED
    BY <2>1, <2>3
<1>2. PICK t \in T : \A u \in T : <<u, t>> \notin OpToRel(<, Nat)
  <2> HIDE DEF T
  <2> QED
    BY <1>1, NatLessThanWellFounded, WFMin
<1>3. \A u \in T : <<u, t>> \in OpToRel(<, Nat) <=> u < t
  <2> HIDE DEF T
  <2> QED
    BY <1>1 DEF OpToRel
<1>4. \A u \in T : ~(u < t)
  BY <1>2, <1>3, Zenon
<1>5. PICK x \in S : t = n - x
  OBVIOUS
<1>6. \A y \in S : x >= y
  BY <1>4, <1>5
<1>7. \E z \in S : \A y \in S : z >= y
  BY <1>6
<1>8. Max(S) \in S /\ \A y \in S : Max(S) >= y
  BY <1>7 DEF Max
<1> QED
  BY <1>8

LEMMA MaxIs ==
  ASSUME NEW n \in Nat, NEW S \in SUBSET (0..n), NEW x \in S, \A y \in S : y <= x
  PROVE  Max(S) = x
<1>1. Max(S) \in S /\ x <= Max(S)
  BY GreatestNatural
<1>2. ASSUME NEW m \in S, x <= m PROVE m = x
  <2>1. m \in 0..n /\ x \in 0..n /\ m <= x
    OBVIOUS
  <2> QED
    BY <1>2, <2>1
<1> QED
  BY <1>1, <1>2

LEMMA CursorAtType ==
  ASSUME SymbolsTypeOK, NEW i \in Nodes
  PROVE  CursorAt(i) \in Cursor /\ tree[i].up \in Nat
<1> DEFINE NodeType == [cursor : Cursor, up : Nat]
<1>1. tree \in Seq(NodeType) /\ i \in 1..Len(tree)
  BY DEF SymbolsTypeOK, Nodes
<1>2. tree[i] \in NodeType
  <2> HIDE DEF NodeType
  <2> QED
    BY <1>1
<1> QED
  BY <1>2 DEF CursorAt

\* The last of some nodes, or 0.
Last(S) == IF S = {} THEN 0 ELSE Max(S)

LEMMA LastIs ==
  ASSUME NEW n \in Nat, NEW S \in SUBSET (1..n)
  PROVE  /\ Last(S) \in 0..n
         /\ Last(S) # 0 <=> S # {}
         /\ Last(S) # 0 => Last(S) \in S
         /\ \A y \in S : y <= Last(S)
<1>1. CASE S = {}
  BY <1>1 DEF Last
<1>2. CASE S # {}
  <2>1. S \in SUBSET (0..n)
    OBVIOUS
  <2>2. Max(S) \in S /\ \A y \in S : y <= Max(S)
    BY <1>2, <2>1, GreatestNatural
  <2>3. Max(S) \in 1..n /\ Last(S) = Max(S)
    BY <1>2, <2>2 DEF Last
  <2> QED
    BY <1>2, <2>2, <2>3
<1> QED
  BY <1>1, <1>2

LEMMA LastWith ==
  ASSUME NEW n \in Nat, NEW S \in SUBSET (1..n), n \in S
  PROVE  Last(S) = n
BY LastIs

\* The nodes that a node is inside of are the node and those its parent is
\* inside of.
LEMMA UpFromParent ==
  ASSUME SymbolsTypeOK, InPreorder, NEW m \in Nodes
  PROVE  /\ up_from(m) = {m} \cup up_from(tree[m].up)
         /\ up_from(tree[m].up) \in SUBSET (1..(m - 1))
<1>1. Len(tree) \in Nat /\ m \in Nat /\ m >= 1 /\ m <= Len(tree)
  BY DEF SymbolsTypeOK, Nodes
<1>2. /\ tree[m].up \in 0..(m - 1)
      /\ \A k \in (tree[m].up + 1)..(m - 1) : tree[k].up >= tree[m].up
  BY DEF InPreorder
<1>3. \A k \in 1..m : tree[k].up \in Nat
  BY <1>1, CursorAtType DEF Nodes
<1>4. ASSUME NEW j \in up_from(m), j # m PROVE j \in up_from(tree[m].up)
  <2>1. j \in 1..m /\ \A k \in (j + 1)..m : tree[k].up >= j
    BY DEF up_from
  <2>2. tree[m].up >= j
    BY <1>1, <1>4, <2>1
  <2> QED
    BY <1>1, <1>2, <2>1, <2>2 DEF up_from
<1>5. ASSUME NEW j \in up_from(tree[m].up) PROVE j \in up_from(m)
  <2>1. j \in 1..(tree[m].up) /\ \A k \in (j + 1)..(tree[m].up) : tree[k].up >= j
    BY DEF up_from
  <2>2. ASSUME NEW k \in (j + 1)..m PROVE tree[k].up >= j
    <3>1. k <= tree[m].up => tree[k].up >= j
      BY <1>1, <1>2, <2>1
    <3>2. k = m => tree[k].up >= j
      BY <1>1, <1>2, <2>1
    <3>3. k > tree[m].up /\ k # m => tree[k].up >= tree[m].up /\ tree[k].up \in Nat
      BY <1>1, <1>2, <1>3, <2>1
    <3> QED
      BY <1>1, <1>2, <2>1, <3>1, <3>2, <3>3
  <2> QED
    BY <1>1, <1>2, <2>1, <2>2 DEF up_from
<1>6. m \in up_from(m)
  BY <1>1 DEF up_from
<1>7. up_from(tree[m].up) \in SUBSET (1..(m - 1))
  BY <1>1, <1>2 DEF up_from
<1> QED
  BY <1>4, <1>5, <1>6, <1>7

LEMMA UpFromType ==
  ASSUME NEW i \in Nat
  PROVE  /\ up_from(i) \in SUBSET (1..i)
         /\ i = 0 => up_from(i) = {}
         /\ i # 0 => i \in up_from(i)
BY DEF up_from

-----------------------------------------------------------------------------
(***************************************************************************)
(* What is known of a node does not change when nodes are added.           *)
(***************************************************************************)

TreeGrows ==
  /\ lang' = lang
  /\ Len(tree) \in Nat /\ Len(tree') \in Nat /\ Len(tree) <= Len(tree')
  /\ \A m \in 1..Len(tree) : tree'[m] = tree[m]

LEMMA UpFromStays ==
  ASSUME TreeGrows, NEW i \in 0..Len(tree)
  PROVE  up_from(i)' = up_from(i)
BY DEF TreeGrows, up_from

\* It is the same which cursors there are and what they are.
LEMMA CursorStays ==
  ASSUME TreeGrows, NEW j \in Nodes
  PROVE  /\ CursorAt(j)' = CursorAt(j)
         /\ IsFunctionCursor(CursorAt(j))' = IsFunctionCursor(CursorAt(j))
         /\ IsDeferredCall(CursorAt(j))' = IsDeferredCall(CursorAt(j))
         /\ IsNewStatement(CursorAt(j))' = IsNewStatement(CursorAt(j))
         /\ NamesClass(CursorAt(j))' = NamesClass(CursorAt(j))
BY DEF TreeGrows, CursorAt, Nodes, IsFunctionCursor, IsDeferredCall, IsNewStatement,
       NamesClass, IsCxx

FunctionAt(i) == Last({j \in up_from(i) : IsFunctionCursor(CursorAt(j))})
CallAt(i) == Last({j \in up_from(i) : IsDeferredCall(CursorAt(j))})
StatementAt(i) == Last({j \in up_from(i) : IsNewStatement(CursorAt(j))})

LEMMA Innermosts ==
  ASSUME NEW i
  PROVE  /\ Innermost(i, IsFunctionCursor) = FunctionAt(i)
         /\ Innermost(i, IsDeferredCall) = CallAt(i)
         /\ Innermost(i, IsNewStatement) = StatementAt(i)
BY DEF Innermost, FunctionAt, CallAt, StatementAt, Last

LEMMA InnermostsStay ==
  ASSUME TreeGrows, NEW i \in 0..Len(tree)
  PROVE  /\ FunctionAt(i)' = FunctionAt(i)
         /\ CallAt(i)' = CallAt(i)
         /\ StatementAt(i)' = StatementAt(i)
<1>1. up_from(i)' = up_from(i)
  BY UpFromStays
<1>2. up_from(i) \in SUBSET Nodes
  BY DEF up_from, Nodes, TreeGrows
<1>3. {j \in up_from(i) : IsFunctionCursor(CursorAt(j))}'
        = {j \in up_from(i) : IsFunctionCursor(CursorAt(j))}
  BY <1>1, <1>2, CursorStays
<1>4. {j \in up_from(i) : IsDeferredCall(CursorAt(j))}'
        = {j \in up_from(i) : IsDeferredCall(CursorAt(j))}
  BY <1>1, <1>2, CursorStays
<1>5. {j \in up_from(i) : IsNewStatement(CursorAt(j))}'
        = {j \in up_from(i) : IsNewStatement(CursorAt(j))}
  BY <1>1, <1>2, CursorStays
<1> QED
  BY <1>3, <1>4, <1>5 DEF FunctionAt, CallAt, StatementAt

\* The nodes up to n that name a class in the statement that i is in.
NamedIn(i, n) == {j \in 1..n : NamesClass(CursorAt(j)) /\ StatementAt(j) = StatementAt(i)}

LEMMA ScopesAt ==
  ASSUME NEW i \in Nat, NEW n \in Nat
  PROVE  /\ FunctionClassIn(i) =
              IF FunctionAt(i) = 0 THEN NULL ELSE function_class(CursorAt(FunctionAt(i)))
         /\ DeferredIn(i) =
              IF CallAt(i) = 0 \/ ~IsFunction(CursorAt(CallAt(i)).ref) THEN NULL
              ELSE CursorAt(CallAt(i)).ref
         /\ StatementClass(i, n) =
              IF Last(NamedIn(i, n)) = 0 THEN NULL ELSE CursorAt(Last(NamedIn(i, n))).ref
<1>1. FunctionClassIn(i) =
        IF FunctionAt(i) = 0 THEN NULL ELSE function_class(CursorAt(FunctionAt(i)))
  BY Innermosts DEF FunctionClassIn
<1>2. DeferredIn(i) =
        IF CallAt(i) = 0 \/ ~IsFunction(CursorAt(CallAt(i)).ref) THEN NULL
        ELSE CursorAt(CallAt(i)).ref
  BY Innermosts DEF DeferredIn
<1>3. NamedIn(i, n) =
        {j \in 1..n : /\ NamesClass(CursorAt(j))
                      /\ Innermost(j, IsNewStatement) = Innermost(i, IsNewStatement)}
  BY Innermosts DEF NamedIn
<1>4. StatementClass(i, n) =
        IF NamedIn(i, n) = {} THEN NULL ELSE CursorAt(Max(NamedIn(i, n))).ref
  BY <1>3 DEF StatementClass
<1>5. Last(NamedIn(i, n)) = 0 <=> NamedIn(i, n) = {}
  BY LastIs DEF NamedIn
<1> QED
  BY <1>1, <1>2, <1>4, <1>5 DEF Last

LEMMA InnermostsType ==
  ASSUME NEW i \in Nat, NEW n \in Nat
  PROVE  /\ FunctionAt(i) \in 0..i /\ CallAt(i) \in 0..i /\ StatementAt(i) \in 0..i
         /\ Last(NamedIn(i, n)) \in 0..n
<1>1. up_from(i) \in SUBSET (1..i)
  BY UpFromType
<1> QED
  BY <1>1, LastIs DEF FunctionAt, CallAt, StatementAt, NamedIn

LEMMA ScopesStay ==
  ASSUME TreeGrows, NEW i \in 0..Len(tree), NEW n \in 0..Len(tree)
  PROVE  /\ FunctionClassIn(i)' = FunctionClassIn(i)
         /\ DeferredIn(i)' = DeferredIn(i)
         /\ StatementClass(i, n)' = StatementClass(i, n)
<1>1. /\ FunctionAt(i)' = FunctionAt(i) /\ CallAt(i)' = CallAt(i)
      /\ FunctionAt(i) \in 0..i /\ CallAt(i) \in 0..i
  BY InnermostsStay, InnermostsType
<1>2. NamedIn(i, n)' = NamedIn(i, n)
  <2>1. StatementAt(i)' = StatementAt(i)
    BY InnermostsStay
  <2>2. ASSUME NEW j \in 1..n
        PROVE  /\ StatementAt(j)' = StatementAt(j)
               /\ NamesClass(CursorAt(j))' = NamesClass(CursorAt(j))
    <3>1. j \in 0..Len(tree) /\ j \in Nodes
      BY DEF TreeGrows, Nodes
    <3> QED
      BY <3>1, InnermostsStay, CursorStays
  <2> QED
    BY <2>1, <2>2 DEF NamedIn
<1>3. i \in Nat /\ n \in Nat /\ \A j \in 1..i \cup 1..n : tree'[j] = tree[j]
  BY DEF TreeGrows
<1>4. PICK fn : fn = FunctionAt(i)
  OBVIOUS
<1>5. PICK call : call = CallAt(i)
  OBVIOUS
<1>6. PICK named : named = NamedIn(i, n)
  OBVIOUS
<1>7. FunctionAt(i)' = fn /\ CallAt(i)' = call /\ NamedIn(i, n)' = named
  BY <1>1, <1>2, <1>4, <1>5, <1>6
<1>8. named # {} => Max(named) \in 1..n
  <2>1. named \in SUBSET (1..n) /\ named \in SUBSET (0..n)
    BY <1>6 DEF NamedIn
  <2> QED
    BY <1>3, <2>1, GreatestNatural
<1>9. FunctionClassIn(i)' = FunctionClassIn(i)
  <2>1. FunctionClassIn(i) = IF fn = 0 THEN NULL ELSE function_class(tree[fn].cursor)
    BY <1>3, <1>4, ScopesAt DEF CursorAt
  <2>2. (FunctionClassIn(i) =
           IF FunctionAt(i) = 0 THEN NULL ELSE function_class(CursorAt(FunctionAt(i))))'
    BY DEF FunctionClassIn, Innermost, FunctionAt, Last
  <2>3. FunctionClassIn(i)' = IF fn = 0 THEN NULL ELSE function_class(tree'[fn].cursor)
    BY <1>7, <2>2 DEF CursorAt, function_class, IsClass
  <2> QED
    BY <1>1, <1>3, <1>4, <2>1, <2>3
<1>10. DeferredIn(i)' = DeferredIn(i)
  <2>1. DeferredIn(i) =
          IF call = 0 \/ ~IsFunction(tree[call].cursor.ref) THEN NULL
          ELSE tree[call].cursor.ref
    BY <1>3, <1>5, ScopesAt DEF CursorAt
  <2>2. (DeferredIn(i) =
           IF CallAt(i) = 0 \/ ~IsFunction(CursorAt(CallAt(i)).ref) THEN NULL
           ELSE CursorAt(CallAt(i)).ref)'
    BY DEF DeferredIn, Innermost, CallAt, Last
  <2>3. DeferredIn(i)' =
          IF call = 0 \/ ~IsFunction(tree'[call].cursor.ref) THEN NULL
          ELSE tree'[call].cursor.ref
    BY <1>7, <2>2 DEF CursorAt, IsFunction
  <2> QED
    BY <1>1, <1>3, <1>5, <2>1, <2>3
<1>11. StatementClass(i, n)' = StatementClass(i, n)
  <2>1. NamedIn(i, n) =
          {j \in 1..n : /\ NamesClass(CursorAt(j))
                        /\ Innermost(j, IsNewStatement) = Innermost(i, IsNewStatement)}
    BY DEF NamedIn, StatementAt, Innermost, Last
  <2>2. (NamedIn(i, n) =
          {j \in 1..n : /\ NamesClass(CursorAt(j))
                        /\ Innermost(j, IsNewStatement) = Innermost(i, IsNewStatement)})'
    BY DEF NamedIn, StatementAt, Innermost, Last
  <2>3. StatementClass(i, n) = IF named = {} THEN NULL ELSE tree[Max(named)].cursor.ref
    BY <1>6, <2>1 DEF StatementClass, CursorAt
  <2>4. StatementClass(i, n)' = IF named = {} THEN NULL ELSE tree'[Max(named)].cursor.ref
    BY <1>7, <2>2 DEF StatementClass, CursorAt
  <2> QED
    BY <1>3, <1>8, <2>3, <2>4
<1> QED
  BY <1>9, <1>10, <1>11

\* What a node is in is what its parent is in, unless the node changes it.
LEMMA InnermostsOfChild ==
  ASSUME SymbolsTypeOK, InPreorder, NEW m \in Nodes
  PROVE  /\ FunctionAt(m) =
              IF IsFunctionCursor(CursorAt(m)) THEN m ELSE FunctionAt(tree[m].up)
         /\ CallAt(m) = IF IsDeferredCall(CursorAt(m)) THEN m ELSE CallAt(tree[m].up)
         /\ StatementAt(m) =
              IF IsNewStatement(CursorAt(m)) THEN m ELSE StatementAt(tree[m].up)
<1>1. /\ up_from(m) = {m} \cup up_from(tree[m].up)
      /\ m \in Nat
  BY UpFromParent DEF Nodes
<1>2. up_from(m) \in SUBSET (1..m) /\ m \in up_from(m)
  BY <1>1, UpFromType
<1>3. FunctionAt(m) = IF IsFunctionCursor(CursorAt(m)) THEN m ELSE FunctionAt(tree[m].up)
  <2> DEFINE S == {j \in up_from(m) : IsFunctionCursor(CursorAt(j))}
  <2>1. S \in SUBSET (1..m)
    BY <1>2
  <2>2. IsFunctionCursor(CursorAt(m)) => m \in S
    BY <1>2
  <2>3. ~IsFunctionCursor(CursorAt(m)) =>
          S = {j \in up_from(tree[m].up) : IsFunctionCursor(CursorAt(j))}
    BY <1>1
  <2>4. FunctionAt(m) = Last(S)
    BY DEF FunctionAt
  <2> HIDE DEF S
  <2> QED
    BY <1>1, <2>1, <2>2, <2>3, <2>4, LastWith DEF FunctionAt
<1>4. CallAt(m) = IF IsDeferredCall(CursorAt(m)) THEN m ELSE CallAt(tree[m].up)
  <2> DEFINE S == {j \in up_from(m) : IsDeferredCall(CursorAt(j))}
  <2>1. S \in SUBSET (1..m)
    BY <1>2
  <2>2. IsDeferredCall(CursorAt(m)) => m \in S
    BY <1>2
  <2>3. ~IsDeferredCall(CursorAt(m)) =>
          S = {j \in up_from(tree[m].up) : IsDeferredCall(CursorAt(j))}
    BY <1>1
  <2>4. CallAt(m) = Last(S)
    BY DEF CallAt
  <2> HIDE DEF S
  <2> QED
    BY <1>1, <2>1, <2>2, <2>3, <2>4, LastWith DEF CallAt
<1>5. StatementAt(m) = IF IsNewStatement(CursorAt(m)) THEN m ELSE StatementAt(tree[m].up)
  <2> DEFINE S == {j \in up_from(m) : IsNewStatement(CursorAt(j))}
  <2>1. S \in SUBSET (1..m)
    BY <1>2
  <2>2. IsNewStatement(CursorAt(m)) => m \in S
    BY <1>2
  <2>3. ~IsNewStatement(CursorAt(m)) =>
          S = {j \in up_from(tree[m].up) : IsNewStatement(CursorAt(j))}
    BY <1>1
  <2>4. StatementAt(m) = Last(S)
    BY DEF StatementAt
  <2> HIDE DEF S
  <2> QED
    BY <1>1, <2>1, <2>2, <2>3, <2>4, LastWith DEF StatementAt
<1> QED
  BY <1>3, <1>4, <1>5

LEMMA ClassOfChild ==
  ASSUME SymbolsTypeOK, InPreorder, NEW m \in Nodes
  PROVE  FunctionClassIn(m) = IF IsFunctionCursor(CursorAt(m)) THEN function_class(CursorAt(m))
                              ELSE FunctionClassIn(tree[m].up)
<1>1. m \in Nat /\ m # 0 /\ tree[m].up \in Nat
  BY DEF Nodes, InPreorder
<1> QED
  BY <1>1, InnermostsOfChild, ScopesAt

LEMMA DeferredOfChild ==
  ASSUME SymbolsTypeOK, InPreorder, NEW m \in Nodes
  PROVE  DeferredIn(m) = IF ~IsDeferredCall(CursorAt(m)) THEN DeferredIn(tree[m].up)
                         ELSE IF IsFunction(CursorAt(m).ref) THEN CursorAt(m).ref ELSE NULL
<1>1. m \in Nat /\ m # 0 /\ tree[m].up \in Nat
  BY DEF Nodes, InPreorder
<1> QED
  BY <1>1, InnermostsOfChild, ScopesAt

\* A node that no statement begins with is in its parent's statement.
LEMMA StatementOfChild ==
  ASSUME SymbolsTypeOK, InPreorder, NEW m \in Nodes, ~IsNewStatement(CursorAt(m)),
         NEW n \in Nat
  PROVE  StatementClass(m, n) = StatementClass(tree[m].up, n)
<1>1. m \in Nat /\ tree[m].up \in Nat
  BY DEF Nodes, InPreorder
<1>2. NamedIn(m, n) = NamedIn(tree[m].up, n)
  BY InnermostsOfChild DEF NamedIn
<1> QED
  BY <1>1, <1>2, ScopesAt

\* The same of all nodes, for the next state too.
Inherits ==
  \A m \in Nodes :
    /\ FunctionClassIn(m) = IF IsFunctionCursor(CursorAt(m)) THEN function_class(CursorAt(m))
                            ELSE FunctionClassIn(tree[m].up)
    /\ DeferredIn(m) = IF ~IsDeferredCall(CursorAt(m)) THEN DeferredIn(tree[m].up)
                       ELSE IF IsFunction(CursorAt(m).ref) THEN CursorAt(m).ref ELSE NULL
    /\ up_from(m) = {m} \cup up_from(tree[m].up)
    /\ StatementAt(m) = IF IsNewStatement(CursorAt(m)) THEN m ELSE StatementAt(tree[m].up)

LEMMA NodesInherit == SymbolsTypeOK /\ InPreorder => Inherits
BY ClassOfChild, DeferredOfChild, UpFromParent, InnermostsOfChild DEF Inherits

LEMMA NodesInheritNext == SymbolsTypeOK' /\ InPreorder' => Inherits'
BY NodesInherit, PTL

-----------------------------------------------------------------------------
(***************************************************************************)
(* What a cursor makes the visitor add.                                    *)
(***************************************************************************)

LEMMA CursorTyped ==
  ASSUME NEW c \in Cursor
  PROVE  /\ c.kind \in Kinds /\ c.ref \in DecOrNull /\ c.definition \in DecOrNull
         /\ c.tokens \in SUBSET Dec /\ c.exempt \in BOOLEAN
         /\ c.kind = "CallExpr" => "ClassDecl" \notin c.parents
         /\ c.definition # NULL /\ c.ref # NULL => DecKind[c.ref] # "function"
BY SymbolsAssumption DEF CursorType, DecOrNull

LEMMA IncludableType ==
  ASSUME NEW d \in DecOrNull, IsIncludable(d)
  PROVE  d \in Dec /\ DecFile[d] \in File
BY SymbolsAssumption DEF IsIncludable, DecOrNull

\* Why a cursor asks for d.
Asks(c, d, deferred, scope) ==
  \/ c.kind \in {"FieldDecl", "MacroDefinition"} /\ d \in c.tokens
  \/ c.kind = "OverloadedDeclRef" /\ c.ref = d
  \/ /\ c.ref = d /\ ~IsExempt(c, deferred, scope)
     /\ IsIncludable(d) \/ c.definition # NULL

LEMMA MostKindsAdd ==
  ASSUME NEW c \in Cursor, NEW deferred, NEW scope
  PROVE  \E A, B \in SUBSET (Dec \X File) :
           /\ visit_most_kinds(c, deferred, scope) = <<A, B>>
           /\ \A d \in Dec, file \in File :
                <<d, file>> \in A \cup B => Asks(c, d, deferred, scope)
           /\ IsIncludable(c.ref) /\ ~IsExempt(c, deferred, scope) =>
                <<c.ref, DecFile[c.ref]>> \in A
<1>1. c.ref \in DecOrNull /\ c.definition \in DecOrNull
  BY CursorTyped
<1>2. NULL \notin Dec
  BY SymbolsAssumption
<1>3. CASE IsExempt(c, deferred, scope)
  BY <1>3 DEF visit_most_kinds
<1>4. CASE ~IsExempt(c, deferred, scope)
  <2>1. for_declaration(c) \in SUBSET (Dec \X File)
    BY <1>1, IncludableType DEF for_declaration
  <2>2. for_definition(c) \in SUBSET (Dec \X File)
    BY <1>1, IncludableType DEF for_definition, DecOrNull
  <2>3. ASSUME NEW d \in Dec, NEW file \in File, <<d, file>> \in for_declaration(c)
        PROVE  c.ref = d /\ IsIncludable(d)
    BY <2>3 DEF for_declaration
  <2>4. ASSUME NEW d \in Dec, NEW file \in File, <<d, file>> \in for_definition(c)
        PROVE  c.ref = d /\ c.definition # NULL
    BY <2>4 DEF for_definition, IsIncludable
  <2>5. visit_most_kinds(c, deferred, scope) = <<for_declaration(c), for_definition(c)>>
    BY <1>4 DEF visit_most_kinds
  <2>6. IsIncludable(c.ref) => <<c.ref, DecFile[c.ref]>> \in for_declaration(c)
    BY DEF for_declaration
  <2>7. \A d \in Dec, file \in File :
          <<d, file>> \in for_declaration(c) \cup for_definition(c) => Asks(c, d, deferred, scope)
    BY <1>4, <2>3, <2>4 DEF Asks
  <2> QED
    BY <2>1, <2>2, <2>5, <2>6, <2>7
<1> QED
  BY <1>3, <1>4

LEMMA TokensAdd ==
  ASSUME NEW c \in Cursor
  PROVE  \E A \in SUBSET (Dec \X File) :
           /\ visit_tokens(c) = <<A, {}>>
           /\ \A d \in Dec, file \in File : <<d, file>> \in A => d \in c.tokens
<1> DEFINE A == {<<d, DecFile[d]>> : d \in {t \in c.tokens \ c.params : IsIncludable(t)}}
<1>1. c.tokens \in SUBSET Dec
  BY CursorTyped
<1>2. \A d \in {t \in c.tokens \ c.params : IsIncludable(t)} : d \in Dec /\ DecFile[d] \in File
  BY <1>1, IncludableType DEF DecOrNull
<1>3. A \in SUBSET (Dec \X File)
  BY <1>2
<1>4. \A d \in Dec, file \in File : <<d, file>> \in A => d \in c.tokens
  OBVIOUS
<1>5. visit_tokens(c) = <<A, {}>>
  BY DEF visit_tokens
<1> QED
  BY <1>3, <1>4, <1>5

ScopeOf(c, parent, fn_cls, statement) ==
  sid_cxx_scope(fn_cls, statement, else_scope(c, parent))

LEMMA AddedFor ==
  ASSUME NEW c \in Cursor, NEW parent, NEW fn_cls, NEW deferred, NEW statement
  PROVE  \E A, B \in SUBSET (Dec \X File) :
           /\ added_for(c, parent, fn_cls, deferred, statement) = <<A, B>>
           /\ \A d \in Dec, file \in File :
                <<d, file>> \in A \cup B =>
                  /\ ~IsSkipped(c)
                  /\ Asks(c, d, deferred, ScopeOf(c, parent, fn_cls, statement))
<1> DEFINE scope == ScopeOf(c, parent, fn_cls, statement)
<1> DEFINE Why(A, B) ==
      /\ added_for(c, parent, fn_cls, deferred, statement) = <<A, B>>
      /\ \A d \in Dec, file \in File :
           <<d, file>> \in A \cup B => ~IsSkipped(c) /\ Asks(c, d, deferred, scope)
<1>1. CASE added_for(c, parent, fn_cls, deferred, statement) = <<{}, {}>>
  BY <1>1
<1>2. CASE /\ ~IsSkipped(c)
           /\ added_for(c, parent, fn_cls, deferred, statement)
                = visit_most_kinds(c, deferred, scope)
  <2>1. PICK A \in SUBSET (Dec \X File), B \in SUBSET (Dec \X File) :
           /\ visit_most_kinds(c, deferred, scope) = <<A, B>>
           /\ \A d \in Dec, file \in File :
                <<d, file>> \in A \cup B => Asks(c, d, deferred, scope)
           /\ IsIncludable(c.ref) /\ ~IsExempt(c, deferred, scope) =>
                <<c.ref, DecFile[c.ref]>> \in A
    <3> HIDE DEF scope
    <3> QED
      BY MostKindsAdd, Zenon
  <2> QED
    BY <1>2, <2>1
<1>3. CASE /\ ~IsSkipped(c) /\ c.kind \in {"FieldDecl", "MacroDefinition"}
           /\ added_for(c, parent, fn_cls, deferred, statement) = visit_tokens(c)
  <2>1. PICK A \in SUBSET (Dec \X File) :
          /\ visit_tokens(c) = <<A, {}>>
          /\ \A d \in Dec, file \in File : <<d, file>> \in A => d \in c.tokens
    BY TokensAdd
  <2>2. \A d \in Dec, file \in File :
          <<d, file>> \in A \cup {} => ~IsSkipped(c) /\ Asks(c, d, deferred, scope)
    BY <1>3, <2>1 DEF Asks
  <2> QED
    BY <1>3, <2>1, <2>2
<1>4. CASE /\ ~IsSkipped(c) /\ c.kind = "OverloadedDeclRef"
           /\ added_for(c, parent, fn_cls, deferred, statement) = <<for_declaration(c), {}>>
  <2>1. c.ref \in DecOrNull
    BY CursorTyped
  <2>2. for_declaration(c) \in SUBSET (Dec \X File)
    BY <2>1, IncludableType DEF for_declaration
  <2>3. \A d \in Dec, file \in File :
          <<d, file>> \in for_declaration(c) \cup {} =>
            ~IsSkipped(c) /\ Asks(c, d, deferred, scope)
    BY <1>4 DEF for_declaration, Asks
  <2> QED
    BY <1>4, <2>2, <2>3
<1>5. \/ added_for(c, parent, fn_cls, deferred, statement) = <<{}, {}>>
      \/ /\ ~IsSkipped(c)
         /\ added_for(c, parent, fn_cls, deferred, statement)
              = visit_most_kinds(c, deferred, scope)
      \/ /\ ~IsSkipped(c) /\ c.kind \in {"FieldDecl", "MacroDefinition"}
         /\ added_for(c, parent, fn_cls, deferred, statement) = visit_tokens(c)
      \/ /\ ~IsSkipped(c) /\ c.kind = "OverloadedDeclRef"
         /\ added_for(c, parent, fn_cls, deferred, statement) = <<for_declaration(c), {}>>
  <2>1. CASE IsSkipped(c)
    BY <2>1 DEF added_for
  <2>2. CASE ~IsSkipped(c) /\ c.kind = "MemberRefExpr" /\ c.exempt
    BY <2>2 DEF added_for
  <2>3. CASE ~IsSkipped(c) /\ c.kind = "CallExpr" /\ IsCxx /\ c.member
    BY <2>3 DEF added_for
  <2>4. CASE /\ ~IsSkipped(c) /\ ~(c.kind = "MemberRefExpr" /\ c.exempt)
             /\ ~(c.kind = "CallExpr" /\ IsCxx /\ c.member)
    <3>1. CASE c.kind \in MostKinds
      BY <2>4, <3>1 DEF added_for, ScopeOf, MostKinds
    <3>2. CASE c.kind \in {"FieldDecl", "MacroDefinition"}
      BY <2>4, <3>2 DEF added_for, MostKinds
    <3>3. CASE c.kind = "OverloadedDeclRef"
      BY <2>4, <3>3 DEF added_for, MostKinds
    <3>4. CASE c.kind \notin MostKinds \cup {"FieldDecl", "MacroDefinition", "OverloadedDeclRef"}
      BY <2>4, <3>4 DEF added_for
    <3> QED
      BY <3>1, <3>2, <3>3, <3>4
  <2> QED
    BY <2>1, <2>2, <2>3, <2>4
<1> QED
  BY <1>1, <1>2, <1>3, <1>4, <1>5

-----------------------------------------------------------------------------
(* add_symbol() for the symbols of two sets. *)

LEMMA AddSymbols ==
  ASSUME SymbolsTypeOK, NEW A \in SUBSET (Dec \X File), NEW B \in SUBSET (Dec \X File),
         add_symbols(<<A, B>>)
  PROVE  /\ ref_count' \in [Dec -> Nat] /\ symbol_files' \in SUBSET (Dec \X File)
         /\ \A d \in Dec : ref_count'[d] >= ref_count[d]
         /\ \A d \in Dec :
              ref_count'[d] # ref_count[d] => \E file \in File : <<d, file>> \in A \cup B
         /\ \A d \in Dec, file \in File : <<d, file>> \in A => ref_count'[d] > 0
<1> DEFINE In(d) == {i \in 1..2 : \E file \in File : <<d, file>> \in <<A, B>>[i]}
<1>1. ref_count' = [d \in Dec |-> ref_count[d] + Cardinality(In(d))]
  BY DEF add_symbols
<1>2. ASSUME NEW d \in Dec
      PROVE  /\ Cardinality(In(d)) \in Nat /\ ref_count[d] \in Nat
             /\ Cardinality(In(d)) # 0 => \E file \in File : <<d, file>> \in A \cup B
             /\ \A file \in File : <<d, file>> \in A => Cardinality(In(d)) # 0
  <2>1. IsFiniteSet(1..2) /\ In(d) \in SUBSET (1..2)
    <3>1. 1 \in Int /\ 2 \in Int
      OBVIOUS
    <3>2. IsFiniteSet(1..2)
      BY <3>1, FS_Interval
    <3> QED
      BY <3>2
  <2>2. IsFiniteSet(In(d))
    BY <2>1, FS_Subset
  <2>3. Cardinality(In(d)) \in Nat /\ (Cardinality(In(d)) = 0 <=> In(d) = {})
    BY <2>2, FS_CardinalityType, FS_EmptySet
  <2>4. In(d) # {} => \E file \in File : <<d, file>> \in A \cup B
    OBVIOUS
  <2>5. \A file \in File : <<d, file>> \in A => 1 \in In(d)
    OBVIOUS
  <2> QED
    BY <2>3, <2>4, <2>5 DEF SymbolsTypeOK
<1>3. symbol_files' \in SUBSET (Dec \X File)
  BY DEF add_symbols, SymbolsTypeOK
<1> HIDE DEF In
<1>4. \A d \in Dec : ref_count'[d] = ref_count[d] + Cardinality(In(d))
  BY <1>1
<1>5. ref_count' \in [Dec -> Nat]
  BY <1>1, <1>2
<1> QED
  BY <1>2, <1>3, <1>4, <1>5

-----------------------------------------------------------------------------
(***************************************************************************)
(* Enter.                                                                  *)
(***************************************************************************)

LEMMA FunctionClassType ==
  ASSUME NEW c \in Cursor
  PROVE  function_class(c) \in DecOrNull
BY CursorTyped, SymbolsAssumption DEF function_class, DecOrNull

NewFrame(c) ==
  [cursor |-> c, node |-> Len(tree) + 1, is_new_statement |-> IsNewStatement(c),
   prev_fn_cls |-> cxx_current_fn_cls, prev_deferred_fn |-> cxx_deferred_fn,
   prev_statement |-> cxx_statement_cls]

\* The node that the visitor is at.
LEMMA NodeType ==
  ASSUME VisitInv
  PROVE  /\ Len(tree) \in Nat /\ Len(stack) \in Nat /\ DOMAIN stack = 1..Len(stack)
         /\ node \in 0..Len(tree) /\ node = NodeBelow(Len(stack) + 1)
         /\ Parent = CursorBelow(Len(stack) + 1)
         /\ node # 0 => Len(stack) # 0 /\ node = stack[Len(stack)].node
         /\ node = 0 => Len(stack) = 0
         /\ \A k \in DOMAIN stack : NodeBelow(k) \in 0..(stack[k].node - 1)
         /\ \A k \in DOMAIN stack : stack[k].node \in 1..Len(tree) /\ stack[k] \in Frame
<1>1. Len(tree) \in Nat /\ Len(stack) \in Nat /\ DOMAIN stack = 1..Len(stack)
  BY DEF VisitInv, SymbolsTypeOK
<1>2. \A k \in DOMAIN stack : stack[k].node \in 1..Len(tree)
  BY DEF VisitInv, Nested, Nodes
<1>3. stack = <<>> <=> Len(stack) = 0
  BY DEF VisitInv, SymbolsTypeOK
<1>4. \A k \in DOMAIN stack : NodeBelow(k) \in 0..(stack[k].node - 1)
  <2> TAKE k \in DOMAIN stack
  <2>1. /\ tree[stack[k].node] = [cursor |-> stack[k].cursor, up |-> NodeBelow(k)]
        /\ stack[k].node \in Nodes
    BY DEF VisitInv, Nested
  <2> QED
    BY <2>1 DEF VisitInv, InPreorder
<1>5. \A k \in DOMAIN stack : stack[k] \in Frame
  <2>1. stack \in Seq(Frame)
    BY DEF VisitInv, SymbolsTypeOK
  <2> QED
    BY <2>1
<1>6. CASE Len(stack) = 0
  BY <1>1, <1>2, <1>3, <1>4, <1>5, <1>6 DEF node, NodeBelow, CursorBelow, Parent
<1>7. CASE Len(stack) # 0
  <2>1. Len(stack) \in DOMAIN stack /\ Len(stack) + 1 # 1 /\ (Len(stack) + 1) - 1 = Len(stack)
    BY <1>1, <1>7
  <2>2. node = stack[Len(stack)].node /\ Parent = stack[Len(stack)].cursor
    BY <1>3, <1>7 DEF node, Top, Parent
  <2> QED
    BY <1>1, <1>2, <1>4, <1>5, <2>1, <2>2 DEF NodeBelow, CursorBelow
<1> QED
  BY <1>6, <1>7

LEMMA EnterGrows ==
  ASSUME VisitInv, NEW c \in Cursor, Enter(c)
  PROVE  /\ TreeGrows /\ Len(tree') = Len(tree) + 1
         /\ tree'[Len(tree) + 1] = [cursor |-> c, up |-> node]
         /\ tree' \in Seq([cursor : Cursor, up : Nat])
         /\ Len(stack') = Len(stack) + 1 /\ DOMAIN stack' = 1..(Len(stack) + 1)
         /\ \A k \in DOMAIN stack : stack'[k] = stack[k]
         /\ stack'[Len(stack) + 1] = NewFrame(c)
         /\ NewFrame(c) \in Frame /\ stack' \in Seq(Frame)
<1>1. stack' = Append(stack, NewFrame(c))
  BY DEF Enter, NewFrame
<1>2. tree' = Append(tree, [cursor |-> c, up |-> node])
  BY DEF Enter, node
<1>3. IsNewStatement(c) \in BOOLEAN
  BY DEF IsNewStatement, IsCxx
<1>4. node \in Nat /\ Len(tree) \in Nat
  BY NodeType
<1>5. NewFrame(c) \in Frame
  BY <1>3, <1>4 DEF NewFrame, Frame, VisitInv, SymbolsTypeOK
<1>6. stack \in Seq(Frame) /\ tree \in Seq([cursor : Cursor, up : Nat])
  BY DEF VisitInv, SymbolsTypeOK
<1>7. PICK f \in Frame : f = NewFrame(c)
  BY <1>5
<1>8. /\ stack' \in Seq(Frame) /\ Len(stack') = Len(stack) + 1
      /\ DOMAIN stack' = 1..(Len(stack) + 1)
      /\ \A k \in DOMAIN stack : stack'[k] = stack[k]
      /\ stack'[Len(stack) + 1] = f
  BY <1>1, <1>6, <1>7
<1> DEFINE NodeRecord == [cursor : Cursor, up : Nat]
<1>9. PICK r \in NodeRecord : r = [cursor |-> c, up |-> node]
  BY <1>4
<1>10. /\ tree' \in Seq(NodeRecord) /\ Len(tree') = Len(tree) + 1
       /\ \A k \in 1..Len(tree) : tree'[k] = tree[k]
       /\ tree'[Len(tree) + 1] = r
  <2>1. tree \in Seq(NodeRecord) /\ tree' = Append(tree, r)
    BY <1>2, <1>6, <1>9
  <2> HIDE DEF NodeRecord
  <2> QED
    BY <2>1
<1>11. TreeGrows
  BY <1>4, <1>10 DEF TreeGrows, Enter
<1> QED
  BY <1>5, <1>7, <1>8, <1>9, <1>10, <1>11

LEMMA EnterType ==
  ASSUME VisitInv, NEW c \in Cursor, Enter(c)
  PROVE  SymbolsTypeOK'
<1>1. /\ tree' \in Seq([cursor : Cursor, up : Nat]) /\ stack' \in Seq(Frame)
  BY EnterGrows
<1>2. c.ref \in DecOrNull /\ function_class(c) \in DecOrNull /\ NULL \in DecOrNull
  BY CursorTyped, FunctionClassType DEF DecOrNull
<1>3. SymbolsTypeOK
  BY DEF VisitInv
<1>4. cxx_statement_cls' \in DecOrNull /\ cxx_current_fn_cls' \in DecOrNull
  BY <1>2, <1>3 DEF Enter, statement_before, SymbolsTypeOK
<1>5. cxx_deferred_fn' \in DecOrNull
  BY <1>2, <1>3 DEF Enter, SymbolsTypeOK
<1>6. ref_count' \in [Dec -> Nat] /\ symbol_files' \in SUBSET (Dec \X File)
  <2>1. CASE IsDeferredCall(c)
    BY <1>3, <2>1 DEF Enter, SymbolsTypeOK
  <2>2. CASE ~IsDeferredCall(c)
    <3>1. PICK A \in SUBSET (Dec \X File), B \in SUBSET (Dec \X File) :
            added_for(c, Parent, cxx_current_fn_cls, cxx_deferred_fn, statement_before(c))
              = <<A, B>>
      BY AddedFor
    <3>2. add_symbols(<<A, B>>)
      BY <2>2, <3>1 DEF Enter
    <3> QED
      BY <1>3, <3>2, AddSymbols
  <2> QED
    BY <2>1, <2>2
<1>7. lang' \in {"C", "CPlusPlus"}
  BY <1>3 DEF Enter, SymbolsTypeOK
<1> QED
  BY <1>1, <1>4, <1>5, <1>6, <1>7 DEF SymbolsTypeOK

LEMMA EnterPreorder ==
  ASSUME VisitInv, NEW c \in Cursor, Enter(c)
  PROVE  InPreorder'
<1>1. /\ Len(tree) \in Nat /\ Len(tree') = Len(tree) + 1
      /\ \A k \in 1..Len(tree) : tree'[k] = tree[k]
      /\ tree'[Len(tree) + 1].up = node /\ node \in 0..Len(tree)
  <2>1. tree'[Len(tree) + 1] = [cursor |-> c, up |-> node]
    BY EnterGrows
  <2>2. tree'[Len(tree) + 1].up = node
    BY <2>1
  <2> QED
    BY <2>2, EnterGrows, NodeType DEF TreeGrows
<1>2. \A k \in (node + 1)..Len(tree) : tree[k].up >= node
  <2>1. CASE node = 0
    BY <2>1, <1>1 DEF VisitInv, InPreorder, Nodes
  <2>2. CASE node # 0
    <3>1. Len(stack) \in DOMAIN stack /\ node = stack[Len(stack)].node
      BY <2>2, NodeType
    <3> QED
      BY <3>1 DEF VisitInv, Nested
  <2> QED
    BY <2>1, <2>2
<1>3. ASSUME NEW m \in 1..(Len(tree) + 1)
      PROVE  /\ tree'[m].up \in 0..(m - 1)
             /\ \A k \in (tree'[m].up + 1)..(m - 1) : tree'[k].up >= tree'[m].up
  <2>1. CASE m = Len(tree) + 1
    BY <1>1, <1>2, <2>1
  <2>2. CASE m # Len(tree) + 1
    <3>1. m \in Nodes /\ tree'[m] = tree[m]
      BY <1>1, <2>2 DEF Nodes
    <3>2. /\ tree[m].up \in 0..(m - 1)
          /\ \A k \in (tree[m].up + 1)..(m - 1) : tree[k].up >= tree[m].up
      BY <3>1 DEF VisitInv, InPreorder
    <3>3. \A k \in (tree[m].up + 1)..(m - 1) : tree'[k] = tree[k]
      BY <1>1, <2>2, <3>2
    <3> QED
      BY <3>1, <3>2, <3>3
  <2> QED
    BY <2>1, <2>2
<1>4. Nodes' = 1..(Len(tree) + 1)
  BY <1>1 DEF Nodes
<1> QED
  BY <1>3, <1>4 DEF InPreorder

\* The frames' nodes are in the order of the frames.
LEMMA FramesAscend ==
  ASSUME VisitInv, NEW k \in DOMAIN stack
  PROVE  /\ up_from(node) = {stack[l].node : l \in 1..Len(stack)}
         /\ stack[k].node \in up_from(node) /\ stack[k].node <= node
<1>1. Len(stack) # 0 /\ Len(stack) \in DOMAIN stack /\ k \in 1..Len(stack)
      /\ stack[Len(stack)].node \in Nat
  BY NodeType
<1>2. node = stack[Len(stack)].node
  BY <1>1, NodeType
<1>3. up_from(node) = {stack[l].node : l \in 1..Len(stack)}
  BY <1>1, <1>2 DEF VisitInv, Nested
<1>4. stack[k].node \in up_from(node)
  BY <1>1, <1>3
<1>5. up_from(node) \in SUBSET (1..node)
  BY <1>1, <1>2, UpFromType
<1> QED
  BY <1>1, <1>2, <1>3, <1>4, <1>5

LEMMA EnterNested ==
  ASSUME VisitInv, NEW c \in Cursor, Enter(c), NEW k \in DOMAIN stack'
  PROVE  Nested(k)'
<1>1. /\ TreeGrows /\ Len(tree) \in Nat /\ Len(tree') = Len(tree) + 1
      /\ \A m \in 1..Len(tree) : tree'[m] = tree[m]
      /\ tree'[Len(tree) + 1] = [cursor |-> c, up |-> node]
      /\ Len(stack) \in Nat /\ DOMAIN stack = 1..Len(stack)
      /\ DOMAIN stack' = 1..(Len(stack) + 1)
      /\ \A l \in DOMAIN stack : stack'[l] = stack[l]
      /\ stack'[Len(stack) + 1] = NewFrame(c)
      /\ node \in 0..Len(tree)
  BY EnterGrows, NodeType DEF TreeGrows
<1>2. Nodes' = 1..(Len(tree) + 1)
  BY <1>1 DEF Nodes
<1>3. CASE k \in DOMAIN stack
  <2>1. Nested(k) /\ k \in 1..Len(stack)
    BY <1>1, <1>3 DEF VisitInv
  <2>2. PICK n : n = stack[k].node
    OBVIOUS
  <2>3. n \in 1..Len(tree) /\ n <= node /\ stack'[k] = stack[k]
    BY <1>1, <1>3, <2>2, NodeType, FramesAscend
  <2>4. NodeBelow(k)' = NodeBelow(k) /\ CursorBelow(k)' = CursorBelow(k)
    BY <1>1, <2>1 DEF NodeBelow, CursorBelow
  <2>5. \A m \in (n + 1)..(Len(tree) + 1) : tree'[m].up >= n
    <3>1. ASSUME NEW m \in (n + 1)..Len(tree) PROVE tree'[m].up >= n
      BY <1>1, <2>1, <2>2, <2>3 DEF Nested
    <3>2. tree'[Len(tree) + 1].up = node
      BY <1>1
    <3>3. ASSUME NEW m \in (n + 1)..(Len(tree) + 1), m \notin (n + 1)..Len(tree)
          PROVE  m = Len(tree) + 1
      <4>1. PICK l \in Nat : l = Len(tree) /\ n \in 1..l
        BY <1>1, <2>3
      <4>2. m \in (n + 1)..(l + 1) /\ m \notin (n + 1)..l
        BY <3>3, <4>1
      <4>3. m = l + 1
        BY <4>1, <4>2
      <4> QED
        BY <4>1, <4>3
    <3>4. tree'[Len(tree) + 1].up >= n
      BY <1>1, <2>3, <3>2
    <3> QED
      BY <3>1, <3>3, <3>4
  <2>6. up_from(n)' = {stack'[l].node : l \in 1..k}
    <3>1. up_from(n)' = up_from(n)
      BY <1>1, <2>3, UpFromStays
    <3>2. up_from(n) = {stack[l].node : l \in 1..k}
      BY <2>1, <2>2 DEF Nested
    <3>3. \A l \in 1..k : stack'[l] = stack[l]
      BY <1>1, <2>1
    <3> QED
      BY <3>1, <3>2, <3>3
  <2>7. tree'[n] = tree[n] /\ n \in Nodes'
    BY <1>1, <1>2, <2>3
  <2> QED
    BY <1>1, <2>1, <2>2, <2>3, <2>4, <2>5, <2>6, <2>7 DEF Nested
<1>4. CASE k = Len(stack) + 1
  <2>1. PICK n : n = Len(tree) + 1
    OBVIOUS
  <2>2. stack'[k] = NewFrame(c) /\ stack'[k].node = n /\ stack'[k].cursor = c
    BY <1>1, <1>4, <2>1 DEF NewFrame
  <2>3. NodeBelow(k)' = NodeBelow(k) /\ CursorBelow(k)' = CursorBelow(k)
    BY <1>1, <1>4 DEF NodeBelow, CursorBelow
  <2>4. NodeBelow(k) = node /\ CursorBelow(k) = Parent
    BY <1>4, NodeType
  <2>5. PICK b : b = node
    OBVIOUS
  <2>6. up_from(n)' = {stack'[l].node : l \in 1..k}
    <3>1. Inherits'
      BY EnterType, EnterPreorder, NodesInheritNext
    <3>2. up_from(n)' = {n} \cup up_from(b)'
      BY <1>1, <1>2, <2>1, <2>5, <3>1 DEF Inherits
    <3>3. up_from(b)' = up_from(b)
      BY <1>1, <2>5, UpFromStays
    <3>4. up_from(b) = {stack[l].node : l \in 1..Len(stack)}
      <4>1. CASE b = 0
        BY <1>1, <2>5, <4>1, NodeType, UpFromType
      <4>2. CASE b # 0
        BY <1>1, <2>5, <4>2, NodeType, FramesAscend
      <4> QED
        BY <4>1, <4>2
    <3>5. \A l \in 1..Len(stack) : stack'[l] = stack[l]
      BY <1>1
    <3> QED
      BY <1>1, <1>4, <2>2, <3>2, <3>3, <3>4, <3>5
  <2>7. Parent.kind \in c.parents
    BY DEF Enter, CanFollow
  <2>8. n \in Nodes' /\ \A m \in (n + 1)..Len(tree') : tree'[m].up >= n
    BY <1>1, <1>2, <2>1
  <2>9. tree'[n] = [cursor |-> c, up |-> node]
    BY <1>1, <2>1
  <2> QED
    BY <2>2, <2>3, <2>4, <2>6, <2>7, <2>8, <2>9 DEF Nested
<1> QED
  BY <1>1, <1>3, <1>4

LEMMA EnterSaved ==
  ASSUME VisitInv, NEW c \in Cursor, Enter(c), NEW k \in DOMAIN stack'
  PROVE  Saved(k)'
<1>1. /\ TreeGrows /\ lang' = lang /\ Len(tree) \in Nat
      /\ Len(stack) \in Nat /\ DOMAIN stack = 1..Len(stack)
      /\ DOMAIN stack' = 1..(Len(stack) + 1)
      /\ \A l \in DOMAIN stack : stack'[l] = stack[l]
      /\ stack'[Len(stack) + 1] = NewFrame(c)
      /\ node \in 0..Len(tree)
  BY EnterGrows, NodeType DEF TreeGrows
<1>2. NodeBelow(k)' = NodeBelow(k)
  BY <1>1 DEF NodeBelow
<1>3. PICK b : b = NodeBelow(k)
  OBVIOUS
<1>4. PICK n : n = stack'[k].node - 1
  OBVIOUS
<1>5. CASE k \in DOMAIN stack
  <2>1. Saved(k) /\ stack'[k] = stack[k]
    BY <1>1, <1>5 DEF VisitInv
  <2>2. b \in 0..Len(tree) /\ n \in 0..Len(tree)
    BY <1>1, <1>3, <1>4, <1>5, <2>1, NodeType
  <2>3. /\ FunctionClassIn(b)' = FunctionClassIn(b) /\ DeferredIn(b)' = DeferredIn(b)
        /\ StatementClass(b, n)' = StatementClass(b, n)
    BY <1>1, <2>2, ScopesStay
  <2>4. IsNewStatement(stack[k].cursor)' = IsNewStatement(stack'[k].cursor)
    BY <1>1 DEF IsNewStatement, IsCxx
  <2>5. IsNewStatement(stack'[k].cursor) = IsNewStatement(stack[k].cursor)
    BY <2>1
  <2> QED
    BY <1>2, <1>3, <1>4, <2>1, <2>3, <2>4, <2>5 DEF Saved
<1>6. CASE k = Len(stack) + 1
  <2>1. stack'[k] = NewFrame(c) /\ b = node /\ n = Len(tree)
    BY <1>1, <1>3, <1>4, <1>6, NodeType DEF NewFrame
  <2>2. /\ FunctionClassIn(b)' = FunctionClassIn(b) /\ DeferredIn(b)' = DeferredIn(b)
        /\ StatementClass(b, n)' = StatementClass(b, n)
    BY <1>1, <2>1, ScopesStay
  <2>3. /\ FunctionClassIn(b) = cxx_current_fn_cls /\ DeferredIn(b) = cxx_deferred_fn
        /\ StatementClass(b, n) = cxx_statement_cls
    BY <2>1 DEF VisitInv, ScopesNest
  <2>4. IsNewStatement(stack[k].cursor)' = IsNewStatement(stack'[k].cursor)
    BY <1>1 DEF IsNewStatement, IsCxx
  <2>5. /\ stack'[k].cursor = c /\ stack'[k].is_new_statement = IsNewStatement(c)
        /\ stack'[k].prev_fn_cls = cxx_current_fn_cls
        /\ stack'[k].prev_deferred_fn = cxx_deferred_fn
        /\ stack'[k].prev_statement = cxx_statement_cls
    BY <2>1 DEF NewFrame
  <2> QED
    BY <1>2, <1>3, <1>4, <2>2, <2>3, <2>4, <2>5 DEF Saved
<1> QED
  BY <1>1, <1>5, <1>6

\* Only a declaration or a statement begins one: a class named does not.
LEMMA NoneNamedYet ==
  ASSUME NEW c, IsNewStatement(c)
  PROVE  ~NamesClass(c)
BY DEF IsNewStatement, NamesClass, IsDeclOrStmt

LEMMA EnterScopes ==
  ASSUME VisitInv, NEW c \in Cursor, Enter(c)
  PROVE  ScopesNest'
<1>1. /\ TreeGrows /\ lang' = lang /\ Len(tree) \in Nat /\ Len(tree') = Len(tree) + 1
      /\ tree'[Len(tree) + 1] = [cursor |-> c, up |-> node]
      /\ Len(stack) \in Nat /\ Len(stack') = Len(stack) + 1
      /\ stack'[Len(stack) + 1] = NewFrame(c)
      /\ node \in 0..Len(tree)
  BY EnterGrows, NodeType DEF TreeGrows
<1>2. PICK b : b = node
  OBVIOUS
<1>3. PICK n : n = Len(tree) + 1
  OBVIOUS
<1>4. node' = n
  <2>1. stack' # <<>> /\ Top'.node = n
    BY <1>1, <1>3 DEF Top, NewFrame
  <2> QED
    BY <2>1 DEF node, Top
<1>5. /\ Inherits' /\ SymbolsTypeOK' /\ InPreorder'
  BY EnterType, EnterPreorder, NodesInheritNext
<1>6. /\ n \in Nodes' /\ tree'[n].up = b /\ tree'[n].cursor = c /\ n \in Nat /\ n # 0
      /\ Len(tree') = n /\ b \in 0..Len(tree)
  BY <1>1, <1>2, <1>3 DEF Nodes
<1>7. /\ FunctionClassIn(b)' = FunctionClassIn(b) /\ DeferredIn(b)' = DeferredIn(b)
  BY <1>1, <1>2, ScopesStay
<1>8. /\ FunctionClassIn(b) = cxx_current_fn_cls /\ DeferredIn(b) = cxx_deferred_fn
      /\ StatementClass(b, Len(tree)) = cxx_statement_cls
  BY <1>2 DEF VisitInv, ScopesNest
<1>9. FunctionClassIn(n)' = cxx_current_fn_cls'
  <2>1. FunctionClassIn(n)' = IF IsFunctionCursor(CursorAt(n))' THEN function_class(CursorAt(n))'
                              ELSE FunctionClassIn(b)'
    BY <1>5, <1>6 DEF Inherits
  <2>2. /\ IsFunctionCursor(CursorAt(n))' = IsFunctionCursor(c)
        /\ function_class(CursorAt(n))' = function_class(c)
    BY <1>1, <1>6 DEF IsFunctionCursor, IsCxx, CursorAt, function_class, IsClass
  <2> QED
    BY <1>7, <1>8, <2>1, <2>2 DEF Enter
<1>10. DeferredIn(n)' = cxx_deferred_fn'
  <2>1. DeferredIn(n)' =
          IF ~IsDeferredCall(CursorAt(n))' THEN DeferredIn(b)'
          ELSE IF IsFunction(CursorAt(n).ref)' THEN CursorAt(n).ref' ELSE NULL
    BY <1>5, <1>6 DEF Inherits
  <2>2. /\ IsDeferredCall(CursorAt(n))' = IsDeferredCall(c)
        /\ IsFunction(CursorAt(n).ref)' = IsFunction(c.ref)
        /\ CursorAt(n).ref' = c.ref
    BY <1>1, <1>6 DEF IsDeferredCall, IsCxx, CursorAt, IsFunction
  <2> QED
    BY <1>7, <1>8, <2>1, <2>2 DEF Enter
<1>11. StatementClass(n, n)' = cxx_statement_cls'
  <2>1. PICK old : old = NamedIn(b, Len(tree))
    OBVIOUS
  <2>2. PICK new : new = NamedIn(n, n)'
    OBVIOUS
  <2>3. StatementAt(n)' = IF IsNewStatement(c) THEN n ELSE StatementAt(b)
    <3>1. StatementAt(n)' = IF IsNewStatement(CursorAt(n))' THEN n ELSE StatementAt(b)'
      BY <1>5, <1>6 DEF Inherits
    <3>2. IsNewStatement(CursorAt(n))' = IsNewStatement(c)
      BY <1>1, <1>6 DEF IsNewStatement, IsCxx, CursorAt, IsSkipped
    <3>3. StatementAt(b)' = StatementAt(b)
      BY <1>1, <1>6, InnermostsStay
    <3> QED
      BY <3>1, <3>2, <3>3
  <2>4. ASSUME NEW j \in 1..Len(tree)
        PROVE  /\ StatementAt(j)' = StatementAt(j) /\ StatementAt(j) \in 0..j
               /\ NamesClass(CursorAt(j))' = NamesClass(CursorAt(j))
    BY <1>1, InnermostsStay, InnermostsType, CursorStays DEF Nodes
  <2>5. NamesClass(CursorAt(n))' = NamesClass(c)
    BY <1>1, <1>6 DEF NamesClass, IsCxx, CursorAt, IsSkipped, IsClass
  <2>6. new = {j \in 1..n : NamesClass(CursorAt(j))' /\ StatementAt(j)' = StatementAt(n)'}
    BY <2>2 DEF NamedIn
  <2>7. IsNewStatement(c) => new = {}
    BY <1>1, <1>3, <1>6, <2>3, <2>4, <2>5, <2>6, NoneNamedYet
  <2>8. ~IsNewStatement(c) => new = old \cup (IF NamesClass(c) THEN {n} ELSE {})
    BY <1>1, <1>3, <1>6, <2>1, <2>3, <2>4, <2>5, <2>6 DEF NamedIn
  <2>9. old \in SUBSET (1..Len(tree))
    BY <2>1 DEF NamedIn
  <2>10. StatementClass(n, n)' = IF new = {} THEN NULL ELSE tree'[Max(new)].cursor.ref
    <3>1. (StatementClass(n, n) =
            IF NamedIn(n, n) = {} THEN NULL ELSE CursorAt(Max(NamedIn(n, n))).ref)'
      BY DEF StatementClass, NamedIn, StatementAt, Innermost, Last
    <3> QED
      BY <2>2, <3>1 DEF CursorAt
  <2>11. cxx_statement_cls = IF old = {} THEN NULL ELSE tree[Max(old)].cursor.ref
    <3>1. StatementClass(b, Len(tree)) =
            IF NamedIn(b, Len(tree)) = {} THEN NULL
            ELSE CursorAt(Max(NamedIn(b, Len(tree)))).ref
      BY DEF StatementClass, NamedIn, StatementAt, Innermost, Last
    <3> QED
      BY <1>8, <2>1, <3>1 DEF CursorAt
  <2>12. cxx_statement_cls' = IF NamesClass(c) THEN c.ref
                              ELSE IF IsNewStatement(c) THEN NULL ELSE cxx_statement_cls
    BY DEF Enter, statement_before
  <2>13. CASE IsNewStatement(c)
    BY <2>7, <2>10, <2>12, <2>13, NoneNamedYet
  <2>14. CASE ~IsNewStatement(c) /\ NamesClass(c)
    <3>1. new \in SUBSET (0..n) /\ n \in new /\ \A y \in new : y <= n
      <4>1. new = old \cup {n}
        BY <2>8, <2>14
      <4>2. \A y \in old : y \in 0..n /\ y <= n
        BY <1>1, <1>3, <2>9
      <4> QED
        BY <1>6, <4>1, <4>2
    <3>2. Max(new) = n
      BY <1>6, <3>1, MaxIs
    <3> QED
      BY <1>6, <2>10, <2>12, <2>14, <3>1, <3>2
  <2>15. CASE ~IsNewStatement(c) /\ ~NamesClass(c)
    <3>1. new = old
      BY <2>8, <2>15
    <3>2. old # {} => tree'[Max(old)] = tree[Max(old)]
      <4>1. old # {} => Max(old) \in 1..Len(tree)
        <5>1. old \in SUBSET (0..Len(tree))
          BY <2>9
        <5> QED
          BY <1>1, <2>9, <5>1, GreatestNatural
      <4> QED
        BY <1>1, <4>1 DEF TreeGrows
    <3> QED
      BY <2>10, <2>11, <2>12, <2>15, <3>1, <3>2
  <2> QED
    BY <2>13, <2>14, <2>15
<1> QED
  BY <1>4, <1>6, <1>9, <1>10, <1>11 DEF ScopesNest

-----------------------------------------------------------------------------
(***************************************************************************)
(* Leave.                                                                  *)
(***************************************************************************)

LEMMA LeaveSame ==
  ASSUME VisitInv, Leave
  PROVE  /\ TreeGrows /\ tree' = tree /\ lang' = lang
         /\ Len(stack) # 0 /\ Len(stack) \in DOMAIN stack /\ Top = stack[Len(stack)]
         /\ stack' \in Seq(Frame) /\ Len(stack') = Len(stack) - 1
         /\ DOMAIN stack' = 1..(Len(stack) - 1)
         /\ \A k \in DOMAIN stack' : k \in DOMAIN stack /\ stack'[k] = stack[k]
         /\ node' = NodeBelow(Len(stack)) /\ node' \in 0..Len(tree)
<1>1. /\ Len(tree) \in Nat /\ Len(stack) \in Nat /\ DOMAIN stack = 1..Len(stack)
      /\ \A k \in DOMAIN stack : NodeBelow(k) \in 0..(stack[k].node - 1)
      /\ \A k \in DOMAIN stack : stack[k].node \in 1..Len(tree)
  BY NodeType
<1>2. stack \in Seq(Frame)
  BY DEF VisitInv, SymbolsTypeOK
<1>3. stack # <<>> /\ stack' = SubSeq(stack, 1, Len(stack) - 1)
  BY DEF Leave
<1>4. Len(stack) # 0
  BY <1>2, <1>3
<1>5. /\ stack' \in Seq(Frame) /\ Len(stack') = Len(stack) - 1
      /\ DOMAIN stack' = 1..(Len(stack) - 1)
      /\ \A k \in 1..(Len(stack) - 1) : stack'[k] = stack[k]
  BY <1>1, <1>2, <1>3, <1>4
<1>6. node' = NodeBelow(Len(stack))
  <2>1. CASE Len(stack) = 1
    <3>1. stack' = <<>>
      BY <1>5, <2>1
    <3> QED
      BY <2>1, <3>1 DEF node, NodeBelow
  <2>2. CASE Len(stack) # 1
    <3>1. stack' # <<>> /\ stack'[Len(stack')] = stack[Len(stack) - 1]
      BY <1>1, <1>4, <1>5, <2>2
    <3> QED
      BY <2>2, <3>1 DEF node, NodeBelow, Top
  <2> QED
    BY <2>1, <2>2
<1>7. Len(stack) \in DOMAIN stack /\ Top = stack[Len(stack)]
  BY <1>1, <1>4 DEF Top
<1>8. node' \in 0..Len(tree)
  BY <1>1, <1>6, <1>7
<1>9. tree' = tree /\ lang' = lang
  BY DEF Leave
<1>10. TreeGrows
  BY <1>1, <1>9 DEF TreeGrows
<1>11. \A k \in DOMAIN stack' : k \in DOMAIN stack /\ stack'[k] = stack[k]
  BY <1>1, <1>5
<1> QED
  BY <1>4, <1>5, <1>6, <1>7, <1>8, <1>9, <1>10, <1>11

\* What Leave adds, and for which call.
LEMMA LeaveAdds ==
  ASSUME VisitInv, Leave, NEW f, f = Top
  PROVE  /\ ref_count' \in [Dec -> Nat] /\ symbol_files' \in SUBSET (Dec \X File)
         /\ \A d \in Dec : ref_count'[d] >= ref_count[d]
         /\ ~IsDeferredCall(f.cursor) => ref_count' = ref_count
         /\ IsDeferredCall(f.cursor) /\ ~(IsFunction(f.cursor.ref) /\ ~f.cursor.exempt) =>
              ref_count' = ref_count
         /\ IsDeferredCall(f.cursor) =>
              \A d \in Dec :
                ref_count'[d] # ref_count[d] =>
                  /\ IsFunction(f.cursor.ref) /\ ~f.cursor.exempt /\ f.cursor.ref = d
                  /\ ~IsExempt(f.cursor, f.prev_deferred_fn,
                               ScopeOf(f.cursor, CursorBelow(Len(stack)), f.prev_fn_cls,
                                       cxx_statement_cls))
                  /\ IsIncludable(d) \/ f.cursor.definition # NULL
         /\ /\ IsDeferredCall(f.cursor)
            /\ IsFunction(f.cursor.ref) /\ ~f.cursor.exempt /\ IsIncludable(f.cursor.ref)
            /\ ~IsExempt(f.cursor, f.prev_deferred_fn,
                         ScopeOf(f.cursor, CursorBelow(Len(stack)), f.prev_fn_cls,
                                 cxx_statement_cls))
            => ref_count'[f.cursor.ref] > 0
<1> DEFINE c == f.cursor
           scope == ScopeOf(c, CursorBelow(Len(stack)), f.prev_fn_cls, cxx_statement_cls)
<1>1. SymbolsTypeOK /\ ref_count \in [Dec -> Nat] /\ symbol_files \in SUBSET (Dec \X File)
  BY DEF VisitInv, SymbolsTypeOK
<1>2. f = stack[Len(stack)] /\ Len(stack) \in DOMAIN stack /\ Len(stack) # 0
  BY LeaveSame
<1>3. f \in Frame /\ c \in Cursor
  BY <1>2, NodeType DEF Frame
<1>4. CASE ~IsDeferredCall(c)
  BY <1>1, <1>4 DEF Leave
<1>5. CASE IsDeferredCall(c)
  <2> DEFINE below == SubSeq(stack, 1, Len(stack) - 1)
             parent == IF below = <<>> THEN TranslationUnit ELSE below[Len(below)].cursor
  <2>1. parent = CursorBelow(Len(stack))
    <3>1. stack \in Seq(Frame) /\ Len(stack) \in Nat
      BY DEF VisitInv, SymbolsTypeOK
    <3>2. CASE Len(stack) = 1
      <4>1. below = <<>>
        BY <3>1, <3>2
      <4> QED
        BY <3>2, <4>1 DEF CursorBelow
    <3>3. CASE Len(stack) # 1
      <4>1. below # <<>> /\ below[Len(below)] = stack[Len(stack) - 1]
        <5>1. below = stack'
          BY DEF Leave
        <5>2. Len(stack') = Len(stack) - 1 /\ Len(stack) - 1 \in DOMAIN stack'
          BY <3>1, <1>2, <3>3, LeaveSame
        <5>3. stack'[Len(stack')] = stack[Len(stack) - 1] /\ stack' # <<>>
          BY <5>2, LeaveSame
        <5> HIDE DEF below
        <5> QED
          BY <5>1, <5>3
      <4> QED
        BY <3>3, <4>1 DEF CursorBelow
    <3> QED
      BY <3>2, <3>3
  <2>2. add_symbols(call_adds(f, CursorBelow(Len(stack))))
    BY <1>5, <2>1 DEF Leave
  <2>3. CASE ~(IsFunction(c.ref) /\ ~c.exempt)
    <3>1. add_symbols(<<{}, {}>>)
      BY <2>2, <2>3 DEF call_adds
    <3>2. /\ ref_count' \in [Dec -> Nat] /\ symbol_files' \in SUBSET (Dec \X File)
          /\ \A d \in Dec : ref_count'[d] >= ref_count[d]
          /\ \A d \in Dec :
               ref_count'[d] # ref_count[d] => \E file \in File : <<d, file>> \in {} \cup {}
      <4>1. {} \in SUBSET (Dec \X File)
        OBVIOUS
      <4> QED
        BY <1>1, <3>1, <4>1, AddSymbols
    <3>3. ref_count' = ref_count
      BY <1>1, <3>2
    <3> QED
      BY <1>5, <2>3, <3>2, <3>3
  <2>4. CASE IsFunction(c.ref) /\ ~c.exempt
    <3>1. IsCxx /\ c.kind = "CallExpr" /\ ~c.member /\ c.in_file /\ ~IsSkipped(c)
      BY <1>5 DEF IsDeferredCall, IsSkipped
    <3>2. call_adds(f, CursorBelow(Len(stack)))
            = visit_most_kinds(c, f.prev_deferred_fn, scope)
      BY <2>4, <3>1 DEF call_adds, added_for, MostKinds, ScopeOf
    <3>3. PICK A \in SUBSET (Dec \X File), B \in SUBSET (Dec \X File) :
            /\ visit_most_kinds(c, f.prev_deferred_fn, scope) = <<A, B>>
            /\ \A d \in Dec, file \in File :
                 <<d, file>> \in A \cup B => Asks(c, d, f.prev_deferred_fn, scope)
            /\ IsIncludable(c.ref) /\ ~IsExempt(c, f.prev_deferred_fn, scope) =>
                 <<c.ref, DecFile[c.ref]>> \in A
      <4> HIDE DEF scope, c
      <4> QED
        BY <1>3, MostKindsAdd, Zenon
    <3>4. add_symbols(<<A, B>>)
      BY <2>2, <3>2, <3>3
    <3>5. /\ ref_count' \in [Dec -> Nat] /\ symbol_files' \in SUBSET (Dec \X File)
          /\ \A d \in Dec : ref_count'[d] >= ref_count[d]
          /\ \A d \in Dec :
               ref_count'[d] # ref_count[d] => \E file \in File : <<d, file>> \in A \cup B
          /\ \A d \in Dec, file \in File : <<d, file>> \in A => ref_count'[d] > 0
      BY <1>1, <3>4, AddSymbols
    <3>6. ASSUME NEW d \in Dec, ref_count'[d] # ref_count[d]
          PROVE  /\ c.ref = d /\ ~IsExempt(c, f.prev_deferred_fn, scope)
                 /\ IsIncludable(d) \/ c.definition # NULL
      <4>1. Asks(c, d, f.prev_deferred_fn, scope)
        BY <3>3, <3>5, <3>6
      <4> QED
        BY <3>1, <4>1 DEF Asks
    <3>7. IsIncludable(c.ref) /\ ~IsExempt(c, f.prev_deferred_fn, scope) =>
            ref_count'[c.ref] > 0
      <4>1. c.ref \in DecOrNull
        BY <1>3, CursorTyped
      <4>2. IsIncludable(c.ref) => c.ref \in Dec /\ DecFile[c.ref] \in File
        BY <4>1, IncludableType
      <4> QED
        BY <3>3, <3>5, <4>2
    <3> QED
      BY <1>5, <2>4, <3>5, <3>6, <3>7
  <2> QED
    BY <2>3, <2>4
<1> QED
  BY <1>4, <1>5

LEMMA LeaveType ==
  ASSUME VisitInv, Leave
  PROVE  SymbolsTypeOK'
<1>1. SymbolsTypeOK
  BY DEF VisitInv
<1>2. PICK f : f = Top
  OBVIOUS
<1>3. f \in Frame
  BY <1>2, LeaveSame, NodeType
<1>4. ref_count' \in [Dec -> Nat] /\ symbol_files' \in SUBSET (Dec \X File)
  BY <1>2, LeaveAdds
<1>5. /\ cxx_current_fn_cls' \in DecOrNull /\ cxx_deferred_fn' \in DecOrNull
      /\ cxx_statement_cls' \in DecOrNull
  BY <1>1, <1>2, <1>3 DEF Leave, SymbolsTypeOK, Frame
<1>6. stack' \in Seq(Frame) /\ tree' = tree /\ lang' = lang
  BY LeaveSame
<1> QED
  BY <1>1, <1>4, <1>5, <1>6 DEF SymbolsTypeOK

LEMMA LeavePreorder ==
  ASSUME VisitInv, Leave
  PROVE  InPreorder'
BY LeaveSame DEF VisitInv, InPreorder, Nodes

\* A frame stays as it was while it and those below it are there.
LEMMA FramesStay ==
  ASSUME VisitInv, tree' = tree, lang' = lang, NEW k \in DOMAIN stack,
         \A l \in 1..k : stack'[l] = stack[l]
  PROVE  Nested(k)' /\ Saved(k)'
<1>1. /\ TreeGrows /\ tree' = tree /\ lang' = lang
      /\ Len(stack) \in Nat /\ DOMAIN stack = 1..Len(stack)
      /\ \A l \in 1..k : l \in DOMAIN stack /\ stack'[l] = stack[l]
      /\ k \in 1..k
  BY NodeType DEF TreeGrows
<1>2. Nested(k) /\ Saved(k)
  BY <1>1 DEF VisitInv
<1>3. NodeBelow(k)' = NodeBelow(k) /\ CursorBelow(k)' = CursorBelow(k)
      /\ stack'[k] = stack[k]
  BY <1>1 DEF NodeBelow, CursorBelow
<1>4. PICK b : b = NodeBelow(k)
  OBVIOUS
<1>5. PICK n : n = stack[k].node
  OBVIOUS
<1>6. PICK m : m = stack[k].node - 1
  OBVIOUS
<1>7. b \in 0..Len(tree) /\ n \in 0..Len(tree) /\ m \in 0..Len(tree)
  BY <1>1, <1>4, <1>5, <1>6, NodeType
<1>8. Nested(k)'
  <2>1. up_from(n)' = up_from(n)
    BY <1>1, <1>7, UpFromStays
  <2>2. up_from(n)' = {stack'[l].node : l \in 1..k}
    <3>1. up_from(n) = {stack[l].node : l \in 1..k}
      BY <1>2, <1>5 DEF Nested
    <3>2. \A l \in 1..k : stack'[l] = stack[l]
      BY <1>1
    <3> QED
      BY <2>1, <3>1, <3>2
  <2>3. /\ n \in Nodes'
        /\ tree'[n] = [cursor |-> stack'[k].cursor, up |-> NodeBelow(k)']
        /\ \A i \in (n + 1)..Len(tree') : tree'[i].up >= n
        /\ CursorBelow(k)'.kind \in stack'[k].cursor.parents
    BY <1>1, <1>2, <1>3, <1>5 DEF Nested, Nodes
  <2> QED
    BY <1>3, <1>5, <2>2, <2>3 DEF Nested
<1>9. Saved(k)'
  <2>1. /\ FunctionClassIn(b)' = FunctionClassIn(b) /\ DeferredIn(b)' = DeferredIn(b)
        /\ StatementClass(b, m)' = StatementClass(b, m)
    BY <1>1, <1>7, ScopesStay
  <2>2. IsNewStatement(stack[k].cursor)' = IsNewStatement(stack'[k].cursor)
    BY <1>1 DEF IsNewStatement, IsCxx
  <2>3. IsNewStatement(stack'[k].cursor) = IsNewStatement(stack[k].cursor)
    BY <1>3
  <2> QED
    BY <1>2, <1>3, <1>4, <1>6, <2>1, <2>2, <2>3 DEF Saved
<1> QED
  BY <1>8, <1>9

LEMMA LeaveFrames ==
  ASSUME VisitInv, Leave, NEW k \in DOMAIN stack'
  PROVE  Nested(k)' /\ Saved(k)'
<1>1. \A l \in 1..k : stack'[l] = stack[l]
  <2>1. /\ Len(stack) \in Nat /\ k \in 1..(Len(stack) - 1)
        /\ DOMAIN stack' = 1..(Len(stack) - 1)
    BY LeaveSame, NodeType
  <2>2. \A l \in 1..k : l \in DOMAIN stack'
    BY <2>1
  <2> QED
    BY <2>2, LeaveSame
<1> QED
  BY <1>1, LeaveSame, FramesStay

LEMMA NothingStays ==
  ASSUME VisitInv, UNCHANGED symbolsVars
  PROVE  VisitInv'
<1>1. /\ tree' = tree /\ lang' = lang /\ stack' = stack
      /\ cxx_current_fn_cls' = cxx_current_fn_cls /\ cxx_deferred_fn' = cxx_deferred_fn
      /\ cxx_statement_cls' = cxx_statement_cls
  BY DEF symbolsVars, scopes
<1>2. SymbolsTypeOK'
  BY DEF VisitInv, SymbolsTypeOK, symbolsVars, scopes
<1>3. InPreorder'
  BY <1>1 DEF VisitInv, InPreorder, Nodes
<1>4. \A k \in DOMAIN stack' : Nested(k)' /\ Saved(k)'
  BY <1>1, FramesStay
<1>5. ScopesNest'
  <2>1. PICK b : b = node
    OBVIOUS
  <2>2. PICK last : last = Len(tree)
    OBVIOUS
  <2>3. node' = b /\ Len(tree') = last /\ b \in 0..Len(tree) /\ last \in 0..Len(tree)
    BY <1>1, <2>1, <2>2, NodeType DEF node, Top
  <2>4. TreeGrows
    BY <1>1, NodeType DEF TreeGrows
  <2>5. /\ FunctionClassIn(b)' = FunctionClassIn(b) /\ DeferredIn(b)' = DeferredIn(b)
        /\ StatementClass(b, last)' = StatementClass(b, last)
    BY <2>3, <2>4, ScopesStay
  <2> QED
    BY <1>1, <2>1, <2>2, <2>3, <2>5 DEF VisitInv, ScopesNest
<1> QED
  BY <1>2, <1>3, <1>4, <1>5 DEF VisitInv

\* What was named inside of a statement is in no statement that it is inside of.
LEMMA NoneNamedInside ==
  ASSUME VisitInv, NEW k \in DOMAIN stack, IsNewStatement(stack[k].cursor)
  PROVE  StatementClass(NodeBelow(k), Len(tree))
           = StatementClass(NodeBelow(k), stack[k].node - 1)
<1> DEFINE b == NodeBelow(k)
           n == stack[k].node
<1>1. /\ b \in 0..(n - 1) /\ n \in 1..Len(tree) /\ Len(tree) \in Nat /\ n \in Nodes
      /\ Nested(k)
  BY NodeType DEF Nodes, VisitInv
<1>2. StatementAt(b) \in 0..(n - 1)
  <2>1. StatementAt(b) \in 0..b
    BY <1>1, InnermostsType
  <2> QED
    BY <1>1, <2>1
<1>3. ASSUME NEW j \in n..Len(tree) PROVE StatementAt(j) # StatementAt(b)
  <2>1. \A m \in (n + 1)..j : tree[m].up >= n
    BY <1>1 DEF Nested
  <2>2. n \in up_from(j)
    BY <1>1, <2>1 DEF up_from
  <2>3. CursorAt(n) = stack[k].cursor
    BY <1>1 DEF Nested, CursorAt
  <2> DEFINE S == {i \in up_from(j) : IsNewStatement(CursorAt(i))}
  <2>4. n \in S
    BY <2>2, <2>3
  <2>5. S \in SUBSET (1..j) /\ j \in Nat
    BY <1>1, UpFromType
  <2>6. Last(S) >= n
    <3> HIDE DEF S, n
    <3> QED
      BY <1>1, <2>4, <2>5, LastIs
  <2>7. StatementAt(j) >= n /\ StatementAt(j) \in Nat
    BY <2>5, <2>6, InnermostsType DEF StatementAt
  <2> QED
    BY <1>1, <1>2, <2>7
<1>4. NamedIn(b, Len(tree)) = NamedIn(b, n - 1)
  BY <1>1, <1>3 DEF NamedIn
<1> HIDE DEF b, n
<1>5. b \in Nat /\ n - 1 \in Nat
  BY <1>1
<1>6. StatementClass(b, Len(tree)) = StatementClass(b, n - 1)
  BY <1>1, <1>4, <1>5, ScopesAt
<1> QED
  BY <1>6 DEF b, n

LEMMA LeaveScopes ==
  ASSUME VisitInv, Leave
  PROVE  ScopesNest'
<1>1. /\ TreeGrows /\ tree' = tree
      /\ Len(stack) \in DOMAIN stack /\ Top = stack[Len(stack)]
      /\ node' = NodeBelow(Len(stack)) /\ node' \in 0..Len(tree) /\ Len(tree) \in Nat
  BY LeaveSame, NodeType
<1>2. PICK b : b = NodeBelow(Len(stack))
  OBVIOUS
<1>3. PICK last : last = Len(tree)
  OBVIOUS
<1>4. Saved(Len(stack)) /\ Nested(Len(stack))
  BY <1>1 DEF VisitInv
<1>5. /\ FunctionClassIn(b)' = FunctionClassIn(b) /\ DeferredIn(b)' = DeferredIn(b)
      /\ StatementClass(b, last)' = StatementClass(b, last)
  BY <1>1, <1>2, <1>3, ScopesStay
<1>6. cxx_current_fn_cls' = FunctionClassIn(b) /\ cxx_deferred_fn' = DeferredIn(b)
  BY <1>1, <1>2, <1>4 DEF Leave, Saved
<1>7. cxx_statement_cls' = StatementClass(b, last)
  <2>1. CASE Top.is_new_statement
    <3>1. cxx_statement_cls' = Top.prev_statement /\ IsNewStatement(Top.cursor)
      BY <1>1, <1>4, <2>1 DEF Leave, Saved
    <3>2. Top.prev_statement = StatementClass(NodeBelow(Len(stack)), Top.node - 1)
      BY <1>1, <1>4 DEF Saved
    <3> QED
      BY <1>1, <1>2, <1>3, <3>1, <3>2, NoneNamedInside
  <2>2. CASE ~Top.is_new_statement
    <3>1. PICK n : n = Top.node
      OBVIOUS
    <3>2. /\ n \in Nodes /\ tree[n] = [cursor |-> Top.cursor, up |-> b] /\ node = n
      BY <1>1, <1>2, <1>4, <3>1, NodeType DEF Nested
    <3>3. ~IsNewStatement(CursorAt(n)) /\ tree[n].up = b
      BY <1>1, <1>4, <2>2, <3>2 DEF Saved, CursorAt
    <3>4. StatementClass(n, last) = StatementClass(b, last)
      BY <1>1, <1>3, <3>2, <3>3, StatementOfChild DEF VisitInv
    <3>5. cxx_statement_cls = StatementClass(n, last)
      BY <1>3, <3>2 DEF VisitInv, ScopesNest
    <3> QED
      BY <2>2, <3>4, <3>5 DEF Leave
  <2> QED
    BY <2>1, <2>2
<1>8. node' = b /\ Len(tree') = last
  BY <1>1, <1>2, <1>3
<1> QED
  BY <1>5, <1>6, <1>7, <1>8 DEF ScopesNest

-----------------------------------------------------------------------------
(***************************************************************************)
(* The scopes nest.                                                        *)
(***************************************************************************)

LEMMA VisitInvInit == SymbolsInit => VisitInv
<1> SUFFICES ASSUME SymbolsInit PROVE VisitInv
  OBVIOUS
<1> USE DEF SymbolsInit
<1>1. SymbolsTypeOK
  BY DEF SymbolsTypeOK, DecOrNull
<1>2. InPreorder /\ \A k \in DOMAIN stack : Nested(k) /\ Saved(k)
  BY DEF InPreorder, Nodes
<1>3. ScopesNest
  <2>1. node = 0 /\ Len(tree) = 0
    BY DEF node
  <2>2. up_from(0) = {}
    BY UpFromType
  <2>3. FunctionAt(0) = 0 /\ CallAt(0) = 0 /\ Last(NamedIn(0, 0)) = 0
    BY <2>2 DEF FunctionAt, CallAt, NamedIn, Last
  <2> QED
    BY <2>1, <2>3, ScopesAt DEF ScopesNest
<1> QED
  BY <1>1, <1>2, <1>3 DEF VisitInv

LEMMA VisitInvStep == VisitInv /\ [SymbolsNext]_symbolsVars => VisitInv'
<1> SUFFICES ASSUME VisitInv, [SymbolsNext]_symbolsVars PROVE VisitInv'
  OBVIOUS
<1>1. ASSUME NEW c \in Cursor, Enter(c) PROVE VisitInv'
  BY <1>1, EnterType, EnterPreorder, EnterNested, EnterSaved, EnterScopes DEF VisitInv
<1>2. CASE Leave
  BY <1>2, LeaveType, LeavePreorder, LeaveFrames, LeaveScopes DEF VisitInv
<1>3. CASE UNCHANGED symbolsVars
  BY <1>3, NothingStays
<1> QED
  BY <1>1, <1>2, <1>3 DEF SymbolsNext

LEMMA AlwaysVisitInv == SymbolsSpec => []VisitInv
<1> QED
  BY VisitInvInit, VisitInvStep, PTL DEF SymbolsSpec

\* At every cursor, at any depth and after any number of siblings, the visitor
\* knows the class of the innermost function, the function of the innermost call
\* and the class named last in the innermost statement: the variables that
\* symbols_init_visitor() and visit_CallExpr() save and restore.
THEOREM VisitorScopesNest == SymbolsSpec => []ScopesNest
<1>1. VisitInv => ScopesNest
  BY DEF VisitInv
<1> QED
  BY <1>1, AlwaysVisitInv, PTL

-----------------------------------------------------------------------------
(***************************************************************************)
(* The function of a call whose arguments were visited.                    *)
(***************************************************************************)

\* An expression is not the child of a class: its scope is a function's class, a
\* class that the statement names, or none.
LEMMA ScopeOfCall ==
  ASSUME VisitInv, NEW k \in DOMAIN stack, IsDeferredCall(stack[k].cursor), NEW fn, NEW statement
  PROVE  ScopeOf(stack[k].cursor, CursorBelow(k), fn, statement)
           = sid_cxx_scope(fn, statement, NULL)
<1> DEFINE c == stack[k].cursor
<1>1. c \in Cursor /\ c.kind = "CallExpr"
  BY NodeType DEF Frame, IsDeferredCall
<1>2. CursorBelow(k).kind \in c.parents
  BY DEF VisitInv, Nested
<1>3. CursorBelow(k).kind # "ClassDecl"
  BY <1>1, <1>2, CursorTyped
<1>4. else_scope(c, CursorBelow(k)) = NULL
  BY <1>1, <1>3 DEF else_scope
<1> QED
  BY <1>4 DEF ScopeOf

InsideOf(i) == {j \in Nodes : i \in up_from(j)}

\* A new node is inside of the open nodes only.
LEMMA ClosedStays ==
  ASSUME VisitInv, NEW c \in Cursor, Enter(c), NEW i \in Nodes, ~IsOpen(i)
  PROVE  InsideOf(i)' = InsideOf(i) /\ ~IsOpen(i)'
<1>1. /\ TreeGrows /\ Len(tree) \in Nat /\ Len(tree') = Len(tree) + 1
      /\ tree'[Len(tree) + 1] = [cursor |-> c, up |-> node]
      /\ Len(stack) \in Nat /\ DOMAIN stack = 1..Len(stack)
      /\ DOMAIN stack' = 1..(Len(stack) + 1)
      /\ \A k \in DOMAIN stack : stack'[k] = stack[k]
      /\ stack'[Len(stack) + 1].node = Len(tree) + 1
      /\ node \in 0..Len(tree)
  <2>1. stack'[Len(stack) + 1].node = Len(tree) + 1
    <3>1. stack'[Len(stack) + 1] = NewFrame(c)
      BY EnterGrows
    <3> QED
      BY <3>1 DEF NewFrame
  <2> QED
    BY <2>1, EnterGrows, NodeType DEF TreeGrows
<1>2. i \in 1..Len(tree) /\ Nodes = 1..Len(tree) /\ Nodes' = 1..(Len(tree) + 1)
  BY <1>1 DEF Nodes
<1>3. ~IsOpen(i)'
  BY <1>1, <1>2 DEF IsOpen
<1>4. PICK n : n = Len(tree) + 1
  OBVIOUS
<1>5. PICK b : b = node
  OBVIOUS
<1>6. i \notin up_from(n)'
  <2>1. up_from(n)' = {n} \cup up_from(b)'
    <3>1. tree'[n].up = b /\ n \in Nodes'
      BY <1>1, <1>2, <1>4, <1>5
    <3> QED
      BY <3>1, EnterType, EnterPreorder, NodesInheritNext DEF Inherits
  <2>2. up_from(b)' = up_from(b)
    BY <1>1, <1>5, UpFromStays
  <2>3. i \notin up_from(b)
    <3>1. CASE b = 0
      BY <3>1, UpFromType
    <3>2. CASE b # 0
      <4>1. Len(stack) \in DOMAIN stack
        BY <1>5, <3>2, <1>1, NodeType
      <4>2. up_from(b) = {stack[l].node : l \in 1..Len(stack)}
        BY <1>5, <4>1, FramesAscend
      <4> QED
        BY <1>1, <4>2 DEF IsOpen
    <3> QED
      BY <3>1, <3>2
  <2> QED
    BY <1>1, <1>2, <1>4, <2>1, <2>2, <2>3
<1>7. \A j \in Nodes : up_from(j)' = up_from(j)
  BY <1>1, <1>2, UpFromStays
<1>8. Nodes' = Nodes \cup {n}
  BY <1>1, <1>2, <1>4
<1>9. InsideOf(i)' = {j \in Nodes' : i \in up_from(j)'}
  BY DEF InsideOf
<1> QED
  BY <1>3, <1>6, <1>7, <1>8, <1>9 DEF InsideOf

\* The last of the nodes inside of one.
LEMMA InsideType ==
  ASSUME VisitInv, NEW i \in Nodes
  PROVE  Max(InsideOf(i)) \in 1..Len(tree)
<1>1. Len(tree) \in Nat /\ Nodes = 1..Len(tree)
  BY NodeType DEF Nodes
<1>2. i \in InsideOf(i) /\ InsideOf(i) \in SUBSET (1..Len(tree))
  BY <1>1, UpFromType DEF InsideOf
<1>3. InsideOf(i) \in SUBSET (0..Len(tree))
  BY <1>2
<1> QED
  BY <1>1, <1>2, <1>3, GreatestNatural

\* Everything since an open node is inside of it.
LEMMA InsideOfOpen ==
  ASSUME VisitInv, NEW k \in DOMAIN stack
  PROVE  Max(InsideOf(stack[k].node)) = Len(tree)
<1>1. Len(tree) \in Nat /\ stack[k].node \in 1..Len(tree) /\ Nodes = 1..Len(tree)
  BY NodeType DEF Nodes
<1>2. stack[k].node \in up_from(Len(tree))
  BY <1>1 DEF VisitInv, Nested, up_from
<1>3. Len(tree) \in InsideOf(stack[k].node)
  BY <1>1, <1>2 DEF InsideOf
<1>4. InsideOf(stack[k].node) \in SUBSET (0..Len(tree))
  BY <1>1 DEF InsideOf
<1>5. \A j \in InsideOf(stack[k].node) : j <= Len(tree)
  BY <1>1, <1>4
<1> QED
  BY <1>1, <1>3, <1>4, <1>5, MaxIs

\* What is needed for a call that is over.
NeedsIt(i, last) ==
  /\ IsDeferredCall(CursorAt(i)) /\ ~IsOpen(i)
  /\ IsFunction(CursorAt(i).ref) /\ IsIncludable(CursorAt(i).ref) /\ ~CursorAt(i).exempt
  /\ ~IsMemberOrBase(CursorAt(i).ref,
        sid_cxx_scope(FunctionClassIn(tree[i].up), StatementClass(i, last), NULL))

LEMMA NeedsFunctionIs ==
  \A i : NeedsFunction(i) <=> NeedsIt(i, Max(InsideOf(i)))
BY DEF NeedsFunction, NeedsIt, InsideOf

LEMMA NeedsFunctionIsNext ==
  \A i : NeedsFunction(i)' <=> NeedsIt(i, Max(InsideOf(i)))'
BY DEF NeedsFunction, NeedsIt, InsideOf

LEMMA EnterAdds ==
  ASSUME VisitInv, NEW c \in Cursor, Enter(c), NEW d \in Dec
  PROVE  /\ ref_count[d] \in Nat /\ ref_count'[d] \in Nat /\ ref_count'[d] >= ref_count[d]
         /\ ref_count'[d] # ref_count[d] =>
              /\ ~IsDeferredCall(c) /\ ~IsSkipped(c)
              /\ Asks(c, d, cxx_deferred_fn,
                      ScopeOf(c, Parent, cxx_current_fn_cls, statement_before(c)))
<1>1. SymbolsTypeOK /\ SymbolsTypeOK'
  BY EnterType DEF VisitInv
<1>2. ref_count[d] \in Nat /\ ref_count'[d] \in Nat
  BY <1>1 DEF SymbolsTypeOK
<1>3. CASE IsDeferredCall(c)
  BY <1>2, <1>3 DEF Enter
<1>4. CASE ~IsDeferredCall(c)
  <2>1. PICK A \in SUBSET (Dec \X File), B \in SUBSET (Dec \X File) :
          /\ added_for(c, Parent, cxx_current_fn_cls, cxx_deferred_fn, statement_before(c))
               = <<A, B>>
          /\ \A e \in Dec, file \in File :
               <<e, file>> \in A \cup B =>
                 /\ ~IsSkipped(c)
                 /\ Asks(c, e, cxx_deferred_fn,
                         ScopeOf(c, Parent, cxx_current_fn_cls, statement_before(c)))
    BY AddedFor
  <2>2. add_symbols(<<A, B>>)
    BY <1>4, <2>1 DEF Enter
  <2>3. /\ ref_count'[d] >= ref_count[d]
        /\ ref_count'[d] # ref_count[d] => \E file \in File : <<d, file>> \in A \cup B
    BY <1>1, <2>2, AddSymbols
  <2> QED
    BY <1>2, <1>4, <2>1, <2>3
<1> QED
  BY <1>3, <1>4

\* What a call needs is settled by the time that its arguments were visited.
Needy(i, last) ==
  /\ IsDeferredCall(CursorAt(i))
  /\ IsFunction(CursorAt(i).ref) /\ IsIncludable(CursorAt(i).ref) /\ ~CursorAt(i).exempt
  /\ ~IsMemberOrBase(CursorAt(i).ref,
        sid_cxx_scope(FunctionClassIn(tree[i].up), StatementClass(i, last), NULL))

LEMMA NeedyStays ==
  ASSUME VisitInv, TreeGrows, NEW i \in Nodes, NEW last \in 0..Len(tree), Needy(i, last)'
  PROVE  Needy(i, last) /\ DeferredIn(tree[i].up)' = DeferredIn(tree[i].up)
<1>1. tree'[i] = tree[i] /\ i \in 0..Len(tree) /\ tree[i].up \in 0..Len(tree)
  BY DEF Nodes, TreeGrows, VisitInv, InPreorder
<1>2. PICK b : b = tree[i].up
  OBVIOUS
<1>3. /\ FunctionClassIn(b)' = FunctionClassIn(b) /\ DeferredIn(b)' = DeferredIn(b)
      /\ StatementClass(i, last)' = StatementClass(i, last)
  BY <1>1, <1>2, ScopesStay
<1>4. tree'[i].up = b
  BY <1>1, <1>2
<1>5. CursorAt(i)' = CursorAt(i) /\ IsDeferredCall(CursorAt(i))' = IsDeferredCall(CursorAt(i))
  BY CursorStays
<1>6. PICK r : r = CursorAt(i).ref
  OBVIOUS
<1>7. /\ IsFunction(r) /\ IsIncludable(r) /\ ~CursorAt(i).exempt
      /\ ~IsMemberOrBase(r,
            sid_cxx_scope(FunctionClassIn(b), StatementClass(i, last), NULL))
  BY <1>3, <1>4, <1>5, <1>6
  DEF Needy, IsFunction, IsIncludable, IsMemberOrBase, IsClass, OfClassOrBase, sid_cxx_scope
<1>8. Needy(i, last)
  BY <1>2, <1>5, <1>6, <1>7 DEF Needy
<1> QED
  BY <1>2, <1>3, <1>4, <1>8

Accounted(i) ==
  \/ ref_count[CursorAt(i).ref] > 0
  \/ DeferredIn(tree[i].up) = CursorAt(i).ref

LEMMA CallsAre ==
  /\ CallsAccounted <=> \A i \in Nodes : ~IsOpen(i) /\ Needy(i, Max(InsideOf(i))) => Accounted(i)
  /\ CallsAccounted' <=>
       \A i \in Nodes' : ~IsOpen(i)' /\ Needy(i, Max(InsideOf(i)))' => Accounted(i)'
BY DEF CallsAccounted, NeedsFunction, Needy, InsideOf, Accounted

\* A call that is accounted for remains so.
LEMMA AccountedStays ==
  ASSUME VisitInv, TreeGrows, NEW i \in Nodes, Accounted(i), CursorAt(i).ref \in Dec,
         \A d \in Dec : ref_count[d] \in Nat /\ ref_count'[d] \in Nat
                        /\ ref_count'[d] >= ref_count[d]
  PROVE  Accounted(i)'
<1>1. tree'[i] = tree[i] /\ tree[i].up \in 0..Len(tree)
  BY DEF Nodes, TreeGrows, VisitInv, InPreorder
<1>2. PICK b : b = tree[i].up
  OBVIOUS
<1>3. DeferredIn(b)' = DeferredIn(b)
  BY <1>1, <1>2, ScopesStay DEF TreeGrows
<1>4. CursorAt(i)' = CursorAt(i) /\ CursorAt(i).ref' = CursorAt(i).ref
  BY CursorStays
<1>5. CASE ref_count[CursorAt(i).ref] > 0
  BY <1>4, <1>5 DEF Accounted
<1>6. CASE DeferredIn(b) = CursorAt(i).ref
  BY <1>1, <1>2, <1>3, <1>4, <1>6 DEF Accounted
<1> QED
  BY <1>2, <1>5, <1>6 DEF Accounted

LEMMA EnterCalls ==
  ASSUME VisitInv, CallsAccounted, NEW c \in Cursor, Enter(c)
  PROVE  CallsAccounted'
<1>1. /\ TreeGrows /\ Len(tree) \in Nat /\ Len(tree') = Len(tree) + 1
      /\ Len(stack) \in Nat /\ DOMAIN stack = 1..Len(stack)
      /\ DOMAIN stack' = 1..(Len(stack) + 1)
      /\ \A k \in DOMAIN stack : stack'[k] = stack[k]
      /\ stack'[Len(stack) + 1].node = Len(tree) + 1
  <2>1. stack'[Len(stack) + 1].node = Len(tree) + 1
    <3>1. stack'[Len(stack) + 1] = NewFrame(c)
      BY EnterGrows
    <3> QED
      BY <3>1 DEF NewFrame
  <2> QED
    BY <2>1, EnterGrows, NodeType DEF TreeGrows
<1>2. ASSUME NEW i \in Nodes', ~IsOpen(i)', Needy(i, Max(InsideOf(i)))'
      PROVE  Accounted(i)'
  <2>1. i # Len(tree) + 1
    BY <1>1, <1>2 DEF IsOpen
  <2>2. i \in Nodes
    BY <1>1, <2>1 DEF Nodes
  <2>3. ~IsOpen(i)
    BY <1>1, <1>2 DEF IsOpen
  <2>4. PICK last : last = Max(InsideOf(i))
    OBVIOUS
  <2>5. Max(InsideOf(i))' = last /\ last \in 0..Len(tree)
    BY <1>1, <2>2, <2>3, <2>4, ClosedStays, InsideType
  <2>6. Needy(i, last)'
    BY <1>2, <2>5 DEF Needy
  <2>7. Needy(i, last)
    BY <1>1, <2>2, <2>5, <2>6, NeedyStays
  <2>8. Accounted(i)
    BY <2>2, <2>3, <2>4, <2>7, CallsAre
  <2>9. CursorAt(i).ref \in Dec
    <3>1. CursorAt(i) \in Cursor
      BY <2>2, CursorAtType DEF VisitInv
    <3> QED
      BY <2>7, <3>1, CursorTyped DEF Needy, IsFunction, DecOrNull
  <2> QED
    BY <1>1, <2>2, <2>8, <2>9, AccountedStays, EnterAdds
<1> QED
  BY <1>2, CallsAre

LEMMA LeaveCalls ==
  ASSUME VisitInv, CallsAccounted, Leave
  PROVE  CallsAccounted'
<1>1. /\ TreeGrows /\ tree' = tree /\ lang' = lang /\ Len(tree) \in Nat
      /\ Len(stack) \in Nat /\ DOMAIN stack = 1..Len(stack)
      /\ Len(stack) \in DOMAIN stack /\ Top = stack[Len(stack)]
      /\ DOMAIN stack' = 1..(Len(stack) - 1)
      /\ \A k \in DOMAIN stack' : k \in DOMAIN stack /\ stack'[k] = stack[k]
  BY LeaveSame, NodeType
<1>2. PICK f : f = Top
  OBVIOUS
<1>3. PICK n : n = f.node
  OBVIOUS
<1>4. Nested(Len(stack)) /\ Saved(Len(stack))
  BY <1>1 DEF VisitInv
<1>5. /\ n \in Nodes /\ tree[n] = [cursor |-> f.cursor, up |-> NodeBelow(Len(stack))]
      /\ node = n
  BY <1>1, <1>2, <1>3, <1>4, NodeType DEF Nested
<1>6. CursorAt(n) = f.cursor /\ tree[n].up = NodeBelow(Len(stack)) /\ f.cursor \in Cursor
  BY <1>5, CursorAtType DEF CursorAt, VisitInv
<1>7. ASSUME NEW i \in Nodes', ~IsOpen(i)', Needy(i, Max(InsideOf(i)))'
      PROVE  Accounted(i)'
  <2>1. i \in Nodes
    BY <1>1, <1>7 DEF Nodes
  <2>2. PICK last : last = Max(InsideOf(i))
    OBVIOUS
  <2>3. Max(InsideOf(i))' = last /\ last \in 0..Len(tree)
    <3>1. InsideOf(i)' = InsideOf(i)
      BY <1>1 DEF InsideOf, Nodes, up_from
    <3> QED
      BY <2>1, <2>2, <3>1, <1>1, InsideType
  <2>4. Needy(i, last)'
    BY <1>7, <2>3 DEF Needy
  <2>5. Needy(i, last) /\ DeferredIn(tree[i].up)' = DeferredIn(tree[i].up)
    BY <1>1, <2>1, <2>3, <2>4, NeedyStays
  <2>6. CursorAt(i) \in Cursor /\ CursorAt(i).ref \in Dec
    <3>1. CursorAt(i) \in Cursor
      BY <2>1, CursorAtType DEF VisitInv
    <3> QED
      BY <2>5, <3>1, CursorTyped DEF Needy, IsFunction, DecOrNull
  <2>7. \A d \in Dec : ref_count[d] \in Nat /\ ref_count'[d] \in Nat
                       /\ ref_count'[d] >= ref_count[d]
    BY <1>2, LeaveAdds DEF VisitInv, SymbolsTypeOK
  <2>8. CASE i # n
    <3>1. ~IsOpen(i)
      <4>1. \A k \in DOMAIN stack : k = Len(stack) \/ k \in DOMAIN stack'
        BY <1>1
      <4>2. stack[Len(stack)].node = n
        BY <1>1, <1>2, <1>3
      <4>3. \A k \in DOMAIN stack' : stack'[k].node # i
        BY <1>7 DEF IsOpen
      <4> QED
        BY <1>1, <2>8, <4>1, <4>2, <4>3 DEF IsOpen
    <3>2. Accounted(i)
      BY <2>1, <2>2, <2>5, <3>1, CallsAre
    <3> QED
      BY <1>1, <2>1, <2>6, <2>7, <3>2, AccountedStays
  <2>9. CASE i = n
    <3>1. last = Len(tree)
      BY <1>1, <1>2, <1>3, <2>2, <2>9, InsideOfOpen
    <3>2. PICK b : b = NodeBelow(Len(stack))
      OBVIOUS
    <3>3. /\ f.prev_fn_cls = FunctionClassIn(b) /\ f.prev_deferred_fn = DeferredIn(b)
          /\ cxx_statement_cls = StatementClass(n, last)
      BY <1>1, <1>2, <1>4, <1>5, <3>1, <3>2 DEF Saved, VisitInv, ScopesNest
    <3>4. /\ IsDeferredCall(f.cursor)
          /\ IsFunction(f.cursor.ref) /\ IsIncludable(f.cursor.ref) /\ ~f.cursor.exempt
          /\ ~IsMemberOrBase(f.cursor.ref,
                sid_cxx_scope(f.prev_fn_cls, cxx_statement_cls, NULL))
      BY <1>6, <2>5, <2>9, <3>2, <3>3 DEF Needy
    <3>5. ScopeOf(f.cursor, CursorBelow(Len(stack)), f.prev_fn_cls, cxx_statement_cls)
            = sid_cxx_scope(f.prev_fn_cls, cxx_statement_cls, NULL)
      BY <1>1, <1>2, <3>4, ScopeOfCall
    <3>6. CASE f.cursor.ref = f.prev_deferred_fn
      <4>1. /\ tree'[n].up = b /\ CursorAt(n)' = f.cursor
            /\ DeferredIn(b)' = DeferredIn(b)
        BY <1>1, <1>5, <1>6, <2>5, <2>9, <3>2 DEF CursorAt
      <4>2. DeferredIn(tree[n].up)' = CursorAt(n).ref'
        BY <3>3, <3>6, <4>1
      <4> QED
        BY <2>9, <4>2 DEF Accounted
    <3>7. CASE f.cursor.ref # f.prev_deferred_fn
      <4>1. ~IsExempt(f.cursor, f.prev_deferred_fn,
                ScopeOf(f.cursor, CursorBelow(Len(stack)), f.prev_fn_cls, cxx_statement_cls))
        BY <3>4, <3>5, <3>7 DEF IsExempt
      <4>2. ref_count'[f.cursor.ref] > 0
        BY <1>2, <3>4, <4>1, LeaveAdds
      <4>3. CursorAt(n)' = f.cursor
        BY <1>1, <1>6 DEF CursorAt
      <4> QED
        BY <2>9, <4>2, <4>3 DEF Accounted
    <3> QED
      BY <3>6, <3>7
  <2> QED
    BY <2>8, <2>9
<1> QED
  BY <1>7, CallsAre

-----------------------------------------------------------------------------
(***************************************************************************)
(* What is inherited.                                                      *)
(***************************************************************************)

\* The class of a function is a class.
LEMMA FunctionClassIsClass ==
  ASSUME NEW i \in Nat
  PROVE  FunctionClassIn(i) = NULL \/ IsClass(FunctionClassIn(i))
<1>1. \A c : function_class(c) = NULL \/ IsClass(function_class(c))
  BY DEF function_class
<1> QED
  BY <1>1, ScopesAt

\* The node i asks for d although it is not because the class K has it.
Own(c, K, d) ==
  /\ d = c.ref \/ d \in c.tokens
  /\ \/ K = NULL \/ ~(OfClassOrBase(K, d) \/ OfClassOrBase(K, DecParent[d]))
     \/ c.definition # NULL
     \/ c.kind \in {"FieldDecl", "MacroDefinition", "OverloadedDeclRef"}

LEMMA AsksForOwn ==
  ASSUME NEW c, NEW d \in Dec, NEW deferred, NEW parent, NEW K, NEW statement,
         IsCxx, Asks(c, d, deferred, ScopeOf(c, parent, K, statement)),
         K = NULL \/ IsClass(K)
  PROVE  Own(c, K, d)
<1>1. K # NULL => ScopeOf(c, parent, K, statement) = K
  BY DEF ScopeOf, sid_cxx_scope
<1>2. CASE c.kind \in {"FieldDecl", "MacroDefinition"} /\ d \in c.tokens
  BY <1>2 DEF Own
<1>3. CASE c.kind = "OverloadedDeclRef" /\ c.ref = d
  BY <1>3 DEF Own
<1>4. CASE /\ c.ref = d /\ ~IsExempt(c, deferred, ScopeOf(c, parent, K, statement))
           /\ IsIncludable(d) \/ c.definition # NULL
  <2>1. CASE K = NULL \/ c.definition # NULL
    BY <1>4, <2>1 DEF Own
  <2>2. CASE K # NULL /\ IsIncludable(d)
    <3>1. ~IsMemberOrBase(d, K)
      BY <1>1, <1>4, <2>2 DEF IsExempt
    <3> QED
      BY <1>4, <2>2, <3>1 DEF IsMemberOrBase, Own
  <2> QED
    BY <1>4, <2>1, <2>2
<1> QED
  BY <1>2, <1>3, <1>4 DEF Asks

OwnAt(i, d) == Own(CursorAt(i), FunctionClassIn(tree[i].up), d)

LEMMA InheritedIs ==
  /\ InheritedIsSufficient <=>
       \A d \in Dec : IsCxx /\ ref_count[d] > 0 => \E i \in Nodes : OwnAt(i, d)
  /\ InheritedIsSufficient' <=>
       \A d \in Dec : IsCxx' /\ ref_count'[d] > 0 => \E i \in Nodes' : OwnAt(i, d)'
BY DEF InheritedIsSufficient, OwnAt, Own, OfClassOrBase

LEMMA OwnStays ==
  ASSUME VisitInv, TreeGrows, NEW i \in Nodes, NEW d \in Dec
  PROVE  OwnAt(i, d)' <=> OwnAt(i, d)
<1>1. tree'[i] = tree[i] /\ tree[i].up \in 0..Len(tree)
  BY DEF Nodes, TreeGrows, VisitInv, InPreorder
<1>2. PICK b : b = tree[i].up
  OBVIOUS
<1>3. FunctionClassIn(b)' = FunctionClassIn(b) /\ tree'[i].up = b
  BY <1>1, <1>2, ScopesStay DEF TreeGrows
<1>4. PICK c : c = CursorAt(i)
  OBVIOUS
<1>5. CursorAt(i)' = c
  BY <1>4, CursorStays
<1>6. OwnAt(i, d)' <=> Own(c, FunctionClassIn(b), d)
  BY <1>3, <1>5 DEF OwnAt, Own, OfClassOrBase
<1> QED
  BY <1>2, <1>4, <1>6 DEF OwnAt

LEMMA EnterInherited ==
  ASSUME VisitInv, InheritedIsSufficient, NEW c \in Cursor, Enter(c)
  PROVE  InheritedIsSufficient'
<1>1. /\ TreeGrows /\ lang' = lang /\ Len(tree) \in Nat /\ Len(tree') = Len(tree) + 1
      /\ tree'[Len(tree) + 1] = [cursor |-> c, up |-> node]
      /\ node \in 0..Len(tree)
  BY EnterGrows, NodeType DEF TreeGrows
<1>2. Nodes' = 1..(Len(tree) + 1) /\ Nodes = 1..Len(tree)
  BY <1>1 DEF Nodes
<1>3. ASSUME NEW d \in Dec, IsCxx', ref_count'[d] > 0
      PROVE  \E i \in Nodes' : OwnAt(i, d)'
  <2>1. IsCxx
    BY <1>1, <1>3 DEF IsCxx
  <2>2. CASE ref_count'[d] = ref_count[d]
    <3>1. PICK i \in Nodes : OwnAt(i, d)
      BY <1>3, <2>1, <2>2, InheritedIs
    <3> QED
      BY <1>1, <1>2, <3>1, OwnStays
  <2>3. CASE ref_count'[d] # ref_count[d]
    <3>1. Asks(c, d, cxx_deferred_fn,
               ScopeOf(c, Parent, cxx_current_fn_cls, statement_before(c)))
      BY <2>3, EnterAdds
    <3>2. PICK b : b = node
      OBVIOUS
    <3>3. PICK n : n = Len(tree) + 1
      OBVIOUS
    <3>4. cxx_current_fn_cls = FunctionClassIn(b) /\ FunctionClassIn(b)' = FunctionClassIn(b)
      BY <1>1, <3>2, ScopesStay DEF VisitInv, ScopesNest
    <3>5. Own(c, cxx_current_fn_cls, d)
      BY <1>1, <2>1, <3>1, <3>2, <3>4, FunctionClassIsClass, AsksForOwn
    <3>6. CursorAt(n)' = c /\ tree'[n].up = b
      BY <1>1, <3>2, <3>3 DEF CursorAt
    <3>7. OwnAt(n, d)'
      BY <3>4, <3>5, <3>6 DEF OwnAt, Own, OfClassOrBase
    <3> QED
      BY <1>1, <1>2, <3>3, <3>7
  <2> QED
    BY <2>2, <2>3
<1> QED
  BY <1>3, InheritedIs

LEMMA LeaveInherited ==
  ASSUME VisitInv, InheritedIsSufficient, Leave
  PROVE  InheritedIsSufficient'
<1>1. /\ TreeGrows /\ tree' = tree /\ lang' = lang /\ Len(tree) \in Nat
      /\ Len(stack) \in DOMAIN stack /\ Top = stack[Len(stack)]
  BY LeaveSame, NodeType
<1>2. Nodes' = Nodes
  BY <1>1 DEF Nodes
<1>3. PICK f : f = Top
  OBVIOUS
<1>4. Nested(Len(stack)) /\ Saved(Len(stack))
  BY <1>1 DEF VisitInv
<1>5. ASSUME NEW d \in Dec, IsCxx', ref_count'[d] > 0
      PROVE  \E i \in Nodes' : OwnAt(i, d)'
  <2>1. IsCxx
    BY <1>1, <1>5 DEF IsCxx
  <2>2. CASE ref_count'[d] = ref_count[d]
    <3>1. PICK i \in Nodes : OwnAt(i, d)
      BY <1>5, <2>1, <2>2, InheritedIs
    <3> QED
      BY <1>1, <1>2, <3>1, OwnStays
  <2>3. CASE ref_count'[d] # ref_count[d]
    <3>1. /\ IsDeferredCall(f.cursor) /\ f.cursor.ref = d
          /\ ~IsExempt(f.cursor, f.prev_deferred_fn,
                ScopeOf(f.cursor, CursorBelow(Len(stack)), f.prev_fn_cls, cxx_statement_cls))
          /\ IsIncludable(d) \/ f.cursor.definition # NULL
      BY <1>3, <2>3, LeaveAdds
    <3>2. PICK b : b = NodeBelow(Len(stack))
      OBVIOUS
    <3>3. PICK n : n = f.node
      OBVIOUS
    <3>4. f.prev_fn_cls = FunctionClassIn(b) /\ b \in Nat
      BY <1>1, <1>3, <1>4, <3>2, NodeType DEF Saved
    <3>5. Asks(f.cursor, d, f.prev_deferred_fn,
             ScopeOf(f.cursor, CursorBelow(Len(stack)), f.prev_fn_cls, cxx_statement_cls))
      BY <3>1 DEF Asks
    <3>6. Own(f.cursor, f.prev_fn_cls, d)
      BY <2>1, <3>4, <3>5, FunctionClassIsClass, AsksForOwn
    <3>7. n \in Nodes /\ tree[n] = [cursor |-> f.cursor, up |-> b]
      BY <1>1, <1>3, <1>4, <3>2, <3>3 DEF Nested
    <3>8. OwnAt(n, d)
      BY <3>4, <3>6, <3>7 DEF OwnAt, CursorAt
    <3> QED
      BY <1>1, <1>2, <3>7, <3>8, OwnStays
  <2> QED
    BY <2>2, <2>3
<1> QED
  BY <1>5, InheritedIs

-----------------------------------------------------------------------------
(***************************************************************************)
(* What is mentioned in exempt calls.                                      *)
(***************************************************************************)

\* The node i mentions d, if it does, in an exempt call of it.
HiddenAt(i, d) ==
  CursorAt(i).ref = d /\ ~IsSkipped(CursorAt(i)) =>
    \E j \in up_from(i) : /\ IsDeferredCall(CursorAt(j)) /\ CursorAt(j).exempt
                          /\ CursorAt(j).ref = d
                          /\ DeferredIn(tree[i].up) = d \/ i = j

\* It does not ask for d whatever it is in.
Undemanding(c, d) == d \notin c.tokens /\ (c.kind = "OverloadedDeclRef" => c.ref # d)

LEMMA HiddenIs ==
  /\ ExemptCallsHidden <=>
       \A d \in Dec :
         IsCxx /\ DecKind[d] = "function"
           /\ (\A i \in Nodes : HiddenAt(i, d) /\ Undemanding(CursorAt(i), d))
         => ref_count[d] = 0
  /\ ExemptCallsHidden' <=>
       \A d \in Dec :
         IsCxx' /\ DecKind[d] = "function"
           /\ (\A i \in Nodes' : HiddenAt(i, d)' /\ Undemanding(CursorAt(i), d)')
         => ref_count'[d] = 0
BY DEF ExemptCallsHidden, HiddenAt, Undemanding

LEMMA HiddenStays ==
  ASSUME VisitInv, TreeGrows, NEW i \in Nodes, NEW d \in Dec,
         HiddenAt(i, d)', Undemanding(CursorAt(i), d)'
  PROVE  HiddenAt(i, d) /\ Undemanding(CursorAt(i), d)
<1>1. /\ tree'[i] = tree[i] /\ tree[i].up \in 0..Len(tree) /\ i \in 0..Len(tree)
      /\ up_from(i) \in SUBSET Nodes
  BY UpFromType DEF Nodes, TreeGrows, VisitInv, InPreorder
<1>2. PICK b : b = tree[i].up
  OBVIOUS
<1>3. DeferredIn(b)' = DeferredIn(b) /\ tree'[i].up = b
  BY <1>1, <1>2, ScopesStay DEF TreeGrows
<1>4. up_from(i)' = up_from(i)
  BY <1>1, UpFromStays
<1>5. \A j \in Nodes : CursorAt(j)' = CursorAt(j)
                       /\ IsDeferredCall(CursorAt(j))' = IsDeferredCall(CursorAt(j))
  BY CursorStays
<1>6. Undemanding(CursorAt(i), d)
  BY <1>5 DEF Undemanding
<1>7. HiddenAt(i, d)
  <2>1. IsSkipped(CursorAt(i))' = IsSkipped(CursorAt(i))
    BY <1>5 DEF IsSkipped
  <2> SUFFICES ASSUME CursorAt(i).ref = d, ~IsSkipped(CursorAt(i))
               PROVE  \E j \in up_from(i) :
                        /\ IsDeferredCall(CursorAt(j)) /\ CursorAt(j).exempt
                        /\ CursorAt(j).ref = d
                        /\ DeferredIn(tree[i].up) = d \/ i = j
    BY DEF HiddenAt
  <2>2. PICK j \in up_from(i) :
           /\ IsDeferredCall(CursorAt(j))' /\ CursorAt(j)'.exempt /\ CursorAt(j)'.ref = d
           /\ DeferredIn(b)' = d \/ i = j
    BY <1>3, <1>4, <1>5, <2>1 DEF HiddenAt
  <2>3. j \in Nodes
    BY <1>1
  <2> QED
    BY <1>2, <1>3, <1>5, <2>2, <2>3
<1> QED
  BY <1>6, <1>7

LEMMA EnterHidden ==
  ASSUME VisitInv, ExemptCallsHidden, NEW c \in Cursor, Enter(c)
  PROVE  ExemptCallsHidden'
<1>1. /\ TreeGrows /\ lang' = lang /\ Len(tree) \in Nat /\ Len(tree') = Len(tree) + 1
      /\ tree'[Len(tree) + 1] = [cursor |-> c, up |-> node]
      /\ node \in 0..Len(tree)
  BY EnterGrows, NodeType DEF TreeGrows
<1>2. Nodes' = 1..(Len(tree) + 1) /\ Nodes = 1..Len(tree)
  BY <1>1 DEF Nodes
<1>3. ASSUME NEW d \in Dec, IsCxx', DecKind[d] = "function",
             \A i \in Nodes' : HiddenAt(i, d)' /\ Undemanding(CursorAt(i), d)'
      PROVE  ref_count'[d] = 0
  <2>1. IsCxx
    BY <1>1, <1>3 DEF IsCxx
  <2>2. \A i \in Nodes : HiddenAt(i, d) /\ Undemanding(CursorAt(i), d)
    BY <1>1, <1>2, <1>3, HiddenStays
  <2>3. ref_count[d] = 0
    BY <1>3, <2>1, <2>2, HiddenIs
  <2>4. CASE ref_count'[d] # ref_count[d]
    <3> DEFINE scope == ScopeOf(c, Parent, cxx_current_fn_cls, statement_before(c))
    <3>1. ~IsDeferredCall(c) /\ ~IsSkipped(c) /\ Asks(c, d, cxx_deferred_fn, scope)
      BY <2>4, EnterAdds
    <3>2. PICK b : b = node
      OBVIOUS
    <3>3. PICK n : n = Len(tree) + 1
      OBVIOUS
    <3>4. /\ CursorAt(n)' = c /\ tree'[n].up = b /\ n \in Nodes'
          /\ cxx_deferred_fn = DeferredIn(b) /\ DeferredIn(b)' = DeferredIn(b)
      BY <1>1, <1>2, <3>2, <3>3, ScopesStay DEF CursorAt, VisitInv, ScopesNest
    <3>5. Undemanding(c, d)
      BY <1>3, <3>4 DEF Undemanding
    <3>6. /\ c.ref = d /\ ~IsExempt(c, cxx_deferred_fn, scope)
          /\ IsIncludable(d) \/ c.definition # NULL
      BY <3>1, <3>5 DEF Asks, Undemanding
    <3>7. IsIncludable(d)
      <4>1. d # NULL
        BY SymbolsAssumption
      <4> QED
        BY <1>3, <3>6, <4>1, CursorTyped
    <3>8. d # cxx_deferred_fn
      BY <2>1, <3>6, <3>7 DEF IsExempt
    <3>9. PICK j \in up_from(n)' : IsDeferredCall(CursorAt(j))' /\ (DeferredIn(b)' = d \/ n = j)
      <4>1. IsSkipped(CursorAt(n))' <=> IsSkipped(c)
        BY <3>4 DEF IsSkipped
      <4> QED
        BY <1>3, <3>1, <3>4, <3>6, <4>1 DEF HiddenAt
    <3>10. IsDeferredCall(CursorAt(n))' <=> IsDeferredCall(c)
      BY <1>1, <3>4 DEF IsDeferredCall, IsCxx
    <3> QED
      BY <3>1, <3>4, <3>8, <3>9, <3>10
  <2> QED
    BY <2>3, <2>4
<1> QED
  BY <1>3, HiddenIs

LEMMA LeaveHidden ==
  ASSUME VisitInv, ExemptCallsHidden, Leave
  PROVE  ExemptCallsHidden'
<1>1. /\ TreeGrows /\ tree' = tree /\ lang' = lang /\ Len(tree) \in Nat
      /\ Len(stack) \in DOMAIN stack /\ Top = stack[Len(stack)]
  BY LeaveSame, NodeType
<1>2. Nodes' = Nodes
  BY <1>1 DEF Nodes
<1>3. PICK f : f = Top
  OBVIOUS
<1>4. Nested(Len(stack)) /\ Saved(Len(stack))
  BY <1>1 DEF VisitInv
<1>5. ASSUME NEW d \in Dec, IsCxx', DecKind[d] = "function",
             \A i \in Nodes' : HiddenAt(i, d)' /\ Undemanding(CursorAt(i), d)'
      PROVE  ref_count'[d] = 0
  <2>1. IsCxx
    BY <1>1, <1>5 DEF IsCxx
  <2>2. \A i \in Nodes : HiddenAt(i, d) /\ Undemanding(CursorAt(i), d)
    BY <1>1, <1>2, <1>5, HiddenStays
  <2>3. ref_count[d] = 0
    BY <1>5, <2>1, <2>2, HiddenIs
  <2>4. CASE ref_count'[d] # ref_count[d]
    <3> DEFINE scope ==
          ScopeOf(f.cursor, CursorBelow(Len(stack)), f.prev_fn_cls, cxx_statement_cls)
    <3>1. IsDeferredCall(f.cursor)
      BY <1>3, <2>4, LeaveAdds
    <3>2. /\ f.cursor.ref = d /\ ~f.cursor.exempt
          /\ ~IsExempt(f.cursor, f.prev_deferred_fn, scope)
          /\ IsIncludable(d) \/ f.cursor.definition # NULL
      BY <1>3, <2>4, <3>1, LeaveAdds
    <3>3. PICK b : b = NodeBelow(Len(stack))
      OBVIOUS
    <3>4. PICK n : n = f.node
      OBVIOUS
    <3>5. n \in Nodes /\ tree[n] = [cursor |-> f.cursor, up |-> b] /\ f.cursor \in Cursor
      BY <1>1, <1>3, <1>4, <3>3, <3>4, NodeType DEF Nested, Frame
    <3>6. CursorAt(n) = f.cursor /\ tree[n].up = b /\ f.prev_deferred_fn = DeferredIn(b)
      BY <1>1, <1>3, <1>4, <3>3, <3>5 DEF CursorAt, Saved
    <3>7. IsIncludable(d)
      <4>1. d # NULL
        BY SymbolsAssumption
      <4> QED
        BY <1>5, <3>2, <3>5, <4>1, CursorTyped
    <3>8. d # DeferredIn(b)
      BY <2>1, <3>2, <3>6, <3>7 DEF IsExempt
    <3>9. ~IsSkipped(f.cursor)
      BY <3>1 DEF IsDeferredCall, IsSkipped
    <3>10. PICK j \in up_from(n) : CursorAt(j).exempt /\ (DeferredIn(b) = d \/ n = j)
      BY <2>2, <3>2, <3>5, <3>6, <3>9 DEF HiddenAt
    <3> QED
      BY <3>2, <3>6, <3>8, <3>10
  <2> QED
    BY <2>3, <2>4
<1> QED
  BY <1>5, HiddenIs

-----------------------------------------------------------------------------
(***************************************************************************)
(* The theorems.                                                           *)
(***************************************************************************)

LEMMA SymbolsInvInit == SymbolsInit => SymbolsInv
<1> SUFFICES ASSUME SymbolsInit PROVE SymbolsInv
  OBVIOUS
<1>1. Nodes = {} /\ \A d \in Dec : ref_count[d] = 0
  BY DEF SymbolsInit, Nodes
<1>2. CallsAccounted /\ ExemptCallsHidden /\ InheritedIsSufficient
  BY <1>1, CallsAre, HiddenIs, InheritedIs
<1> QED
  BY <1>2, VisitInvInit DEF SymbolsInv

LEMMA NothingChanges ==
  ASSUME SymbolsInv, UNCHANGED symbolsVars
  PROVE  SymbolsInv'
<1>1. VisitInv /\ CallsAccounted /\ ExemptCallsHidden /\ InheritedIsSufficient
  BY DEF SymbolsInv
<1>2. /\ tree' = tree /\ lang' = lang /\ stack' = stack /\ ref_count' = ref_count
  BY DEF symbolsVars, scopes
<1>3. TreeGrows /\ Nodes' = Nodes
  BY <1>1, <1>2, NodeType DEF TreeGrows, Nodes
<1>4. CallsAccounted'
  <2>1. ASSUME NEW i \in Nodes, ~IsOpen(i)', Needy(i, Max(InsideOf(i)))'
        PROVE  Accounted(i)'
    <3>1. PICK last : last = Max(InsideOf(i))
      OBVIOUS
    <3>2. InsideOf(i)' = InsideOf(i)
      BY <1>2 DEF InsideOf, Nodes, up_from
    <3>3. Max(InsideOf(i))' = last /\ last \in 0..Len(tree)
      BY <1>1, <1>3, <3>1, <3>2, InsideType DEF TreeGrows
    <3>4. Needy(i, last)'
      BY <2>1, <3>3 DEF Needy
    <3>5. Needy(i, last)
      BY <1>1, <1>3, <3>3, <3>4, NeedyStays
    <3>6. Accounted(i)
      BY <1>1, <1>2, <2>1, <3>1, <3>5, CallsAre DEF IsOpen
    <3>7. CursorAt(i) \in Cursor
      BY <1>1, CursorAtType DEF VisitInv
    <3>8. CursorAt(i).ref \in Dec
      BY <3>5, <3>7, CursorTyped DEF Needy, IsFunction, DecOrNull
    <3>9. \A d \in Dec : ref_count[d] \in Nat
      BY <1>1 DEF VisitInv, SymbolsTypeOK
    <3> QED
      BY <1>1, <1>2, <1>3, <3>6, <3>8, <3>9, AccountedStays
  <2> QED
    BY <1>3, <2>1, CallsAre
<1>5. ExemptCallsHidden'
  BY <1>1, <1>2, <1>3, HiddenStays, HiddenIs DEF IsCxx
<1>6. InheritedIsSufficient'
  BY <1>1, <1>2, <1>3, OwnStays, InheritedIs DEF IsCxx
<1> QED
  BY <1>1, <1>4, <1>5, <1>6, NothingStays DEF SymbolsInv

LEMMA SymbolsInvStep == SymbolsInv /\ [SymbolsNext]_symbolsVars => SymbolsInv'
<1> SUFFICES ASSUME SymbolsInv, [SymbolsNext]_symbolsVars PROVE SymbolsInv'
  OBVIOUS
<1>1. VisitInv'
  BY VisitInvStep DEF SymbolsInv
<1>2. ASSUME NEW c \in Cursor, Enter(c) PROVE SymbolsInv'
  BY <1>1, <1>2, EnterCalls, EnterHidden, EnterInherited DEF SymbolsInv
<1>3. CASE Leave
  BY <1>1, <1>3, LeaveCalls, LeaveHidden, LeaveInherited DEF SymbolsInv
<1>4. CASE UNCHANGED symbolsVars
  BY <1>4, NothingChanges
<1> QED
  BY <1>2, <1>3, <1>4 DEF SymbolsNext

LEMMA AlwaysSymbolsInv == SymbolsSpec => []SymbolsInv
<1> QED
  BY SymbolsInvInit, SymbolsInvStep, PTL DEF SymbolsSpec

\* A call that needs its function's header gets it, although what it adds is put
\* off until its arguments were visited (visit_CallExpr()), unless it is an
\* argument in a call of the same function.
THEOREM CallsGetTheirHeaders == SymbolsSpec => []CallsAccounted
<1>1. SymbolsInv => CallsAccounted
  BY DEF SymbolsInv
<1> QED
  BY <1>1, AlwaysSymbolsInv, PTL

\* A function that is only mentioned in exempt calls of it is not asked for.
THEOREM ExemptCallsAskForNothing == SymbolsSpec => []ExemptCallsHidden
<1>1. SymbolsInv => ExemptCallsHidden
  BY DEF SymbolsInv
<1> QED
  BY <1>1, AlwaysSymbolsInv, PTL

\* In a member function's definition the headers of what the class inherits are
\* not asked for on account of a mention.
THEOREM InheritedNeedsNoHeader == SymbolsSpec => []InheritedIsSufficient
<1>1. SymbolsInv => InheritedIsSufficient
  BY DEF SymbolsInv
<1> QED
  BY <1>1, AlwaysSymbolsInv, PTL

-----------------------------------------------------------------------------
(***************************************************************************)
(* The exceptions: what headers declare and include.                       *)
(***************************************************************************)

ClassKinds == {"ClassDecl", "ClassTemplate"}

\* The headers that one that declares d must include, unless it is one of them.
NeededBy(d) ==
  {decs[e].file : e \in d.bases \cup ({d.parent, d.template} \ {0})} \cup ({d.from} \ {0})

\* A declaration that comes after the first n refers to those, and to what they are.
WellFormed(d, n) ==
  /\ d \in Declaration(n)
  /\ \A b \in d.bases : decs[b].kind \in {"ClassDecl", "TypedefDecl"}
  /\ d.parent # 0 => decs[d.parent].kind \in ClassKinds
  /\ d.template # 0 =>
       /\ d.kind = "ClassDecl" /\ d.forward = 0
       /\ decs[d.template].kind = "ClassTemplate"
       /\ d.parent = decs[d.template].parent
  /\ d.kind = "ClassTemplate" => d.template = 0 /\ d.bases = {}
  /\ d.kind \in {"TypedefDecl", "FieldDecl"} =>
       /\ d.bases = {} /\ d.forward = 0
       /\ d.type # 0 /\ decs[d.type].kind \in ClassKinds \cup {"TypedefDecl"}
       /\ d.from \in {decs[d.type].file, decs[d.type].forward} \ {0}
       /\ d.parent # 0 => d.file = decs[d.parent].file

\* What a header includes includes what it includes.
IncludesNest ==
  /\ included \in [Header -> SUBSET Header]
  /\ \A h \in Header : h \in included[h] /\ h \in included[Proxy[h]]
  /\ \A h \in Header : \A g \in included[h] : included[g] \subseteq included[h]

CxxInv ==
  /\ decs \in Seq(Declaration(Len(decs)))
  /\ \A e \in Decs : WellFormed(decs[e], e - 1)
  /\ IncludesNest
  /\ \A e \in Decs : NeededBy(decs[e]) \subseteq included[decs[e].file]

LEMMA CxxInvInit == CxxInit => CxxInv
<1> SUFFICES ASSUME CxxInit PROVE CxxInv
  OBVIOUS
<1>1. decs \in Seq(Declaration(Len(decs))) /\ Decs = {}
  BY DEF CxxInit, Decs
<1>2. included = [h \in Header |-> {h} \cup {g \in Header : Proxy[g] = h}]
  BY DEF CxxInit
<1>3. IncludesNest
  <2>1. \A h \in Header : Proxy[h] \in Header /\ Proxy[Proxy[h]] = Proxy[h]
    BY CxxAssumption
  <2> QED
    BY <1>2, <2>1 DEF IncludesNest
<1> QED
  BY <1>1, <1>3 DEF CxxInv

LEMMA DeclaredWell ==
  ASSUME CxxInv,
         NEW d \in NewClasses \cup NestedClasses \cup Specializations \cup Aliases \cup Members,
         Declare(d)
  PROVE  WellFormed(d, Len(decs))
<1> DEFINE n == Len(decs)
<1>1. n \in Nat /\ Decs = 1..n
  BY DEF CxxInv, Decs
<1>2. \A e \in Decs : /\ decs[e].file \in Header /\ decs[e].forward \in NoOrHeader
                      /\ decs[e].parent \in 0..n /\ decs[e].parent # e
                      /\ decs[e].kind \in DeclarationKinds
                      /\ decs[e].parent # 0 => decs[decs[e].parent].kind \in ClassKinds
  <2>1. \A e \in Decs : decs[e] \in Declaration(e - 1) /\ WellFormed(decs[e], e - 1)
    BY DEF CxxInv, WellFormed
  <2> QED
    BY <1>1, <2>1 DEF Declaration, WellFormed
<1>3. Header \subseteq Nat \ {0} /\ NextFile \subseteq Header
  BY CxxAssumption DEF NextFile
<1>4. /\ d.type # 0 => IsType(d.type)
      /\ d.kind = "ClassTemplate" => d.bases = {}
  BY DEF Declare
<1>5. CASE d \in NewClasses
  <2>1. PICK kind \in {"ClassDecl", "ClassTemplate"}, file \in NextFile,
             forward \in {0} \cup {h \in Header : \E f \in NextFile : h < f},
             bases \in {B \in SUBSET Decs : Cardinality(B) <= 2 /\ \A b \in B : IsBase(b)} :
          d = Class(kind, 0, 0, file, forward, bases)
    BY <1>5 DEF NewClasses
  <2> QED
    <3>1. \A b \in bases : decs[b].kind \in {"ClassDecl", "TypedefDecl"}
      BY <2>1 DEF IsBase, isClassDecl, IsAlias
    <3> QED
      BY <1>1, <1>3, <1>4, <2>1, <3>1
      DEF Class, WellFormed, Declaration, DeclarationKinds, NoOrHeader
<1>6. CASE d \in NestedClasses
  <2>1. PICK parent \in {c \in Decs : isClassDecl(c) /\ ~IsImplicit(c)}, file \in NextFile :
          d = Class("ClassDecl", parent, 0, file, 0, {})
    BY <1>6 DEF NestedClasses
  <2> QED
    BY <1>1, <1>3, <2>1
    DEF Class, WellFormed, Declaration, DeclarationKinds, NoOrHeader, isClassDecl, ClassKinds
<1>7. CASE d \in Specializations
  <2>1. PICK t \in {t \in Decs : decs[t].kind = "ClassTemplate"} :
          \E file \in {decs[t].file} \cup NextFile :
            d = Class("ClassDecl", decs[t].parent, t, file, 0, {})
    BY <1>7 DEF Specializations
  <2>2. PICK file \in {decs[t].file} \cup NextFile :
          d = Class("ClassDecl", decs[t].parent, t, file, 0, {})
    BY <2>1
  <2>3. t \in Decs /\ decs[t].kind = "ClassTemplate" /\ file \in Header
    BY <1>2, <1>3, <2>1, <2>2
  <2>4. t \in 0..n /\ t # 0 /\ decs[t].parent \in 0..n
    BY <1>1, <1>2, <2>3
  <2>5. d \in Declaration(n)
    BY <2>2, <2>3, <2>4 DEF Class, Declaration, DeclarationKinds, NoOrHeader
  <2> QED
    BY <1>2, <2>2, <2>3, <2>5 DEF WellFormed, Class
<1>8. ASSUME NEW kind \in {"TypedefDecl", "FieldDecl"}, NEW type \in Decs,
             NEW parent \in {0} \cup {c \in Decs : isClassDecl(c)}, NEW file \in Header,
             parent # 0 => file = decs[parent].file,
             d \in Named(kind, type, parent, file)
      PROVE  WellFormed(d, n)
  <2>1. PICK from \in {decs[type].file, decs[type].forward} \ {0} :
          d = [kind |-> kind, parent |-> parent, file |-> file, forward |-> 0,
               bases |-> {}, template |-> 0, type |-> type, from |-> from]
    BY <1>8 DEF Named
  <2>2. IsType(type) /\ type # 0
    BY <1>1, <1>4, <2>1
  <2>3. decs[type].kind \in ClassKinds \cup {"TypedefDecl"}
    BY <2>2 DEF IsType, isClassDecl, IsAlias, ClassKinds
  <2>4. from \in Header
    BY <1>2, <1>3, <2>1 DEF NoOrHeader
  <2>5. parent \in 0..n /\ (parent # 0 => decs[parent].kind \in ClassKinds)
    BY <1>1, <1>8 DEF isClassDecl, ClassKinds
  <2>6. d \in Declaration(n)
    BY <1>1, <1>8, <2>1, <2>4, <2>5 DEF Declaration, DeclarationKinds, NoOrHeader
  <2> QED
    BY <1>8, <2>1, <2>2, <2>3, <2>5, <2>6 DEF WellFormed
<1>9. CASE d \in Aliases
  <2>1. PICK type \in Decs, file \in NextFile : d \in Named("TypedefDecl", type, 0, file)
    BY <1>9 DEF Aliases
  <2> QED
    BY <1>3, <1>8, <2>1
<1>10. CASE d \in Members
  <2>1. PICK kind \in {"TypedefDecl", "FieldDecl"}, type \in Decs,
             parent \in {c \in Decs : isClassDecl(c) /\ ~IsImplicit(c) /\ decs[c].file \in NextFile} :
          d \in Named(kind, type, parent, decs[parent].file)
    BY <1>10 DEF Members
  <2>2. decs[parent].file \in Header
    BY <1>2
  <2> QED
    BY <1>8, <2>1, <2>2
<1> QED
  BY <1>5, <1>6, <1>7, <1>9, <1>10

LEMMA CxxInvStep == CxxInv /\ [CxxNext]_cxxVars => CxxInv'
<1> SUFFICES ASSUME CxxInv, [CxxNext]_cxxVars PROVE CxxInv'
  OBVIOUS
<1>1. CASE UNCHANGED cxxVars
  <2>1. decs' = decs /\ included' = included
    BY <1>1 DEF cxxVars
  <2>2. Decs' = Decs /\ (IncludesNest' <=> IncludesNest)
    BY <2>1 DEF Decs, IncludesNest
  <2>3. \A d, n : WellFormed(d, n)' <=> WellFormed(d, n)
    BY <2>1 DEF WellFormed
  <2>4. \A d : NeededBy(d)' = NeededBy(d)
    BY <2>1 DEF NeededBy
  <2> QED
    BY <2>1, <2>2, <2>3, <2>4 DEF CxxInv
<1>2. ASSUME NEW d \in NewClasses \cup NestedClasses \cup Specializations \cup Aliases \cup Members,
             Declare(d)
      PROVE  CxxInv'
  <2> DEFINE n == Len(decs)
             more == UNION {included[IncludeFor(d.file, m)] : m \in NeededBy(d) \ {d.file}}
  <2>1. n \in Nat /\ Decs = 1..n /\ WellFormed(d, n)
    BY <1>2, DeclaredWell DEF CxxInv, Decs
  <2>2. /\ decs' = Append(decs, d)
        /\ included' = [h \in Header |-> IF d.file \in included[h]
                                         THEN included[h] \cup more ELSE included[h]]
    BY <1>2 DEF Declare, NeededBy
  <2>3. Decs' = 1..(n + 1) /\ decs'[n + 1] = d /\ \A e \in Decs : decs'[e] = decs[e]
    BY <2>1, <2>2 DEF Decs, CxxInv
  <2>4. d.file \in Header /\ NeededBy(d) \subseteq Header
    <3>1. d \in Declaration(n) /\ \A e \in Decs : decs[e] \in Declaration(e - 1)
      BY <2>1 DEF CxxInv, WellFormed
    <3>2. d.file \in Header /\ d.from \in NoOrHeader /\ d.bases \subseteq Decs
          /\ d.parent \in {0} \cup Decs /\ d.template \in {0} \cup Decs
      BY <2>1, <3>1 DEF Declaration
    <3>3. \A e \in Decs : decs[e].file \in Header
      BY <3>1 DEF Declaration
    <3> QED
      BY <3>2, <3>3 DEF NeededBy, NoOrHeader
  <2> HIDE DEF more
  <2>5. /\ more \subseteq Header
        /\ \A g \in more : included[g] \subseteq more
        /\ NeededBy(d) \ {d.file} \subseteq more
    <3>1. ASSUME NEW m \in NeededBy(d) \ {d.file}
          PROVE  /\ IncludeFor(d.file, m) \in Header
                 /\ m \in included[IncludeFor(d.file, m)]
      BY <2>4, CxxAssumption DEF IncludeFor, CxxInv, IncludesNest
    <3> QED
      BY <2>4, <3>1 DEF more, CxxInv, IncludesNest
  <2>6. IncludesNest'
    BY <2>2, <2>4, <2>5, CxxAssumption DEF CxxInv, IncludesNest
  <2>7. ASSUME NEW x, NEW m, m \in 0..n, WellFormed(x, m)
        PROVE  WellFormed(x, m)' /\ NeededBy(x)' = NeededBy(x)
    <3>1. \A e \in 1..n : decs'[e] = decs[e]
      BY <2>1, <2>3
    <3>2. /\ x.parent \in 0..m /\ x.template \in 0..m /\ x.type \in 0..m
          /\ x.bases \subseteq 1..m
      BY <2>7 DEF WellFormed, Declaration
    <3>3. 1..m \subseteq 1..n /\ \A e \in 0..m : e # 0 => e \in 1..n
      BY <2>1, <2>7
    <3>4. /\ x.parent # 0 => decs'[x.parent] = decs[x.parent]
          /\ x.template # 0 => decs'[x.template] = decs[x.template]
          /\ x.type # 0 => decs'[x.type] = decs[x.type]
          /\ \A b \in x.bases : decs'[b] = decs[b]
      BY <3>1, <3>2, <3>3
    <3>5. WellFormed(x, m)'
      BY <2>7, <3>4 DEF WellFormed
    <3>6. NeededBy(x)' = NeededBy(x)
      BY <3>4 DEF NeededBy
    <3> QED
      BY <3>5, <3>6
  <2>8. ASSUME NEW e \in Decs'
        PROVE  /\ WellFormed(decs[e], e - 1)'
               /\ NeededBy(decs[e])' \subseteq included'[decs'[e].file]
    <3>1. CASE e = n + 1
      <4>1. decs'[e] = d /\ e - 1 = n /\ n \in 0..n
        BY <2>1, <2>3, <3>1
      <4> PICK m : m = n
        OBVIOUS
      <4>2. WellFormed(d, m)' /\ NeededBy(d)' = NeededBy(d)
        BY <2>1, <2>7, <4>1
      <4>3. NeededBy(d) \subseteq included'[d.file]
        BY <2>2, <2>4, <2>5 DEF CxxInv, IncludesNest
      <4>4. m = e - 1
        BY <4>1
      <4> QED
        BY <4>1, <4>2, <4>3, <4>4
    <3>2. CASE e # n + 1
      <4>1. e \in Decs /\ decs'[e] = decs[e] /\ e - 1 \in 0..n
        BY <2>1, <2>3, <3>2
      <4>2. WellFormed(decs[e], e - 1) /\ NeededBy(decs[e]) \subseteq included[decs[e].file]
        BY <4>1 DEF CxxInv
      <4> DEFINE x == decs[e]
      <4>3. PICK y : y = x
        OBVIOUS
      <4>4. WellFormed(y, e - 1)' /\ NeededBy(y)' = NeededBy(y)
        BY <2>7, <4>1, <4>2, <4>3
      <4>5. y.file \in Header
        BY <4>2, <4>3 DEF WellFormed, Declaration
      <4>6. NeededBy(y) \subseteq included'[y.file]
        BY <2>2, <4>2, <4>3, <4>5
      <4>7. decs'[e] = y
        BY <4>1, <4>3
      <4> QED
        BY <4>4, <4>6, <4>7
    <3> QED
      BY <3>1, <3>2
  <2>9. (decs \in Seq(Declaration(Len(decs))))'
    <3>1. Declaration(n) \subseteq Declaration(n + 1) /\ d \in Declaration(n + 1)
      BY <2>1 DEF WellFormed, Declaration
    <3>2. decs \in Seq(Declaration(n + 1)) /\ Len(decs') = n + 1
      BY <2>1, <2>2, <3>1 DEF CxxInv
    <3> HIDE DEF n
    <3>3. decs' \in Seq(Declaration(n + 1))
      BY <2>2, <3>1, <3>2
    <3> QED
      BY <3>2, <3>3 DEF Declaration
  <2> QED
    BY <2>6, <2>8, <2>9 DEF CxxInv
<1> QED
  BY <1>1, <1>2 DEF CxxNext

-----------------------------------------------------------------------------
(***************************************************************************)
(* What the functions of cxx.c that follow declarations find.              *)
(***************************************************************************)

\* What declarations refer to comes before them.
LEMMA RefersBack ==
  ASSUME CxxInv, NEW e \in Decs
  PROVE  /\ Decs = 1..Len(decs) /\ Len(decs) \in Nat /\ e \in Nat /\ e # 0
         /\ WellFormed(decs[e], e - 1)
         /\ decs[e].parent \in {0} \cup Decs /\ decs[e].parent < e
         /\ decs[e].template \in {0} \cup Decs /\ decs[e].template < e
         /\ decs[e].type \in {0} \cup Decs /\ decs[e].type < e
         /\ \A b \in decs[e].bases : b \in Decs /\ b < e
         /\ decs[e].file \in Header /\ decs[e].forward \in NoOrHeader
<1>1. Len(decs) \in Nat /\ Decs = 1..Len(decs) /\ WellFormed(decs[e], e - 1)
  BY DEF CxxInv, Decs
<1>2. decs[e] \in Declaration(e - 1) /\ e \in 1..Len(decs)
  BY <1>1 DEF WellFormed
<1> QED
  BY <1>1, <1>2 DEF Declaration

Outermost == CHOOSE f : f = [e \in 0..Len(decs) |->
  IF IsNull(e) THEN 0
  ELSE IF ~IsNull(f[decs[e].parent]) THEN f[decs[e].parent]
  ELSE IF isClassDecl(e) THEN e ELSE 0]

LEMMA OutermostIs ==
  ASSUME CxxInv
  PROVE  /\ \A d : getOutermostClass(d) = Outermost[d]
         /\ Outermost[0] = 0
         /\ \A e \in Decs : Outermost[e] =
              IF Outermost[decs[e].parent] # 0 THEN Outermost[decs[e].parent]
              ELSE IF isClassDecl(e) THEN e ELSE 0
<1>1. ASSUME NEW d PROVE getOutermostClass(d) = Outermost[d]
  BY DEF getOutermostClass, Outermost
<1> DEFINE N == Len(decs)
           D == 0..N
           step(f, e) == IF IsNull(e) THEN 0
                         ELSE IF ~IsNull(f[decs[e].parent]) THEN f[decs[e].parent]
                         ELSE IF isClassDecl(e) THEN e ELSE 0
           G == [p \in D \X [D -> D] |-> step(p[2], p[1])]
           rank == [e \in D |-> e]
<1>2. N \in Nat /\ Decs = 1..N
  BY DEF CxxInv, Decs
<1>3. \A e \in D : e # 0 => decs[e].parent \in D /\ decs[e].parent < e
  BY <1>2, RefersBack
<1>4. \E f \in [D -> D] : Solves(f, D, G)
  <2>1. D # {} /\ rank \in [D -> 0..N]
    BY <1>2
  <2>2. G \in [D \X [D -> D] -> D]
    BY <1>2, <1>3 DEF IsNull
  <2>3. ASSUME NEW c \in D, NEW f \in [D -> D], NEW g \in [D -> D],
               \A x \in D : rank[x] < rank[c] => f[x] = g[x]
        PROVE  G[<<c, f>>] = G[<<c, g>>]
    BY <1>3, <2>3 DEF IsNull
  <2> HIDE DEF D, G, rank
  <2>4. DescendsBy(rank, D, D, G)
    BY <2>3 DEF DescendsBy
  <2> QED
    BY <1>2, <2>1, <2>2, <2>4, FunctionExists
<1>5. PICK f \in [D -> D] : \A c \in D : f[c] = G[<<c, f>>]
  BY <1>4 DEF Solves
<1>6. f = [c \in D |-> step(f, c)]
  <2>1. \A c \in D : G[<<c, f>>] = step(f, c)
    BY <1>5
  <2> HIDE DEF step, G, D
  <2> QED
    BY <1>5, <2>1
<1>7. Outermost = [e \in D |-> step(Outermost, e)]
  BY <1>6 DEF Outermost
<1>8. \A e \in D : Outermost[e] = step(Outermost, e)
  <2> HIDE DEF step, D
  <2> QED
    BY <1>7
<1>9. Outermost[0] = 0
  BY <1>2, <1>8 DEF IsNull
<1>10. \A e \in Decs : e \in D /\ ~IsNull(e)
  BY <1>2 DEF IsNull
<1>11. \A e \in Decs : Outermost[e] =
         IF Outermost[decs[e].parent] # 0 THEN Outermost[decs[e].parent]
         ELSE IF isClassDecl(e) THEN e ELSE 0
  BY <1>8, <1>10 DEF IsNull
<1> QED
  BY <1>1, <1>9, <1>11

CanonicalOf == CHOOSE f : f = [e \in 1..Len(decs) |-> IF IsAlias(e) THEN f[decs[e].type] ELSE e]

LEMMA CanonicalIs ==
  ASSUME CxxInv
  PROVE  /\ \A d : CanonicalType(d) = CanonicalOf[d]
         /\ \A e \in Decs : CanonicalOf[e] = IF IsAlias(e) THEN CanonicalOf[decs[e].type] ELSE e
<1>1. ASSUME NEW d PROVE CanonicalType(d) = CanonicalOf[d]
  BY DEF CanonicalType, CanonicalOf
<1> DEFINE N == Len(decs)
           D == 1..N
           step(f, e) == IF IsAlias(e) THEN f[decs[e].type] ELSE e
           G == [p \in D \X [D -> D] |-> step(p[2], p[1])]
           rank == [e \in D |-> e]
<1>2. N \in Nat /\ Decs = 1..N
  BY DEF CxxInv, Decs
<1>3. \A e \in D : IsAlias(e) => decs[e].type \in D /\ decs[e].type < e
  BY <1>2, RefersBack DEF IsAlias, WellFormed
<1>4. \E f : f = [c \in D |-> step(f, c)]
  <2>1. CASE D = {}
    <3>1. [c \in D |-> c] = [c \in D |-> step([e \in D |-> e], c)]
      BY <2>1
    <3> QED
      BY <2>1, <3>1
  <2>2. CASE D # {}
    <3>1. rank \in [D -> 0..N]
      BY <1>2
    <3>2. G \in [D \X [D -> D] -> D]
      BY <1>2, <1>3
    <3>3. ASSUME NEW c \in D, NEW f \in [D -> D], NEW g \in [D -> D],
                 \A x \in D : rank[x] < rank[c] => f[x] = g[x]
          PROVE  G[<<c, f>>] = G[<<c, g>>]
      BY <1>3, <3>3
    <3>4. \E f \in [D -> D] : Solves(f, D, G)
      <4> HIDE DEF D, G, rank
      <4>1. DescendsBy(rank, D, D, G)
        BY <3>3 DEF DescendsBy
      <4> QED
        BY <1>2, <2>2, <3>1, <3>2, <4>1, FunctionExists
    <3>5. PICK f \in [D -> D] : \A c \in D : f[c] = G[<<c, f>>]
      BY <3>4 DEF Solves
    <3>6. \A c \in D : G[<<c, f>>] = step(f, c)
      BY <3>5
    <3> HIDE DEF step, G, D
    <3> QED
      BY <3>5, <3>6
  <2> QED
    BY <2>1, <2>2
<1>5. CanonicalOf = [e \in D |-> step(CanonicalOf, e)]
  BY <1>4 DEF CanonicalOf
<1> QED
  BY <1>1, <1>2, <1>5

Cursors == [dec : 0..Len(decs), first : BOOLEAN]

InheritsFrom(base_csr) == CHOOSE f : f = [c \in [dec : 0..Len(decs), first : BOOLEAN] |->
  /\ ~IsNull(c.dec)
  /\ \/ isClassDecl(c.dec) /\ isTemplateSpecializationOf(base_csr, c.dec)
     \/ \E b \in BasesAt(c) : \/ Canonical(b) = base_csr
                              \/ f[Canonical(b)]
                              \/ isTemplateSpecializationOf(base_csr, b)
     \/ f[Defined(decs[c.dec].parent)]]

OrParent(base) == IF isInheritable(base) THEN decs[base].parent ELSE base

LEMMA CursorsOf ==
  ASSUME CxxInv
  PROVE  /\ \A e \in 0..Len(decs) : Defined(e) \in Cursors /\ Canonical(e) \in Cursors
         /\ \A e : /\ Defined(e).dec = e /\ Canonical(e).dec = e
                  /\ ~Defined(e).first /\ (Canonical(e).first <=> e # 0 /\ decs[e].forward # 0)
         /\ \A d, e : Canonical(d) = Canonical(e) => d = e
         /\ \A c \in Cursors : c.dec # 0 =>
              /\ \A b \in BasesAt(c) : b \in decs[c.dec].bases /\ b \in Decs /\ b < c.dec
              /\ decs[c.dec].parent \in 0..Len(decs) /\ decs[c.dec].parent < c.dec
<1>1. \A e \in 0..Len(decs) : Defined(e) \in Cursors /\ Canonical(e) \in Cursors
  BY DEF Defined, Canonical, CXCursor, Cursors
<1>2. \A e : /\ Defined(e).dec = e /\ Canonical(e).dec = e
            /\ ~Defined(e).first /\ (Canonical(e).first <=> e # 0 /\ decs[e].forward # 0)
  BY DEF Defined, Canonical, CXCursor
<1>3. \A d, e : Canonical(d) = Canonical(e) => d = e
  BY <1>2
<1>4. ASSUME NEW c \in Cursors, c.dec # 0
      PROVE  /\ \A b \in BasesAt(c) : b \in decs[c.dec].bases /\ b \in Decs /\ b < c.dec
             /\ decs[c.dec].parent \in 0..Len(decs) /\ decs[c.dec].parent < c.dec
  <2>1. c.dec \in Decs
    BY <1>4 DEF Cursors, CxxInv, Decs
  <2>2. \A b \in decs[c.dec].bases : b \in Decs /\ b < c.dec
    BY <2>1, RefersBack
  <2>3. decs[c.dec].parent \in {0} \cup Decs /\ decs[c.dec].parent < c.dec
        /\ Decs = 1..Len(decs) /\ Len(decs) \in Nat
    BY <2>1, RefersBack
  <2>4. \A b \in BasesAt(c) : b \in decs[c.dec].bases
    BY DEF BasesAt
  <2> QED
    BY <2>2, <2>3, <2>4
<1> QED
  BY <1>1, <1>2, <1>3, <1>4

LEMMA InheritsIs ==
  ASSUME CxxInv
  PROVE  /\ \A d, base : isInheritedFrom(d, base) <=>
              isClassDecl(OrParent(base)) /\ InheritsFrom(Canonical(OrParent(base)))[Defined(d)]
         /\ \A base_csr : \A c \in Cursors : InheritsFrom(base_csr)[c] <=>
              /\ ~IsNull(c.dec)
              /\ \/ isClassDecl(c.dec) /\ isTemplateSpecializationOf(base_csr, c.dec)
                 \/ \E b \in BasesAt(c) : \/ Canonical(b) = base_csr
                                          \/ InheritsFrom(base_csr)[Canonical(b)]
                                          \/ isTemplateSpecializationOf(base_csr, b)
                 \/ InheritsFrom(base_csr)[Defined(decs[c.dec].parent)]
<1>1. ASSUME NEW d, NEW base
      PROVE  isInheritedFrom(d, base) <=>
               isClassDecl(OrParent(base)) /\ InheritsFrom(Canonical(OrParent(base)))[Defined(d)]
  BY DEF isInheritedFrom, InheritsFrom, OrParent
<1>2. ASSUME NEW base_csr, NEW e \in Cursors
      PROVE  InheritsFrom(base_csr)[e] <=>
              /\ ~IsNull(e.dec)
              /\ \/ isClassDecl(e.dec) /\ isTemplateSpecializationOf(base_csr, e.dec)
                 \/ \E b \in BasesAt(e) : \/ Canonical(b) = base_csr
                                          \/ InheritsFrom(base_csr)[Canonical(b)]
                                          \/ isTemplateSpecializationOf(base_csr, b)
                 \/ InheritsFrom(base_csr)[Defined(decs[e.dec].parent)]
  <2> DEFINE N == Len(decs)
             D == Cursors
             step(f, c) ==
               /\ ~IsNull(c.dec)
               /\ \/ isClassDecl(c.dec) /\ isTemplateSpecializationOf(base_csr, c.dec)
                  \/ \E b \in BasesAt(c) : \/ Canonical(b) = base_csr
                                           \/ f[Canonical(b)]
                                           \/ isTemplateSpecializationOf(base_csr, b)
                  \/ f[Defined(decs[c.dec].parent)]
             G == [p \in D \X [D -> BOOLEAN] |-> step(p[2], p[1])]
             rank == [c \in D |-> c.dec]
  <2>1. N \in Nat /\ Decs = 1..N
    BY DEF CxxInv, Decs
  <2>2. \E f : f = [c \in D |-> step(f, c)]
    <3>1. rank \in [D -> 0..N]
      BY DEF Cursors
    <3>2. G \in [D \X [D -> BOOLEAN] -> BOOLEAN]
      OBVIOUS
    <3>3. ASSUME NEW c \in D, NEW f \in [D -> BOOLEAN], NEW g \in [D -> BOOLEAN],
                 \A x \in D : rank[x] < rank[c] => f[x] = g[x]
          PROVE  step(f, c) = step(g, c)
      <4>1. CASE IsNull(c.dec)
        BY <4>1
      <4>2. CASE ~IsNull(c.dec)
        <5>1. c.dec # 0
          BY <4>2 DEF IsNull
        <5>2. \A b \in BasesAt(c) : f[Canonical(b)] = g[Canonical(b)]
          BY <2>1, <3>3, <5>1, CursorsOf
        <5>3. f[Defined(decs[c.dec].parent)] = g[Defined(decs[c.dec].parent)]
          BY <2>1, <3>3, <5>1, CursorsOf
        <5> QED
          BY <5>2, <5>3
      <4> QED
        BY <4>1, <4>2
    <3>4. ASSUME NEW c \in D, NEW f \in [D -> BOOLEAN]
          PROVE  G[<<c, f>>] = step(f, c)
      BY <3>4
    <3>5. DescendsBy(rank, D, BOOLEAN, G)
      <4> HIDE DEF G, step
      <4> QED
        BY <3>3, <3>4 DEF DescendsBy
    <3>6. \E f \in [D -> BOOLEAN] : Solves(f, D, G)
      <4> HIDE DEF D, G, rank
      <4> QED
        BY <2>1, <3>1, <3>2, <3>5, FunctionExists
    <3>7. PICK f \in [D -> BOOLEAN] : \A c \in D : f[c] = G[<<c, f>>]
      BY <3>6 DEF Solves
    <3> HIDE DEF step, G, D
    <3> QED
      BY <3>4, <3>7
  <2>3. InheritsFrom(base_csr) = [c \in D |-> step(InheritsFrom(base_csr), c)]
    BY <2>2 DEF InheritsFrom, Cursors
  <2> QED
    BY <2>3
<1> QED
  BY <1>1, <1>2

\* A declaration of a type is, behind its aliases, one of a class.
LEMMA CanonicalIsClass ==
  ASSUME CxxInv, NEW e \in Decs
  PROVE  /\ CanonicalOf[e] \in Decs
         /\ ~IsAlias(e) => CanonicalOf[e] = e
         /\ IsType(e) => isClassDecl(CanonicalOf[e])
         /\ IsType(e) /\ decs[CanonicalOf[e]].forward = 0 =>
              decs[CanonicalOf[e]].file \in included[decs[e].file]
<1> DEFINE Right(x) ==
             /\ CanonicalOf[x] \in Decs
             /\ IsType(x) => isClassDecl(CanonicalOf[x])
             /\ IsType(x) /\ decs[CanonicalOf[x]].forward = 0 =>
                  decs[CanonicalOf[x]].file \in included[decs[x].file]
           wrong == {x \in Decs : ~Right(x)}
<1>1. \A x \in Decs : CanonicalOf[x] = IF IsAlias(x) THEN CanonicalOf[decs[x].type] ELSE x
  BY CanonicalIs
<1>2. ASSUME NEW x \in Decs, \A y \in Decs : y < x => Right(y)
      PROVE  Right(x)
  <2>1. decs[x].file \in Header
    BY RefersBack
  <2>2. CASE ~IsAlias(x)
    <3>1. CanonicalOf[x] = x
      BY <1>1, <2>2
    <3>2. decs[x].file \in included[decs[x].file]
      BY <2>1 DEF CxxInv, IncludesNest
    <3> QED
      BY <2>2, <3>1, <3>2 DEF IsType
  <2>3. CASE IsAlias(x)
    <3> DEFINE y == decs[x].type
    <3>1. CanonicalOf[x] = CanonicalOf[y]
      BY <1>1, <2>3
    <3>2. /\ y \in Decs /\ y < x /\ IsType(y)
          /\ decs[x].from \in {decs[y].file, decs[y].forward} \ {0}
      BY <2>3, RefersBack DEF IsAlias, IsType, isClassDecl, WellFormed, ClassKinds
    <3>3. Right(y)
      BY <1>2, <3>2
    <3>4. ASSUME decs[CanonicalOf[y]].forward = 0
          PROVE  decs[CanonicalOf[y]].file \in included[decs[x].file]
      <4>1. decs[y].forward = 0
        <5>1. CASE IsAlias(y)
          BY <3>2, <5>1, RefersBack DEF IsAlias, WellFormed
        <5>2. CASE ~IsAlias(y)
          BY <1>1, <3>2, <3>4, <5>2
        <5> QED
          BY <5>1, <5>2
      <4>2. decs[y].file \in included[decs[x].file]
        <5>1. decs[x].from = decs[y].file /\ decs[x].from # 0
          BY <3>2, <4>1
        <5>2. decs[x].from \in NeededBy(decs[x])
          BY <5>1 DEF NeededBy
        <5> QED
          BY <5>1, <5>2 DEF CxxInv
      <4>3. decs[CanonicalOf[y]].file \in included[decs[y].file]
        BY <3>2, <3>3, <3>4
      <4> QED
        BY <2>1, <4>2, <4>3 DEF CxxInv, IncludesNest
    <3> QED
      BY <3>1, <3>2, <3>3, <3>4
  <2> QED
    BY <2>2, <2>3
<1>3. wrong = {}
  <2> SUFFICES ASSUME wrong # {} PROVE FALSE
    OBVIOUS
  <2> HIDE DEF Right
  <2>1. wrong \in SUBSET Nat
    BY DEF CxxInv, Decs
  <2>2. PICK x \in wrong : \A y \in wrong : x <= y
    BY <2>1, LeastNatural
  <2>3. \A y \in Decs : y < x => Right(y)
    BY <2>1, <2>2 DEF CxxInv, Decs
  <2> QED
    BY <1>2, <2>2, <2>3
<1> QED
  BY <1>1, <1>3

\* The outermost class of a declaration is a class whose header comes with that of
\* the declaration.
LEMMA OutermostComesAlong ==
  ASSUME CxxInv, NEW e \in Decs
  PROVE  /\ Outermost[e] # 0 =>
              isClassDecl(Outermost[e]) /\ decs[Outermost[e]].file \in included[decs[e].file]
         /\ isClassDecl(e) => Outermost[e] # 0
         /\ decs[e].parent # 0 => Outermost[e] = Outermost[decs[e].parent] /\ Outermost[e] # 0
         /\ decs[e].parent = 0 => Outermost[e] = IF isClassDecl(e) THEN e ELSE 0
<1> DEFINE Right(x) ==
             /\ Outermost[x] # 0 =>
                  isClassDecl(Outermost[x]) /\ decs[Outermost[x]].file \in included[decs[x].file]
             /\ isClassDecl(x) => Outermost[x] # 0
           wrong == {x \in Decs : ~Right(x)}
<1>1. \A x \in Decs : Outermost[x] =
        IF Outermost[decs[x].parent] # 0 THEN Outermost[decs[x].parent]
        ELSE IF isClassDecl(x) THEN x ELSE 0
  BY OutermostIs
<1>2. ASSUME NEW x \in Decs, \A y \in Decs : y < x => Right(y)
      PROVE  Right(x)
  <2>1. x # 0 /\ decs[x].file \in Header /\ decs[x].file \in included[decs[x].file]
    BY RefersBack DEF CxxInv, IncludesNest
  <2> DEFINE y == decs[x].parent
  <2>2. CASE Outermost[y] = 0
    BY <1>1, <2>1, <2>2
  <2>3. CASE Outermost[y] # 0
    <3>1. y \in Decs /\ y < x
      BY <2>3, RefersBack, OutermostIs
    <3>2. isClassDecl(Outermost[y]) /\ decs[Outermost[y]].file \in included[decs[y].file]
      BY <1>2, <2>3, <3>1
    <3>3. decs[y].file \in included[decs[x].file]
      <4>1. decs[y].file \in NeededBy(decs[x])
        BY <3>1, RefersBack DEF NeededBy
      <4> QED
        BY <4>1 DEF CxxInv
    <3>4. decs[Outermost[y]].file \in included[decs[x].file]
      BY <2>1, <3>2, <3>3 DEF CxxInv, IncludesNest
    <3> QED
      BY <1>1, <2>3, <3>2, <3>4
  <2> QED
    BY <2>2, <2>3
<1>3. wrong = {}
  <2> SUFFICES ASSUME wrong # {} PROVE FALSE
    OBVIOUS
  <2> HIDE DEF Right
  <2>1. wrong \in SUBSET Nat
    BY DEF CxxInv, Decs
  <2>2. PICK x \in wrong : \A y \in wrong : x <= y
    BY <2>1, LeastNatural
  <2>3. \A y \in Decs : y < x => Right(y)
    BY <2>1, <2>2 DEF CxxInv, Decs
  <2> QED
    BY <1>2, <2>2, <2>3
<1>4. decs[e].parent # 0 => decs[e].parent \in Decs /\ isClassDecl(decs[e].parent)
  BY RefersBack DEF WellFormed, ClassKinds, isClassDecl
<1> QED
  BY <1>1, <1>3, <1>4, OutermostIs

\* A class that another one inherits from is in a header that comes with its own.
LEMMA InheritedComesAlong ==
  ASSUME CxxInv, NEW d \in Decs, NEW base, isInheritedFrom(d, base)
  PROVE  isClassDecl(OrParent(base)) /\ decs[OrParent(base)].file \in included[decs[d].file]
<1> DEFINE of == OrParent(base)
           base_csr == Canonical(of)
           inherits == InheritsFrom(base_csr)
           Right(n) == \A c \in Cursors : c.dec = n /\ inherits[c] =>
                         decs[of].file \in included[decs[n].file]
           wrong == {x \in Decs : ~Right(x)}
<1>1. isClassDecl(of) /\ inherits[Defined(d)]
  BY InheritsIs
<1>2. of \in Decs /\ of # 0
  BY <1>1 DEF isClassDecl, CxxInv, Decs
<1>3. ASSUME NEW c \in Cursors, inherits[c]
      PROVE  /\ c.dec # 0
             /\ \/ isTemplateSpecializationOf(base_csr, c.dec)
                \/ \E b \in BasesAt(c) : \/ Canonical(b) = base_csr
                                         \/ inherits[Canonical(b)]
                                         \/ isTemplateSpecializationOf(base_csr, b)
                \/ inherits[Defined(decs[c.dec].parent)]
  BY <1>3, InheritsIs DEF IsNull
<1>4. ASSUME NEW x \in Decs, isTemplateSpecializationOf(base_csr, x)
      PROVE  decs[of].file \in included[decs[x].file]
  <2>1. decs[x].template = of /\ of # 0
    BY <1>2, <1>4, CursorsOf DEF isTemplateSpecializationOf
  <2>2. decs[of].file \in NeededBy(decs[x])
    BY <2>1 DEF NeededBy
  <2> QED
    BY <2>2 DEF CxxInv
<1>5. ASSUME NEW x \in Decs, \A y \in Decs : y < x => Right(y)
      PROVE  Right(x)
  <2> SUFFICES ASSUME NEW c \in Cursors, c.dec = x, inherits[c]
               PROVE  decs[of].file \in included[decs[x].file]
    OBVIOUS
  <2>1. decs[x].file \in Header
    BY RefersBack
  <2>2. CASE isTemplateSpecializationOf(base_csr, x)
    BY <1>4, <2>2
  <2>3. ASSUME NEW y \in Decs, y < x, decs[y].file \in NeededBy(decs[x]),
               decs[of].file \in included[decs[y].file]
        PROVE  decs[of].file \in included[decs[x].file]
    BY <2>1, <2>3 DEF CxxInv, IncludesNest
  <2>4. ASSUME NEW b \in BasesAt(c),
               \/ Canonical(b) = base_csr
               \/ inherits[Canonical(b)]
               \/ isTemplateSpecializationOf(base_csr, b)
        PROVE  decs[of].file \in included[decs[x].file]
    <3>1. b \in decs[x].bases /\ b \in Decs /\ b < x /\ b \in 0..Len(decs)
      BY <1>3, CursorsOf DEF CxxInv, Decs
    <3>2. decs[b].file \in NeededBy(decs[x]) /\ decs[b].file \in included[decs[b].file]
      BY <3>1, RefersBack DEF NeededBy, CxxInv, IncludesNest
    <3>3. CASE Canonical(b) = base_csr
      <4>1. b = of
        BY <3>3, CursorsOf
      <4> QED
        BY <2>3, <3>1, <3>2, <4>1
    <3>4. CASE inherits[Canonical(b)]
      <4>1. Canonical(b) \in Cursors /\ Canonical(b).dec = b
        BY <3>1, CursorsOf
      <4>2. decs[of].file \in included[decs[b].file]
        BY <2>4, <3>1, <3>4, <4>1, <1>5
      <4> QED
        BY <2>3, <3>1, <3>2, <4>2
    <3>5. CASE isTemplateSpecializationOf(base_csr, b)
      BY <1>4, <2>3, <3>1, <3>2, <3>5
    <3> QED
      BY <2>4, <3>3, <3>4, <3>5
  <2>5. CASE inherits[Defined(decs[x].parent)]
    <3> DEFINE y == decs[x].parent
    <3>1. Defined(y) \in Cursors /\ Defined(y).dec = y
      BY <1>3, CursorsOf
    <3>2. y # 0
      BY <1>3, <2>5, <3>1
    <3>3. y \in Decs /\ y < x
      BY <3>2, RefersBack
    <3>4. decs[of].file \in included[decs[y].file]
      BY <1>5, <2>5, <3>1, <3>3
    <3>5. decs[y].file \in NeededBy(decs[x])
      BY <3>2 DEF NeededBy
    <3> QED
      BY <2>3, <3>3, <3>4, <3>5
  <2> QED
    BY <1>3, <2>2, <2>4, <2>5
<1>6. wrong = {}
  <2> SUFFICES ASSUME wrong # {} PROVE FALSE
    OBVIOUS
  <2> HIDE DEF Right
  <2>1. wrong \in SUBSET Nat
    BY DEF CxxInv, Decs
  <2>2. PICK x \in wrong : \A y \in wrong : x <= y
    BY <2>1, LeastNatural
  <2>3. \A y \in Decs : y < x => Right(y)
    BY <2>1, <2>2 DEF CxxInv, Decs
  <2> QED
    BY <1>5, <2>2, <2>3
<1>7. Defined(d) \in Cursors /\ Defined(d).dec = d
  BY CursorsOf DEF CxxInv, Decs
<1> QED
  BY <1>1, <1>6, <1>7

-----------------------------------------------------------------------------
(***************************************************************************)
(* The exceptions are sound.                                               *)
(***************************************************************************)

\* What an argument's type is exempt for, apart from an alias: the classes around
\* the parameter and the argument are related.
LEMMA ClassExceptionSufficient ==
  ASSUME CxxInv, NEW par \in Decs, NEW arg_cls \in Decs, Outermost[par] # 0,
         \/ isInheritedFrom(Outermost[arg_cls], Outermost[par])
         \/ isTemplateSpecializationOf(Defined(Outermost[arg_cls]), Outermost[par]),
         ~IsExplicit(par)
  PROVE  decs[Outermost[par]].file \in included[decs[arg_cls].file]
<1> DEFINE p == Outermost[par]
           a == Outermost[arg_cls]
<1>1. p \in Decs /\ isClassDecl(p) /\ p # 0
  BY OutermostComesAlong DEF isClassDecl
<1>2. decs[arg_cls].file \in Header
  BY RefersBack
<1>3. CASE isInheritedFrom(a, p)
  <2>1. OrParent(p) = p
    BY <1>1 DEF OrParent, isInheritable, isClassDecl
  <2>2. a # 0
    <3>1. InheritsFrom(Canonical(p))[Defined(a)]
      BY <1>3, <2>1, InheritsIs
    <3>2. a = 0 => Defined(a) \in Cursors /\ Defined(a).dec = 0
      <4>1. 0 \in 0..Len(decs)
        BY RefersBack
      <4> QED
        BY <4>1, CursorsOf
    <3> QED
      BY <3>1, <3>2, InheritsIs DEF IsNull
  <2>3. a \in Decs /\ decs[a].file \in included[decs[arg_cls].file]
    BY <2>2, OutermostComesAlong DEF isClassDecl
  <2>4. decs[p].file \in included[decs[a].file]
    BY <1>3, <2>1, <2>3, InheritedComesAlong
  <2> QED
    BY <1>2, <2>3, <2>4 DEF CxxInv, IncludesNest
<1>4. CASE isTemplateSpecializationOf(Defined(a), p)
  <2>1. decs[p].template # 0 /\ Defined(a).dec = Canonical(decs[p].template).dec
    BY <1>4 DEF isTemplateSpecializationOf
  <2>2. a = decs[p].template /\ a # 0
    BY <2>1, CursorsOf
  <2>3. getOutermostClass(par) = p
    BY OutermostIs
  <2>4. decs[p].file = decs[a].file
    BY <1>1, <2>1, <2>2, <2>3 DEF IsExplicit, IsImplicit
  <2> QED
    BY <2>2, <2>4, OutermostComesAlong
<1> QED
  BY <1>3, <1>4

\* An alias of the parameter's type, or of a specialization of the same template.
LEMMA AliasExceptionSufficient ==
  ASSUME CxxInv, NEW par \in Decs, NEW arg_cls \in Decs, IsType(par), IsType(arg_cls),
         Outermost[par] # 0, isTypeAliasOf(arg_cls, par),
         ~NamesIncomplete(arg_cls), ~IsExplicit(par), ~IsMemberAlias(par)
  PROVE  Proxy[decs[Outermost[par]].file] \in Provided(decs[arg_cls].file)
<1> DEFINE cls == CanonicalOf[arg_cls]
<1>1. /\ IsAlias(arg_cls) /\ cls \in Decs /\ isClassDecl(cls)
      /\ decs[cls].forward = 0 => decs[cls].file \in included[decs[arg_cls].file]
  BY CanonicalIsClass DEF isTypeAliasOf
<1>2. Proxy[decs[Outermost[cls]].file] \in Provided(decs[arg_cls].file)
  BY <1>1, OutermostIs, CanonicalIs DEF NamesIncomplete
<1>3. isClassDecl(par) /\ ~IsAlias(par)
  <2>1. ~IsAlias(par)
    <3> SUFFICES ASSUME IsAlias(par) PROVE FALSE
      OBVIOUS
    <3>1. decs[par].parent = 0 /\ ~isClassDecl(par)
      BY DEF IsMemberAlias, IsAlias, isClassDecl
    <3> QED
      BY <3>1, OutermostComesAlong
  <2> QED
    BY <2>1 DEF IsType
<1>4. CanonicalOf[par] = par
  BY <1>3, CanonicalIsClass
<1>5. CASE cls = par
  BY <1>2, <1>5
<1>6. CASE OrTemplate(cls) = OrTemplate(par)
  <2> DEFINE t == OrTemplate(par)
  <2>1. ASSUME NEW x \in {cls, par}
        PROVE  /\ x \in Decs /\ isClassDecl(x) /\ t \in Decs
               /\ decs[x].parent = decs[t].parent
               /\ decs[x].template # 0 => decs[x].template = t /\ decs[x].forward = 0
               /\ decs[x].template = 0 => x = t
    <3>1. x \in Decs /\ isClassDecl(x) /\ OrTemplate(x) = t
      BY <1>1, <1>3, <1>6
    <3> QED
      BY <3>1, RefersBack DEF OrTemplate, WellFormed
  <2>2. CASE decs[t].parent # 0
    <3>1. Outermost[cls] = Outermost[par]
      BY <2>1, <2>2, OutermostComesAlong
    <3> QED
      BY <1>2, <3>1
  <2>3. CASE decs[t].parent = 0
    <3>1. Outermost[cls] = cls /\ Outermost[par] = par
      BY <2>1, <2>3, OutermostComesAlong
    <3>2. decs[par].file = decs[t].file
      BY <2>1, <3>1, OutermostIs, RefersBack DEF IsExplicit, IsImplicit
    <3>3. CASE decs[cls].template = 0
      BY <1>2, <2>1, <3>1, <3>2, <3>3
    <3>4. CASE decs[cls].template # 0
      <4>1. decs[cls].file \in included[decs[arg_cls].file] /\ decs[cls].template = t
        BY <1>1, <2>1, <3>4
      <4>2. decs[t].file \in NeededBy(decs[cls])
        BY <3>4, <4>1 DEF NeededBy
      <4>3. decs[t].file \in included[decs[cls].file] /\ decs[arg_cls].file \in Header
        BY <1>1, <4>2, RefersBack DEF CxxInv
      <4>4. decs[t].file \in included[decs[arg_cls].file]
        BY <4>1, <4>3 DEF CxxInv, IncludesNest
      <4> QED
        BY <3>1, <3>2, <4>4 DEF Provided
    <3> QED
      BY <3>3, <3>4
  <2> QED
    BY <2>2, <2>3
<1>7. cls = par \/ OrTemplate(cls) = OrTemplate(par)
  <2>1. CanonicalType(arg_cls) = cls /\ CanonicalType(par) = par
    BY <1>4, CanonicalIs
  <2> QED
    BY <2>1 DEF isTypeAliasOf
<1> QED
  BY <1>5, <1>6, <1>7

LEMMA InvSufficient == CxxInv => ExceptionsSufficient
<1> SUFFICES ASSUME CxxInv PROVE ExceptionsSufficient
  OBVIOUS
<1>1. ASSUME NEW fn_file \in Header,
             NEW par \in {d \in Decs : IsType(d)}, NEW arg_cls \in {d \in Decs : IsType(d)},
             is_cxx_arg_iwyu_exc(fn_file, par, arg_cls),
             ~NamesIncomplete(arg_cls), ~IsExplicit(par), ~IsMemberAlias(par)
      PROVE  Proxy[fn_file] \in Provided(decs[arg_cls].file)
  <2> DEFINE p == Outermost[par]
             a == Outermost[arg_cls]
  <2>1. getOutermostClass(par) = p /\ getOutermostClass(arg_cls) = a
    BY OutermostIs
  <2>2. /\ p # 0 /\ Proxy[decs[p].file] = Proxy[fn_file]
        /\ \/ isTypeAliasOf(arg_cls, par)
           \/ isInheritedFrom(a, p)
           \/ isTemplateSpecializationOf(Defined(a), p)
    BY <1>1, <2>1 DEF is_cxx_arg_iwyu_exc, IsNull
  <2>3. CASE isTypeAliasOf(arg_cls, par)
    BY <1>1, <2>2, <2>3, AliasExceptionSufficient
  <2>4. CASE isInheritedFrom(a, p) \/ isTemplateSpecializationOf(Defined(a), p)
    BY <1>1, <2>2, <2>4, ClassExceptionSufficient DEF Provided
  <2> QED
    BY <2>2, <2>3, <2>4
<1>2. ASSUME NEW d \in Decs, NEW scope \in Decs,
             is_cxx_mbr_or_base_iwyu_exc(d, scope), ~IsOutside(d)
      PROVE  Proxy[decs[d].file] \in Provided(decs[scope].file)
  <2> DEFINE outer == decs[d].parent
  <2>1. /\ outer # 0 => outer \in Decs /\ isClassDecl(outer) /\ decs[d].file = decs[outer].file
        /\ d # 0 /\ scope # 0
    BY <1>2, RefersBack DEF IsOutside, WellFormed, ClassKinds, isClassDecl
  <2>2. decs[scope].file \in included[decs[scope].file]
    BY RefersBack DEF CxxInv, IncludesNest
  <2>3. decs[d].file \in included[decs[scope].file]
    <3>1. CASE scope = d
      BY <2>2, <3>1
    <3>2. CASE isInheritedFrom(scope, d)
      <4>1. /\ isClassDecl(OrParent(d)) /\ OrParent(d) # 0
            /\ decs[OrParent(d)].file \in included[decs[scope].file]
        BY <3>2, InheritedComesAlong DEF isClassDecl, CxxInv, Decs
      <4> QED
        BY <2>1, <4>1 DEF OrParent
    <3>3. CASE scope = outer
      BY <2>1, <2>2, <3>3
    <3>4. CASE isInheritedFrom(scope, outer)
      <4>1. /\ isClassDecl(OrParent(outer))
            /\ decs[OrParent(outer)].file \in included[decs[scope].file]
        BY <3>4, InheritedComesAlong
      <4>2. OrParent(outer) = outer
        BY <2>1 DEF OrParent, isInheritable, isClassDecl
      <4>3. outer # 0
        BY <4>1, <4>2 DEF isClassDecl, CxxInv, Decs
      <4> QED
        BY <2>1, <4>1, <4>2, <4>3
    <3> QED
      BY <1>2, <3>1, <3>2, <3>3, <3>4 DEF is_cxx_mbr_or_base_iwyu_exc
  <2> QED
    BY <2>3 DEF Provided
<1> QED
  BY <1>1, <1>2 DEF ExceptionsSufficient

-----------------------------------------------------------------------------
(***************************************************************************)
(* The exceptions are complete.                                            *)
(***************************************************************************)

AncestorsUpTo(c) == CHOOSE f : f = [n \in 0..Len(decs) |->
  IF n = 0 THEN {c} ELSE f[n - 1] \cup UNION {BasesOf(b) : b \in f[n - 1]}]

LEMMA AncestorsAre ==
  ASSUME CxxInv, NEW c \in Decs
  PROVE  /\ Ancestors(c) = AncestorsUpTo(c)[Len(decs)] \ {c}
         /\ AncestorsUpTo(c)[0] = {c}
         /\ \A n \in 1..Len(decs) : AncestorsUpTo(c)[n] =
              AncestorsUpTo(c)[n - 1] \cup UNION {BasesOf(b) : b \in AncestorsUpTo(c)[n - 1]}
         /\ \A n \in 0..Len(decs) : AncestorsUpTo(c)[n] \subseteq Decs
<1> DEFINE N == Len(decs)
           D == 0..N
           V == SUBSET Decs
           step(f, n) == IF n = 0 THEN {c} ELSE f[n - 1] \cup UNION {BasesOf(b) : b \in f[n - 1]}
           G == [p \in D \X [D -> V] |-> step(p[2], p[1])]
           rank == [n \in D |-> n]
<1>1. Ancestors(c) = AncestorsUpTo(c)[Len(decs)] \ {c}
  BY DEF Ancestors, AncestorsUpTo
<1>2. N \in Nat
  BY DEF CxxInv
<1>3. ASSUME NEW b \in Decs PROVE BasesOf(b) \subseteq Decs
  <2>1. \A x \in decs[b].bases : CanonicalType(x) \in Decs
    BY RefersBack, CanonicalIs, CanonicalIsClass
  <2>2. decs[b].template # 0 => decs[b].template \in Decs
    BY RefersBack
  <2> QED
    BY <2>1, <2>2 DEF BasesOf
<1>4. rank \in [D -> 0..N]
  OBVIOUS
<1>5. ASSUME NEW f \in [D -> V], NEW n \in D PROVE step(f, n) \in V
  <2>1. CASE n = 0
    BY <2>1
  <2>2. CASE n # 0
    <3>1. n - 1 \in D
      BY <1>2, <2>2
    <3>2. f[n - 1] \subseteq Decs
      BY <3>1
    <3> QED
      BY <1>3, <2>2, <3>2
  <2> QED
    BY <2>1, <2>2
<1>6. G \in [D \X [D -> V] -> V]
  <2> HIDE DEF D, V, step
  <2> QED
    BY <1>5
<1>7. ASSUME NEW n \in D, NEW f \in [D -> V], NEW g \in [D -> V],
             \A x \in D : rank[x] < rank[n] => f[x] = g[x]
      PROVE  step(f, n) = step(g, n)
  <2>1. CASE n = 0
    BY <2>1
  <2>2. CASE n # 0
    <3>1. n - 1 \in D /\ rank[n - 1] < rank[n]
      BY <1>2, <2>2
    <3>2. f[n - 1] = g[n - 1]
      BY <1>7, <3>1
    <3> QED
      BY <3>2
  <2> QED
    BY <2>1, <2>2
<1>8. \A n \in D : \A f \in [D -> V] : G[<<n, f>>] = step(f, n)
  <2> HIDE DEF D, V, step
  <2> QED
    OBVIOUS
<1>9. DescendsBy(rank, D, V, G)
  <2> HIDE DEF G, step, D, V
  <2> QED
    BY <1>7, <1>8 DEF DescendsBy
<1>10. \E f \in [D -> V] : Solves(f, D, G)
  <2>1. V # {}
    OBVIOUS
  <2> HIDE DEF D, V, G, rank
  <2> QED
    BY <1>2, <1>4, <1>6, <1>9, <2>1, FunctionExists
<1>11. PICK f \in [D -> V] : \A n \in D : f[n] = G[<<n, f>>]
  BY <1>10 DEF Solves
<1>12. f = [n \in D |-> step(f, n)]
  <2> HIDE DEF step, G, D, V
  <2> QED
    BY <1>8, <1>11
<1>13. AncestorsUpTo(c) = [n \in D |-> step(AncestorsUpTo(c), n)]
  BY <1>12 DEF AncestorsUpTo
<1> DEFINE A == AncestorsUpTo(c)
<1> HIDE DEF A
<1>14. A = [n \in D |-> step(A, n)]
  BY <1>13 DEF A
<1>15. /\ A[0] = {c}
       /\ \A n \in 1..N : A[n] = A[n - 1] \cup UNION {BasesOf(b) : b \in A[n - 1]}
  <2>1. \A n \in D : A[n] = step(A, n)
    <3> HIDE DEF step
    <3> QED
      BY <1>14
  <2>2. 0 \in D /\ \A n \in 1..N : n \in D /\ n # 0
    BY <1>2
  <2> QED
    BY <2>1, <2>2
<1>16. \A n \in 0..N : A[n] \subseteq Decs
  <2> DEFINE wrong == {n \in 0..N : ~(A[n] \subseteq Decs)}
  <2> SUFFICES ASSUME wrong # {} PROVE FALSE
    OBVIOUS
  <2>1. wrong \in SUBSET Nat
    BY <1>2
  <2>2. PICK n \in wrong : \A m \in wrong : n <= m
    <3> HIDE DEF wrong
    <3> QED
      BY <2>1, LeastNatural
  <2>3. n # 0
    BY <1>15, <2>2
  <2>4. n \in 1..N /\ n - 1 \in 0..N /\ ~(n <= n - 1)
    BY <1>2, <2>2, <2>3
  <2>5. A[n - 1] \subseteq Decs
    BY <2>2, <2>4
  <2>6. UNION {BasesOf(b) : b \in A[n - 1]} \subseteq Decs
    BY <1>3, <2>5
  <2> QED
    BY <1>15, <2>2, <2>4, <2>5, <2>6
<1> QED
  BY <1>1, <1>15, <1>16 DEF A

\* A set with c that has the bases of those of its elements that are ancestors of c,
\* has all of them.
LEMMA AncestorsWithin ==
  ASSUME CxxInv, NEW c \in Decs, NEW S, c \in S,
         \A x \in S \cap ({c} \cup Ancestors(c)) : BasesOf(x) \subseteq S
  PROVE  Ancestors(c) \subseteq S
<1> DEFINE N == Len(decs)
           UpTo == AncestorsUpTo(c)
           falls == {k \in 0..N : ~(UpTo[N - k] \subseteq UpTo[N])}
           leaves == {n \in 0..N : ~(UpTo[n] \subseteq S)}
<1>1. N \in Nat /\ UpTo[0] = {c} /\ Ancestors(c) = UpTo[N] \ {c}
  <2>1. N \in Nat
    BY RefersBack
  <2> QED
    BY <2>1, AncestorsAre
<1>2. \A n \in 1..N : UpTo[n] = UpTo[n - 1] \cup UNION {BasesOf(b) : b \in UpTo[n - 1]}
  BY AncestorsAre
<1> HIDE DEF UpTo
<1>3. falls = {}
  <2> SUFFICES ASSUME falls # {} PROVE FALSE
    OBVIOUS
  <2>1. falls \in SUBSET Nat
    BY <1>1
  <2>2. PICK k \in falls : \A m \in falls : k <= m
    <3> HIDE DEF falls
    <3> QED
      BY <2>1, LeastNatural
  <2>3. k # 0
    BY <1>1, <2>2
  <2>4. k - 1 \in 0..N /\ k - 1 \notin falls /\ N - k \in 0..N
    BY <1>1, <2>2, <2>3
  <2>5. UpTo[N - (k - 1)] \subseteq UpTo[N]
    BY <2>4
  <2>6. N - (k - 1) \in 1..N /\ (N - (k - 1)) - 1 = N - k
    BY <1>1, <2>2, <2>3
  <2>7. UpTo[N - k] \subseteq UpTo[N - (k - 1)]
    BY <1>2, <2>6
  <2> QED
    BY <2>2, <2>5, <2>7
<1>4. \A n \in 0..N : UpTo[n] \subseteq UpTo[N]
  <2> SUFFICES ASSUME NEW n \in 0..N PROVE UpTo[n] \subseteq UpTo[N]
    OBVIOUS
  <2>1. N - n \in 0..N /\ N - (N - n) = n
    BY <1>1
  <2> QED
    BY <1>3, <2>1
<1>5. leaves = {}
  <2> SUFFICES ASSUME leaves # {} PROVE FALSE
    OBVIOUS
  <2>1. leaves \in SUBSET Nat
    BY <1>1
  <2>2. PICK n \in leaves : \A m \in leaves : n <= m
    <3> HIDE DEF leaves
    <3> QED
      BY <2>1, LeastNatural
  <2>3. n # 0
    BY <1>1, <2>2
  <2>4. n \in 1..N /\ n - 1 \in 0..N /\ ~(n <= n - 1)
    BY <1>1, <2>2, <2>3
  <2>5. UpTo[n - 1] \subseteq S /\ UpTo[n - 1] \subseteq {c} \cup Ancestors(c)
    BY <1>1, <1>4, <2>2, <2>4
  <2>6. UNION {BasesOf(b) : b \in UpTo[n - 1]} \subseteq S
    BY <2>5
  <2> QED
    BY <1>2, <2>2, <2>4, <2>5, <2>6
<1> QED
  BY <1>1, <1>5

\* What inherits from a class, if all between them are listed, is found to.
LEMMA ListedIsFound ==
  ASSUME CxxInv, NEW c \in Decs, isClassDecl(c),
         \A b \in {c} \cup Ancestors(c) : IsListed(b),
         NEW a \in Ancestors(c)
  PROVE  isClassDecl(a) /\ isInheritedFrom(c, a)
<1> DEFINE base_csr == Canonical(a)
           inherits == InheritsFrom(base_csr)
           classes == {x \in Decs : isClassDecl(x)}
           strangers == {x \in classes : x # a /\ ~inherits[Canonical(x)]}
<1>1. a # c
  BY AncestorsAre
<1>2. ASSUME NEW x \in classes, IsListed(x), NEW y \in BasesOf(x)
      PROVE  /\ y \in classes /\ y # 0
             /\ \/ y \in decs[x].bases
                \/ decs[x].template = y /\ decs[y].kind = "ClassTemplate"
  <2>1. CASE y \in {CanonicalType(b) : b \in decs[x].bases}
    <3>1. PICK b \in decs[x].bases : y = CanonicalType(b)
      BY <2>1
    <3>2. b \in Decs /\ ~IsAlias(b) /\ decs[b].kind \in {"ClassDecl", "TypedefDecl"}
      BY <1>2, <3>1, RefersBack DEF IsListed, WellFormed
    <3>3. y = b
      BY <3>1, <3>2, CanonicalIs
    <3> QED
      BY <3>1, <3>2, <3>3, RefersBack DEF IsAlias, isClassDecl
  <2>2. CASE decs[x].template # 0 /\ y = decs[x].template
    BY <2>2, RefersBack DEF WellFormed, isClassDecl
  <2> QED
    BY <1>2, <2>1, <2>2 DEF BasesOf
<1>3. Ancestors(c) \subseteq classes
  <2>1. \A x \in classes \cap ({c} \cup Ancestors(c)) : BasesOf(x) \subseteq classes
    BY <1>2
  <2> HIDE DEF classes
  <2>2. c \in classes
    BY DEF classes
  <2> QED
    BY <2>1, <2>2, AncestorsWithin
<1>4. a \in Decs /\ isClassDecl(a) /\ a # 0 /\ OrParent(a) = a
  BY <1>3, RefersBack DEF OrParent, isInheritable, isClassDecl
<1>5. ASSUME NEW e \in Decs
      PROVE  /\ Defined(e) \in Cursors /\ Canonical(e) \in Cursors
             /\ Defined(e).dec = e /\ Canonical(e).dec = e /\ e # 0
  BY CursorsOf, RefersBack
<1>6. ASSUME NEW x \in classes, x # a, ~inherits[Canonical(x)], IsListed(x), NEW y \in BasesOf(x)
      PROVE  y # a /\ ~inherits[Canonical(y)]
  <2>1. /\ ~isTemplateSpecializationOf(base_csr, x)
        /\ \A b \in BasesAt(Canonical(x)) : Canonical(b) # base_csr /\ ~inherits[Canonical(b)]
        /\ ~inherits[Defined(decs[x].parent)]
    BY <1>5, <1>6, InheritsIs DEF IsNull
  <2>2. CASE y \in decs[x].bases
    <3>1. y \in BasesAt(Canonical(x))
      BY <1>5, <1>6, <2>2, CursorsOf DEF BasesAt, IsListed
    <3> QED
      BY <2>1, <3>1
  <2>3. CASE decs[x].template = y /\ decs[y].kind = "ClassTemplate"
    <3>1. y \in Decs /\ y # 0 /\ decs[x].parent = decs[y].parent
          /\ decs[y].bases = {} /\ decs[y].template = 0
      BY <1>2, <1>6, <2>3, RefersBack DEF WellFormed
    <3>2. y # a
      BY <1>5, <1>6, <2>1, <2>3, <3>1 DEF isTemplateSpecializationOf
    <3>3. ~isTemplateSpecializationOf(base_csr, y) /\ BasesAt(Canonical(y)) = {}
      BY <1>5, <3>1 DEF isTemplateSpecializationOf, BasesAt
    <3>4. ~inherits[Canonical(y)]
      BY <1>5, <2>1, <3>1, <3>3, InheritsIs
    <3> QED
      BY <3>2, <3>4
  <2> QED
    BY <1>2, <1>6, <2>2, <2>3
<1>7. inherits[Defined(c)]
  <2> SUFFICES ASSUME ~inherits[Defined(c)] PROVE FALSE
    OBVIOUS
  <2>1. ~inherits[Canonical(c)]
    <3>1. BasesAt(Canonical(c)) \subseteq BasesAt(Defined(c))
      BY <1>5, CursorsOf DEF BasesAt
    <3>2. /\ ~isTemplateSpecializationOf(base_csr, c)
          /\ \A b \in BasesAt(Defined(c)) : /\ Canonical(b) # base_csr
                                            /\ ~inherits[Canonical(b)]
                                            /\ ~isTemplateSpecializationOf(base_csr, b)
          /\ ~inherits[Defined(decs[c].parent)]
      BY <1>5, InheritsIs DEF IsNull
    <3> QED
      BY <1>5, <3>1, <3>2, InheritsIs
  <2>2. c \in strangers
    BY <1>1, <2>1
  <2>3. \A x \in strangers \cap ({c} \cup Ancestors(c)) : BasesOf(x) \subseteq strangers
    BY <1>2, <1>6
  <2>4. a \in strangers
    <3> HIDE DEF strangers
    <3> QED
      BY <2>2, <2>3, AncestorsWithin
  <2> QED
    BY <2>4
<1> QED
  BY <1>4, <1>7, InheritsIs

LEMMA InvExempt == CxxInv => BasesExempt
<1> SUFFICES ASSUME CxxInv, NEW c \in {c \in Decs : isClassDecl(c)},
                    \A b \in {c} \cup Ancestors(c) : IsListed(b),
                    NEW d \in Decs, {d, decs[d].parent} \cap ({c} \cup Ancestors(c)) # {}
             PROVE  is_cxx_mbr_or_base_iwyu_exc(d, c)
  BY DEF BasesExempt
<1>1. CASE d = c \/ decs[d].parent = c
  BY <1>1 DEF is_cxx_mbr_or_base_iwyu_exc
<1>2. CASE d \in Ancestors(c)
  BY <1>2, ListedIsFound DEF is_cxx_mbr_or_base_iwyu_exc
<1>3. CASE decs[d].parent \in Ancestors(c)
  BY <1>3, ListedIsFound DEF is_cxx_mbr_or_base_iwyu_exc
<1> QED
  BY <1>1, <1>2, <1>3

-----------------------------------------------------------------------------
LEMMA CxxSafety == CxxSpec => []CxxInv
<1> QED
  BY CxxInvInit, CxxInvStep, PTL DEF CxxSpec

\* Whatever the headers declare, a header that the exceptions for the arguments of
\* functions and for members and bases do not ask for, is_cxx_fn_iwyu_exc() and
\* is_cxx_mbr_or_base_iwyu_exc(), comes with the header of the class that they look
\* at, but for the four cases that ExceptionsSufficient leaves out.
THEOREM ExemptIsProvided == CxxSpec => []ExceptionsSufficient
<1> QED
  BY CxxSafety, InvSufficient, PTL

\* However long the chain of bases, where a class is in scope no class that it
\* inherits from, nor a member of one, asks for its header, if the bases are listed
\* by their names: cxx_isInheritedFrom() misses none.
THEOREM BasesAreExempt == CxxSpec => []BasesExempt
<1> QED
  BY CxxSafety, InvExempt, PTL

=============================================================================
