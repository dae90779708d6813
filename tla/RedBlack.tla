------------------------------ MODULE RedBlack ------------------------------
(***************************************************************************)
(* The red-black tree of red_black.c: rb_tree_insert(), rb_tree_delete(),  *)
(* rb_tree_find(), rb_tree_cleanup() and the iterator.                     *)
(*                                                                         *)
(* A node is named by the datum it holds; nil is the sentinel of the tree, *)
(* a node like the others that every missing child or parent points to.    *)
(* A function runs step by step, one for each turn of its loop: pc is the  *)
(* loop, arg its datum or the node to delete, node and up its pointers.    *)
(***************************************************************************)
EXTENDS Integers, FiniteSets, Sequences

CONSTANTS
  Key,    \* the data, in the order of cmp_fn
  nil,
  NULL

ASSUME KeyAssumption == Key \subseteq Int /\ nil \notin Key /\ NULL \notin Key

Node == Key \cup {nil}

RB_L == 0
RB_R == 1
Dir  == {RB_L, RB_R}

Color == {"RB_BLACK", "RB_RED"}

VARIABLES
  tree,       \* root and, for each node, its child[2], parent and color
  size,
  allocated,  \* the nodes that malloc() returned and were not freed
  pc,
  arg,
  node,       \* x_node; z_node in rb_insert_fixup()
  up,         \* y_parent in rb_tree_insert()
  result,     \* what the last call returned
  iter,       \* rb_iterator: curr and stack; on: it may be used
  nil_moved   \* history: a rotation overwrote nil's parent before its use

callVars == <<pc, arg, node, up>>

redBlackVars ==
  <<tree, size, allocated, callVars, result, iter, nil_moved>>

RedBlackTypeOK ==
  /\ tree \in [root : Node, child : [Node -> [Dir -> Node]],
               parent : [Node -> Node], color : [Node -> Color]]
  /\ size \in Int
  /\ allocated \in SUBSET Key
  /\ pc \in {"idle", "find", "insert", "insert_fixup", "minimum", "delete_fixup",
             "free", "next"}
  /\ arg \in Key \cup {NULL}
  /\ node \in Node
  /\ up \in Node
  /\ result \in [node : Key \cup {NULL}, inserted : BOOLEAN]
  /\ iter \in [on : BOOLEAN, curr : Node, stack : Seq(Key)]
  /\ nil_moved \in BOOLEAN

\* rb_tree_reset(): the fields a node has before it is allocated and after it
\* is freed are those of nil.
EmptyTree ==
  [root   |-> nil,
   child  |-> [n \in Node |-> [d \in Dir |-> nil]],
   parent |-> [n \in Node |-> nil],
   color  |-> [n \in Node |-> "RB_BLACK"]]

NoIter == [on |-> FALSE, curr |-> nil, stack |-> <<>>]

RedBlackInit ==
  /\ tree = EmptyTree
  /\ size = 0
  /\ allocated = {}
  /\ pc = "idle" /\ arg = NULL /\ node = nil /\ up = nil
  /\ result = [node |-> NULL, inserted |-> FALSE]
  /\ iter = NoIter
  /\ nil_moved = FALSE

Return ==
  pc' = "idle" /\ arg' = NULL /\ node' = nil /\ up' = nil

-----------------------------------------------------------------------------
(* Parts of a tree. *)

is_black(t, n) == t.color[n] = "RB_BLACK"
is_red(t, n)   == t.color[n] = "RB_RED"

Opposite(dir) == 1 - dir

is_dir_child(t, n, dir) == n = t.child[t.parent[n]][dir]

child_dir(t, n) == IF is_dir_child(t, n, RB_L) THEN RB_L ELSE RB_R

Paint(t, n, color) == [t EXCEPT !.color[n] = color]

\* The root, or the parent's pointer to u, now points to v.
PointTo(t, u, v) ==
  IF t.parent[u] = nil THEN [t EXCEPT !.root = v]
                       ELSE [t EXCEPT !.child[t.parent[u]][child_dir(t, u)] = v]

\* Mutant of rb_node_rotate(): the inner child keeps its parent.
rotate_inner_parent(t, x, dir) ==
  LET y  == t.child[x][Opposite(dir)]
      t1 == [t EXCEPT !.child[x][Opposite(dir)] = t.child[y][dir],
                      !.parent[y] = t.parent[x]]
  IN  [PointTo(t1, x, y) EXCEPT !.child[y][dir] = x, !.parent[x] = y]

rb_node_rotate(t, x, dir) ==
  LET y     == t.child[x][Opposite(dir)]
      inner == t.child[y][dir]
      t1    == [t EXCEPT !.child[x][Opposite(dir)] = inner,
                         !.parent[inner] = x]
      t2    == [t1 EXCEPT !.parent[y] = t1.parent[x]]
  IN  [PointTo(t2, x, y) EXCEPT !.child[y][dir] = x, !.parent[x] = y]

rb_transplant(t, u, v) ==
  [PointTo(t, u, v) EXCEPT !.parent[v] = t.parent[u]]

\* The nodes of the subtree with root n.
Below(t, n) ==
  LET down[nodes \in SUBSET Key] ==
        LET kids == UNION {{t.child[m][RB_L], t.child[m][RB_R]} : m \in nodes}
            more == nodes \cup (kids \ {nil})
        IN  IF more = nodes THEN nodes ELSE down[more]
  IN  down[{n} \ {nil}]

Linked == Below(tree, tree.root)

-----------------------------------------------------------------------------
(* rb_tree_find() and the search of rb_tree_insert(). *)

Toward(k, n) == IF k > n THEN RB_R ELSE RB_L

Begin(function, k) ==
  /\ pc = "idle"
  /\ pc' = function
  /\ arg' = k
  /\ node' = tree.root
  /\ up' = nil
  /\ UNCHANGED <<tree, size, allocated, result, nil_moved>>

BeginFind(k) == Begin("find", k) /\ UNCHANGED iter

\* Nothing may be added while the tree is iterated over.
BeginInsert(k) == Begin("insert", k) /\ iter' = NoIter

Descend ==
  /\ pc \in {"find", "insert"}
  /\ node \notin {nil, arg}
  /\ node' = tree.child[node][Toward(arg, node)]
  /\ up' = node
  /\ UNCHANGED <<tree, size, allocated, pc, arg, result, iter, nil_moved>>

found(n) == IF n = nil THEN NULL ELSE n

rb_tree_find ==
  /\ pc = "find"
  /\ node \in {nil, arg}
  /\ result' = [node |-> found(node), inserted |-> FALSE]
  /\ Return
  /\ UNCHANGED <<tree, size, allocated, iter, nil_moved>>

InsertFound ==
  /\ pc = "insert"
  /\ node = arg
  /\ result' = [node |-> node, inserted |-> FALSE]
  /\ Return
  /\ UNCHANGED <<tree, size, allocated, iter, nil_moved>>

-----------------------------------------------------------------------------
(* rb_tree_insert() from there, and rb_insert_fixup(). *)

\* The new node is red and has no children.
WithLeaf(t, k, parent) ==
  LET t1 == [t EXCEPT !.child[k] = [d \in Dir |-> nil], !.parent[k] = parent,
                      !.color[k] = "RB_RED"]
  IN  IF parent = nil THEN [t1 EXCEPT !.root = k]
                      ELSE [t1 EXCEPT !.child[parent][Toward(k, parent)] = k]

InsertNew ==
  /\ pc = "insert"
  /\ node = nil
  /\ tree' = WithLeaf(tree, arg, up)
  /\ allocated' = allocated \cup {arg}
  /\ size' = size + 1
  /\ result' = [node |-> arg, inserted |-> TRUE]
  /\ pc' = "insert_fixup"
  /\ node' = arg
  /\ up' = nil
  /\ arg' = NULL
  /\ UNCHANGED <<iter, nil_moved>>

Parent == tree.parent[node]

Grandparent == tree.parent[Parent]

\* Mutant of Uncle: the parent itself.
UncleSameSide == tree.child[Grandparent][child_dir(tree, Parent)]

Uncle == tree.child[Grandparent][Opposite(child_dir(tree, Parent))]

InsertFixing == pc = "insert_fixup" /\ is_red(tree, Parent)

InsertRecolor ==
  /\ InsertFixing
  /\ is_red(tree, Uncle)
  /\ tree' = [tree EXCEPT !.color[Parent] = "RB_BLACK",
                          !.color[Grandparent] = "RB_RED",
                          !.color[Uncle] = "RB_BLACK"]
  /\ node' = Grandparent
  /\ UNCHANGED <<size, allocated, pc, arg, up, result, iter, nil_moved>>

\* Mutant of straighten(): an inner child is not rotated outward first.
straighten_never(t, z, dir) == [tree |-> t, node |-> z]

\* The first rotation: z is, or becomes, an outer grandchild.
straighten(t, z, dir) ==
  IF is_dir_child(t, z, Opposite(dir))
  THEN [tree |-> rb_node_rotate(t, t.parent[z], dir), node |-> t.parent[z]]
  ELSE [tree |-> t, node |-> z]

InsertRotate ==
  /\ InsertFixing
  /\ is_black(tree, Uncle)
  /\ LET dir == child_dir(tree, Parent)
     IN  \E s \in {straighten(tree, node, dir)} :
           LET p == s.tree.parent[s.node]
               g == s.tree.parent[p]
           IN  /\ tree' = rb_node_rotate(
                             Paint(Paint(s.tree, p, "RB_BLACK"), g, "RB_RED"),
                             g, Opposite(dir))
               /\ node' = s.node
  /\ UNCHANGED <<size, allocated, pc, arg, up, result, iter, nil_moved>>

InsertDone ==
  /\ pc = "insert_fixup"
  /\ is_black(tree, Parent)
  /\ tree' = Paint(tree, tree.root, "RB_BLACK")
  /\ Return
  /\ UNCHANGED <<size, allocated, result, iter, nil_moved>>

-----------------------------------------------------------------------------
(* rb_tree_delete() and rb_delete_fixup(). *)

\* A node that malloc() returned may be deleted as long as it was not freed.
DeleteBegin(z) ==
  /\ pc = "idle"
  /\ z \in allocated
  /\ arg' = z
  /\ iter' = NoIter
  /\ UNCHANGED <<size, allocated, up, result, nil_moved>>

\* A node without a child on one side: the other child takes its place.
DeleteOuter(z) ==
  /\ DeleteBegin(z)
  /\ \E dir \in Dir :
       /\ tree.child[z][dir] = nil
       /\ dir = RB_R => tree.child[z][RB_L] # nil
       /\ tree' = rb_transplant(tree, z, tree.child[z][Opposite(dir)])
       /\ node' = tree.child[z][Opposite(dir)]
  /\ pc' = IF is_black(tree, z) THEN "delete_fixup" ELSE "free"

DeleteInner(z) ==
  /\ DeleteBegin(z)
  /\ \A dir \in Dir : tree.child[z][dir] # nil
  /\ pc' = "minimum"
  /\ node' = tree.child[z][RB_R]
  /\ UNCHANGED tree

rb_tree_minimum ==
  /\ pc = "minimum"
  /\ tree.child[node][RB_L] # nil
  /\ node' = tree.child[node][RB_L]
  /\ UNCHANGED <<tree, size, allocated, pc, arg, up, result, iter, nil_moved>>

\* Mutant of successor_unlinked(): a right child that is the successor keeps z
\* for its parent.
successor_unlinked_never(t, z, y) ==
  LET x == t.child[y][RB_R]
  IN  IF y # t.child[z][RB_R]
      THEN [rb_transplant(t, y, x) EXCEPT !.child[y][RB_R] = t.child[z][RB_R],
                                          !.parent[t.child[z][RB_R]] = y]
      ELSE [t EXCEPT !.child[y][RB_R] = x]

\* The successor y of z leaves its place to its right child, and gets the right
\* child of z.
successor_unlinked(t, z, y) ==
  LET x  == t.child[y][RB_R]
      t1 == rb_transplant(t, y, x)
      r  == t1.child[z][RB_R]
  IN  IF y # t.child[z][RB_L]
      THEN [t1 EXCEPT !.child[y][RB_R] = r, !.parent[r] = y]
      ELSE [t EXCEPT !.parent[x] = y]

\* The successor takes the place, the left child and the color of z.
DeleteSuccessor ==
  /\ pc = "minimum"
  /\ tree.child[node][RB_L] = nil
  /\ LET t == rb_transplant(successor_unlinked(tree, arg, node), arg, node)
         l == t.child[arg][RB_L]
     IN  tree' = [t EXCEPT !.child[node][RB_L] = l, !.parent[l] = node,
                           !.color[node] = t.color[arg]]
  /\ node' = tree.child[node][RB_R]
  /\ pc' = IF is_black(tree, node) THEN "delete_fixup" ELSE "free"
  /\ UNCHANGED <<size, allocated, arg, up, result, iter, nil_moved>>

DeleteFixing ==
  pc = "delete_fixup" /\ node # tree.root /\ is_black(tree, node)

\* Mutant of lift_sibling(): the loop goes on with a red sibling.
lift_sibling_never(t, x, dir) == t

\* A red sibling is rotated up, so that the sibling is black.
lift_sibling(t, x, dir) ==
  LET p == t.parent[x]
      w == t.child[p][Opposite(dir)]
  IN  IF is_red(t, w)
      THEN rb_node_rotate([t EXCEPT !.color[w] = "RB_BLACK",
                                    !.color[p] = "RB_RED"], p, dir)
      ELSE t

\* The sibling of x, on the other side than dir.
Sibling(t, x, dir) == t.child[t.parent[x]][Opposite(dir)]

DeleteRecolor ==
  /\ DeleteFixing
  /\ LET dir == child_dir(tree, node)
     IN  \E t \in {lift_sibling(tree, node, dir)} :
           LET w == Sibling(t, node, dir)
           IN  /\ \A d \in Dir : is_black(t, t.child[w][d])
               /\ tree' = Paint(t, w, "RB_RED")
               /\ node' = t.parent[node]
  /\ UNCHANGED <<size, allocated, pc, arg, up, result, iter, nil_moved>>

\* The sibling's red child is, or is rotated to be, the outer one.
redden_outer(t, w, dir) ==
  IF is_black(t, t.child[w][Opposite(dir)])
  THEN rb_node_rotate(Paint(Paint(t, t.child[w][dir], "RB_BLACK"), w, "RB_RED"),
                      w, Opposite(dir))
  ELSE t

\* The last rotation; the outer child takes the place of the black node.
settle(t, x, dir) ==
  LET p  == t.parent[x]
      w  == Sibling(t, x, dir)
      t1 == Paint(Paint(t, w, t.color[p]), p, "RB_BLACK")
  IN  rb_node_rotate(Paint(t1, t1.child[w][Opposite(dir)], "RB_BLACK"), p, dir)

DeleteRotate ==
  /\ DeleteFixing
  /\ LET dir == child_dir(tree, node)
     IN  \E t1 \in {lift_sibling(tree, node, dir)} :
           LET w == Sibling(t1, node, dir)
           IN  /\ \E d \in Dir : is_red(t1, t1.child[w][d])
               /\ \E t2 \in {redden_outer(t1, w, dir)} :
                    /\ tree' = settle(t2, node, dir)
                    /\ nil_moved' = (nil_moved \/ t2.parent[node] # t1.parent[node])
  /\ node' = tree'.root
  /\ UNCHANGED <<size, allocated, pc, arg, up, result, iter>>

DeleteDone ==
  /\ pc = "delete_fixup"
  /\ node = tree.root \/ is_red(tree, node)
  /\ tree' = Paint(tree, node, "RB_BLACK")
  /\ pc' = "free"
  /\ node' = nil
  /\ UNCHANGED <<size, allocated, arg, up, result, iter, nil_moved>>

DeleteFree ==
  /\ pc = "free"
  /\ tree' = [tree EXCEPT !.child[arg] = EmptyTree.child[arg],
                          !.parent[arg] = nil, !.color[arg] = "RB_BLACK"]
  /\ allocated' = allocated \ {arg}
  /\ size' = size - 1
  /\ Return
  /\ UNCHANGED <<result, iter, nil_moved>>

\* rb_node_free() follows the links from the root.
rb_tree_cleanup ==
  /\ pc = "idle"
  /\ tree' = EmptyTree
  /\ allocated' = allocated \ Linked
  /\ size' = 0
  /\ iter' = NoIter
  /\ UNCHANGED <<callVars, result, nil_moved>>

-----------------------------------------------------------------------------
(* The iterator. *)

rb_iterator_init ==
  /\ pc = "idle"
  /\ iter' = [on |-> TRUE, curr |-> tree.root, stack |-> <<>>]
  /\ UNCHANGED <<tree, size, allocated, callVars, result, nil_moved>>

BeginNext ==
  /\ pc = "idle"
  /\ iter.on
  /\ pc' = "next"
  /\ UNCHANGED <<tree, size, allocated, arg, node, up, result, iter, nil_moved>>

NextPush ==
  /\ pc = "next"
  /\ iter.curr # nil
  /\ iter' = [iter EXCEPT !.stack = Append(@, iter.curr),
                          !.curr = tree.child[iter.curr][RB_L]]
  /\ UNCHANGED <<tree, size, allocated, callVars, result, nil_moved>>

\* Mutant of after_pop(): the walk goes on to the left again.
after_pop_left(n) == tree.child[n][RB_L]

after_pop(n) == tree.child[n][RB_R]

rb_iterator_next ==
  /\ pc = "next"
  /\ iter.curr = nil
  /\ LET top == Len(iter.stack)
     IN  IF top = 0
         THEN /\ result' = [node |-> NULL, inserted |-> FALSE]
              /\ UNCHANGED iter
         ELSE /\ result' = [node |-> iter.stack[top], inserted |-> FALSE]
              /\ iter' = [iter EXCEPT !.stack = SubSeq(@, 1, top - 1),
                                      !.curr = after_pop(iter.stack[top])]
  /\ Return
  /\ UNCHANGED <<tree, size, allocated, nil_moved>>

-----------------------------------------------------------------------------

\* The function that runs takes its next step.
RedBlackStep ==
  \/ Descend \/ rb_tree_find \/ InsertFound \/ InsertNew
  \/ InsertRecolor \/ InsertRotate \/ InsertDone
  \/ rb_tree_minimum \/ DeleteSuccessor
  \/ DeleteRecolor \/ DeleteRotate \/ DeleteDone \/ DeleteFree
  \/ NextPush \/ rb_iterator_next

\* A function is called.
RedBlackCall ==
  \/ \E k \in Key : BeginFind(k) \/ BeginInsert(k) \/ DeleteOuter(k) \/ DeleteInner(k)
  \/ rb_tree_cleanup
  \/ rb_iterator_init
  \/ BeginNext

RedBlackNext == RedBlackStep \/ RedBlackCall

RedBlackSpec ==
  RedBlackInit /\ [][RedBlackNext]_redBlackVars /\ WF_redBlackVars(RedBlackStep)

-----------------------------------------------------------------------------

\* The red-black properties (2) to (5) that rb_tree_check() quotes, and that
\* parents are parents.
BlackAbove(n) == {m \in Linked : is_black(tree, m) /\ n \in Below(tree, m)}

Rules ==
  /\ is_black(tree, tree.root)
  /\ is_black(tree, nil)
  /\ tree.root # nil => tree.parent[tree.root] = nil
  /\ \A n \in Linked, d \in Dir :
       LET c == tree.child[n][d]
       IN  c # nil => tree.parent[c] = n /\ (is_red(tree, n) => is_black(tree, c))
  /\ LET ends == {l \in Linked : \E d \in Dir : tree.child[l][d] = nil}
     IN  Cardinality({Cardinality(BlackAbove(n)) : n \in ends}) <= 1

\* Between calls the tree is a red-black tree, after any sequence of insertions
\* and deletions in which rb_delete_fixup() did not lose nil's parent.
RulesHold == pc = "idle" /\ ~nil_moved => Rules

\* Between calls the nodes that can be reached from the root are those that were
\* allocated and not freed, each once, and size is their number: nothing leaks
\* and nothing freed is left in the tree.
NodesAccounted ==
  pc = "idle" /\ ~nil_moved =>
    allocated = Linked /\ size = Cardinality(allocated)

\* 2^k
TwoTo(k) ==
  LET power[n \in 0..k] == IF n = 0 THEN 1 ELSE 2 * power[n - 1]
  IN  power[k]

\* The claim of red_black.h for RB_ITERATOR_DEPTH_MAX: a tree needs 2^(h/2) - 1
\* nodes for the iterator's stack to hold h of them.
IteratorDepth ==
  ~nil_moved => TwoTo(Len(iter.stack)) <= (size + 1) * (size + 1)

\* Every function returns: searches, both fix-ups and the iterator's walk end.
CallsReturn == (pc # "idle") ~> (pc = "idle" \/ nil_moved)

\* What the iterator still has to return.
Rest ==
  IF iter.on
  THEN Below(tree, iter.curr) \cup
       UNION {{iter.stack[i]} \cup Below(tree, tree.child[iter.stack[i]][RB_R])
              : i \in 1..Len(iter.stack)}
  ELSE {}

Abstract == INSTANCE KeySet WITH elements <- Linked, rest <- Rest

\* The tree is the set of data red_black.h promises, from its first call until
\* rb_delete_fixup() loses nil's parent: find, insert and the iterator return
\* what a set kept in order returns, and fix-ups neither lose nor add a datum.
ImplementsKeySet ==
  /\ Abstract!KeySetInit
  /\ [][\/ UNCHANGED <<Linked, Rest, result>>
        \/ nil_moved'
        \/ Abstract!KeySetNext]_<<Linked, Rest, result>>

\* What rb_delete_fixup() is to do: "restore the properties inherent in
\* red-black trees", without losing a node.
DeleteRestores == pc = "idle" => Rules /\ allocated = Linked

=============================================================================
