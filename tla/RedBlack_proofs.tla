-------------------------- MODULE RedBlack_proofs --------------------------
(***************************************************************************)
(* Proofs about RedBlack, for any set of data, finite or not.              *)
(*                                                                         *)
(* The nodes linked to the root are a set N, and sub[n] are those in the   *)
(* subtree of n: the links are related to these sets (Shape), so that no   *)
(* proof needs a recursion over the links; Below(), which has one, is      *)
(* shown to be sub.  B[n] is the number of black nodes on every path from  *)
(* n down; a deletion leaves a gap, a child to which one is missing, which *)
(* rb_delete_fixup() moves up until it can close it.  The invariant says   *)
(* of each step of the functions that such N, sub and B exist.             *)
(***************************************************************************)
EXTENDS RedBlack, Facts, SequenceTheorems

-----------------------------------------------------------------------------
(* The links of the nodes, and what the operators do to them. *)

\* The values of tree.
Trees ==
  [root : Node, child : [Node -> [Dir -> Node]], parent : [Node -> Node],
   color : [Node -> Color]]

\* There are two sides, each the other's opposite.
LEMMA OppositeIs ==
  ASSUME NEW d \in Dir
  PROVE  /\ Opposite(d) \in Dir /\ Opposite(d) # d /\ Opposite(Opposite(d)) = d
         /\ \A e \in Dir : e = d \/ e = Opposite(d)
  BY DEF Dir, RB_L, RB_R, Opposite

\* The sentinel is a node, and not one that holds a datum.
LEMMA NilIs == nil \in Node /\ nil \notin Key /\ Key \subseteq Node /\ Key \subseteq Int
  BY KeyAssumption DEF Node

\* r is t, but the root, or the parent's pointer to u, points to v.
Points(r, t, u, v) ==
  /\ r \in Trees
  /\ r.root = IF t.parent[u] = nil THEN v ELSE t.root
  /\ r.parent = t.parent
  /\ r.color = t.color
  /\ \A n \in Node, e \in Dir :
       r.child[n][e] = IF t.parent[u] # nil /\ n = t.parent[u] /\ e = child_dir(t, u)
                       THEN v ELSE t.child[n][e]

\* PointTo() changes the root or one child pointer.
LEMMA PointToIs ==
  ASSUME NEW t \in Trees, NEW u \in Node, NEW v \in Node
  PROVE  Points(PointTo(t, u, v), t, u, v)
<1>1. child_dir(t, u) \in Dir
  BY DEF child_dir, Dir
<1> HIDE DEF child_dir
<1> QED
  BY <1>1 DEF PointTo, Trees, Points

\* r is t with v in the place of u.
Transplanted(r, t, u, v) ==
  /\ r \in Trees
  /\ r.root = IF t.parent[u] = nil THEN v ELSE t.root
  /\ \A n \in Node : r.parent[n] = IF n = v THEN t.parent[u] ELSE t.parent[n]
  /\ r.color = t.color
  /\ \A n \in Node, e \in Dir :
       r.child[n][e] = IF t.parent[u] # nil /\ n = t.parent[u] /\ e = child_dir(t, u)
                       THEN v ELSE t.child[n][e]

\* rb_transplant() changes that pointer and v's parent.
LEMMA TransplantIs ==
  ASSUME NEW t \in Trees, NEW u \in Node, NEW v \in Node
  PROVE  Transplanted(rb_transplant(t, u, v), t, u, v)
<1> DEFINE p == PointTo(t, u, v)
<1>1. Points(p, t, u, v)
  BY PointToIs
<1>3. rb_transplant(t, u, v) = [p EXCEPT !.parent[v] = t.parent[u]]
  BY DEF rb_transplant
<1> HIDE DEF p
<1>4. t.parent[u] \in Node
  BY DEF Trees
<1>5. \A q \in Node : LET r == [p EXCEPT !.parent[v] = q]
                     IN  /\ r \in Trees /\ r.root = p.root /\ r.child = p.child
                         /\ r.color = p.color
                         /\ \A n \in Node : r.parent[n] = IF n = v THEN q ELSE p.parent[n]
  BY <1>1 DEF Trees, Points
<1> QED
  BY <1>1, <1>3, <1>4, <1>5 DEF Points, Transplanted

\* r is t with x rotated below its child y, to which side d; i is the inner child.
Rotated(r, t, x, d, y, i) ==
  /\ r \in Trees
  /\ r.root = IF t.parent[x] = nil THEN y ELSE t.root
  /\ \A n \in Node : r.parent[n] = IF n = x THEN y
                                   ELSE IF n = y THEN t.parent[x]
                                   ELSE IF n = i THEN x ELSE t.parent[n]
  /\ r.color = t.color
  /\ \A n \in Node, e \in Dir :
       r.child[n][e] =
         IF n = x THEN IF e = d THEN t.child[x][e] ELSE i
         ELSE IF n = y THEN IF e = d THEN x ELSE t.child[y][e]
         ELSE IF t.parent[x] # nil /\ n = t.parent[x] /\ e = child_dir(t, x)
         THEN y ELSE t.child[n][e]

\* What rb_node_rotate() makes of the links, when x, its child y and y's inner child
\* are different nodes; the inner child may be nil.
LEMMA RotateIs ==
  ASSUME NEW t \in Trees, NEW x \in Node, NEW d \in Dir,
         NEW y, y = t.child[x][Opposite(d)], y # x,
         NEW i, i = t.child[y][d], i # x, i # y,
         t.parent[x] \notin {x, y}
  PROVE  Rotated(rb_node_rotate(t, x, d), t, x, d, y, i)
<1> DEFINE t1 == [t EXCEPT !.child[x][Opposite(d)] = i, !.parent[i] = x]
           t2 == [t1 EXCEPT !.parent[y] = t1.parent[x]]
           p  == PointTo(t2, x, y)
           r  == [p EXCEPT !.child[y][d] = x, !.parent[x] = y]
<1>0. /\ Opposite(d) \in Dir /\ Opposite(d) # d /\ y \in Node /\ i \in Node
      /\ \A e \in Dir : e = d \/ e = Opposite(d)
  BY OppositeIs DEF Trees
<1>1. rb_node_rotate(t, x, d) = r
  BY DEF rb_node_rotate
<1>2. /\ t1 \in Trees /\ t1.root = t.root /\ t1.color = t.color
      /\ \A n \in Node : t1.parent[n] = IF n = i THEN x ELSE t.parent[n]
      /\ \A n \in Node, e \in Dir :
           t1.child[n][e] = IF n = x /\ e # d THEN i ELSE t.child[n][e]
  BY <1>0 DEF Trees
<1> HIDE DEF t1
<1>3. /\ t2 \in Trees /\ t2.root = t.root /\ t2.color = t.color
      /\ \A n \in Node : t2.parent[n] = IF n = y THEN t.parent[x]
                                        ELSE IF n = i THEN x ELSE t.parent[n]
      /\ \A n \in Node, e \in Dir :
           t2.child[n][e] = IF n = x /\ e # d THEN i ELSE t.child[n][e]
  BY <1>0, <1>2 DEF Trees
<1> HIDE DEF t2
<1>4. t2.parent[x] = t.parent[x] /\ t.parent[x] \in Node
  BY <1>3 DEF Trees
<1>5. child_dir(t2, x) = child_dir(t, x)
  BY <1>3, <1>4 DEF child_dir, is_dir_child, Dir
<1>6. /\ p \in Trees /\ p.parent = t2.parent /\ p.color = t.color
      /\ p.root = IF t.parent[x] = nil THEN y ELSE t.root
      /\ \A n \in Node, e \in Dir :
              p.child[n][e] =
                IF t.parent[x] # nil /\ n = t.parent[x] /\ e = child_dir(t, x)
                THEN y ELSE t2.child[n][e]
  <2>1. t2 \in Trees /\ y \in Node
    BY <1>0, <1>3
  <2>2. Points(p, t2, x, y)
    BY <2>1, PointToIs
  <2> HIDE DEF p
  <2> QED
    BY <1>3, <1>4, <1>5, <2>2 DEF Points
<1> HIDE DEF p
<1>7. /\ r \in Trees /\ r.root = p.root /\ r.color = p.color
      /\ \A n \in Node : r.parent[n] = IF n = x THEN y ELSE p.parent[n]
      /\ \A n \in Node, e \in Dir :
              r.child[n][e] = IF n = y /\ e = d THEN x ELSE p.child[n][e]
  BY <1>0, <1>6 DEF Trees
<1> HIDE DEF r
<1> QED
  BY <1>0, <1>1, <1>3, <1>4, <1>6, <1>7 DEF Rotated

-----------------------------------------------------------------------------
(* Search trees, as a set N of nodes and, for each node, the set sub of those below it. *)

\* m is on side d of n.
Side(d, m, n) == IF d = RB_L THEN m < n ELSE n < m

\* N are the nodes of the tree t, and sub the subtrees.
Shape(t, N, sub) ==
  /\ t \in Trees /\ N \in SUBSET Key /\ IsFiniteSet(N)
  /\ sub \in [Node -> SUBSET N] /\ sub[nil] = {}
  /\ t.root \in N \cup {nil} /\ sub[t.root] = N
  /\ t.root # nil => t.parent[t.root] = nil
  /\ \A n \in N, d \in Dir :
       /\ t.child[n][d] \in N \cup {nil}
       /\ t.child[n][d] # nil => t.parent[t.child[n][d]] = n
  /\ \A n \in N : n # t.root =>
       t.parent[n] \in N /\ \E d \in Dir : t.child[t.parent[n]][d] = n
  /\ \A n \in N, d \in Dir :
       sub[n] = {n} \cup sub[t.child[n][d]] \cup sub[t.child[n][Opposite(d)]]
  /\ \A n \in N, d \in Dir : \A m \in sub[t.child[n][d]] : Side(d, m, n)

\* A datum is on one side of another, and sides are transitive.
LEMMA SidesDiffer ==
  ASSUME NEW m \in Key, NEW n \in Key, NEW d \in Dir
  PROVE  /\ ~(Side(d, m, n) /\ Side(Opposite(d), m, n))
         /\ Side(d, m, n) => m # n
         /\ Side(d, m, n) <=> Side(Opposite(d), n, m)
         /\ \A k \in Key : Side(d, m, n) /\ Side(d, n, k) => Side(d, m, k)
  BY NilIs DEF Side, Dir, RB_L, RB_R, Opposite

\* The subtrees of a node's children do not meet, and do not hold the node.
LEMMA Apart ==
  ASSUME NEW t, NEW N, NEW sub, Shape(t, N, sub), NEW n \in N, NEW d \in Dir
  PROVE  /\ n \in sub[n] /\ n \notin sub[t.child[n][d]]
         /\ sub[t.child[n][d]] \cap sub[t.child[n][Opposite(d)]] = {}
         /\ t.child[n][d] # nil => t.child[n][d] # t.child[n][Opposite(d)]
         /\ n # nil /\ n # t.child[n][d] /\ t.parent[n] # n
         /\ n \in Node /\ n \in Key
<1>1. n \in Key /\ n \in Node /\ n # nil /\ Opposite(d) \in Dir
  BY NilIs, OppositeIs DEF Shape
<1>2. \A e \in Dir : t.child[n][e] \in N \cup {nil} /\ sub[t.child[n][e]] \subseteq Key
  <2>1. \A m \in Node : sub[m] \subseteq N
    BY DEF Shape
  <2>2. N \subseteq Key /\ N \cup {nil} \subseteq Node /\ \A e \in Dir : t.child[n][e] \in N \cup {nil}
    BY NilIs DEF Shape
  <2> QED
    BY <2>1, <2>2
<1>3. n \in sub[n]
  BY DEF Shape
<1>4. \A e \in Dir : n \notin sub[t.child[n][e]]
  BY <1>1, SidesDiffer DEF Shape
<1>5. sub[t.child[n][d]] \cap sub[t.child[n][Opposite(d)]] = {}
  BY <1>1, <1>2, SidesDiffer DEF Shape
<1>6. \A m \in N : m \in sub[m]
  BY DEF Shape
<1>7. t.child[n][d] # nil => t.child[n][d] # t.child[n][Opposite(d)]
  BY <1>2, <1>5, <1>6
<1>8. n # t.child[n][d]
  BY <1>3, <1>4
<1>9. t.parent[n] # n
  BY <1>1, <1>3, <1>4 DEF Shape
<1> QED
  BY <1>1, <1>3, <1>4, <1>5, <1>7, <1>8, <1>9

\* A child is a node of the tree, or nil, and its parent is the node it is a child of.
LEMMA ChildLinks ==
  ASSUME NEW t, NEW N, NEW sub, Shape(t, N, sub)
  PROVE  \A n \in N, d \in Dir :
           /\ t.child[n][d] \in N \cup {nil} /\ t.child[n][d] \in Node
           /\ t.child[n][d] # nil => t.parent[t.child[n][d]] = n
<1>1. N \cup {nil} \subseteq Node
  BY NilIs DEF Shape
<1> QED
  BY <1>1 DEF Shape

\* child_dir() tells on which side of its parent a node is.
LEMMA ChildDirIs ==
  ASSUME NEW t, NEW N, NEW sub, Shape(t, N, sub), NEW n \in N, n # t.root
  PROVE  /\ t.parent[n] \in N
         /\ child_dir(t, n) \in Dir
         /\ t.child[t.parent[n]][child_dir(t, n)] = n
         /\ t.child[t.parent[n]][Opposite(child_dir(t, n))] # n
<1> DEFINE p == t.parent[n]
<1>1. p \in N /\ \E d \in Dir : t.child[p][d] = n
  BY DEF Shape
<1>2. child_dir(t, n) \in Dir /\ t.child[p][child_dir(t, n)] = n
  BY <1>1 DEF child_dir, is_dir_child, Dir
<1>3. n # nil
  BY NilIs DEF Shape
<1> QED
  BY <1>1, <1>2, <1>3, Apart

\* Whatever is below a node below m is below m.
LEMMA Nested ==
  ASSUME NEW t, NEW N, NEW sub, Shape(t, N, sub), NEW m \in N, NEW n \in sub[m]
  PROVE  /\ sub[n] \subseteq sub[m]
         /\ n # m => t.parent[n] \in sub[m]
<1> DEFINE Good(k) == \A c \in sub[k] : /\ sub[c] \subseteq sub[k]
                                        /\ c # k => t.parent[c] \in sub[k]
           Bad == {k \in N : ~Good(k)}
           Ranks == {Cardinality(sub[k]) : k \in Bad}
<1>1. \A k \in N \cup {nil} : sub[k] \subseteq N /\ IsFiniteSet(sub[k]) /\ Cardinality(sub[k]) \in Nat
  BY FS_Subset, FS_CardinalityType, NilIs DEF Shape
<1>2. \A k \in N, d \in Dir :
        /\ t.child[k][d] \in N \cup {nil}
        /\ sub[t.child[k][d]] \subseteq sub[k] /\ k \notin sub[t.child[k][d]] /\ k \in sub[k]
  <2> TAKE k \in N, d \in Dir
  <2>1. t.child[k][d] \in N \cup {nil} /\ sub[t.child[k][d]] \subseteq sub[k]
    BY DEF Shape
  <2>2. k \notin sub[t.child[k][d]] /\ k \in sub[k]
    BY Apart
  <2> QED
    BY <2>1, <2>2
<1>3. \A k \in N, d \in Dir : Cardinality(sub[t.child[k][d]]) < Cardinality(sub[k])
  <2> TAKE k \in N, d \in Dir
  <2>1. sub[t.child[k][d]] # sub[k]
    BY <1>2
  <2>2. Cardinality(sub[t.child[k][d]]) <= Cardinality(sub[k]) /\ Cardinality(sub[t.child[k][d]]) # Cardinality(sub[k])
    BY <1>1, <1>2, <2>1, FS_Subset
  <2> QED
    BY <1>1, <1>2, <2>2
<1>4. Bad = {}
  <2> SUFFICES ASSUME Bad # {} PROVE FALSE
    OBVIOUS
  <2>1. Ranks \in SUBSET Nat /\ Ranks # {}
    BY <1>1
  <2>2. PICK r \in Ranks : \A q \in Ranks : r <= q
    BY <2>1, LeastNatural
  <2>3. PICK k \in Bad : \A q \in Ranks : Cardinality(sub[k]) <= q
    BY <2>2
  <2>4. \A d \in Dir : t.child[k][d] \in N => Good(t.child[k][d])
    <3> SUFFICES ASSUME NEW d \in Dir, t.child[k][d] \in N, ~Good(t.child[k][d]) PROVE FALSE
      OBVIOUS
    <3> HIDE DEF Good
    <3>1. k \in N /\ Cardinality(sub[t.child[k][d]]) \in Ranks
      OBVIOUS
    <3> HIDE DEF Bad
    <3>2. Cardinality(sub[k]) <= Cardinality(sub[t.child[k][d]])
      BY <2>3, <3>1
    <3> HIDE DEF Ranks
    <3>3. Cardinality(sub[t.child[k][d]]) < Cardinality(sub[k])
      BY <1>3, <3>1
    <3>4. Cardinality(sub[k]) \in Nat /\ Cardinality(sub[t.child[k][d]]) \in Nat
      BY <1>1, <3>1
    <3> QED
      BY <3>2, <3>3, <3>4
  <2>5. ASSUME NEW c \in sub[k] PROVE sub[c] \subseteq sub[k] /\ (c # k => t.parent[c] \in sub[k])
    <3>1. CASE c = k
      BY <3>1
    <3>2. CASE c # k
      <4>1. PICK d \in Dir : c \in sub[t.child[k][d]]
        BY <3>2, OppositeIs DEF Shape, Dir
      <4>2. t.child[k][d] \in N
        BY <4>1 DEF Shape
      <4>3. Good(t.child[k][d])
        BY <2>4, <4>2
      <4>4. CASE c = t.child[k][d]
        BY <1>2, <3>2, <4>2, <4>4, NilIs DEF Shape
      <4>5. CASE c # t.child[k][d]
        BY <1>2, <4>1, <4>3, <4>5
      <4> QED
        BY <4>4, <4>5
    <3> QED
      BY <3>1, <3>2
  <2> QED
    BY <2>5
<1> QED
  BY <1>4

\* A child is below its parent, never above.
LEMMA ChildBelow ==
  ASSUME NEW t, NEW N, NEW sub, Shape(t, N, sub), NEW n \in N, NEW d \in Dir,
         t.child[n][d] # nil
  PROVE  /\ t.child[n][d] \in N /\ t.child[n][d] \in sub[n] /\ n \notin sub[t.child[n][d]]
         /\ t.parent[t.child[n][d]] = n /\ sub[t.child[n][d]] \subseteq sub[n]
<1>1. t.child[n][d] \in N /\ t.parent[t.child[n][d]] = n
  BY DEF Shape
<1>2. t.child[n][d] \in sub[t.child[n][d]] /\ n \notin sub[t.child[n][d]]
  BY <1>1, Apart
<1>3. sub[t.child[n][d]] \subseteq sub[n]
  BY DEF Shape
<1> QED
  BY <1>1, <1>2, <1>3

\* No node is below itself through another.
LEMMA NoCycle ==
  ASSUME NEW t, NEW N, NEW sub, Shape(t, N, sub), NEW m \in N, NEW n \in sub[m], n # m
  PROVE  n \in N /\ m \notin sub[n] /\ sub[n] \subseteq sub[m]
<1>1. PICK d \in Dir : n \in sub[t.child[m][d]]
  BY OppositeIs DEF Shape, Dir
<1>2. t.child[m][d] \in N
  BY <1>1 DEF Shape
<1>3. sub[n] \subseteq sub[t.child[m][d]] /\ m \notin sub[t.child[m][d]]
  BY <1>1, <1>2, Nested, Apart
<1>4. n \in N
  <2>1. m \in Node
    BY NilIs DEF Shape
  <2> QED
    BY <2>1 DEF Shape
<1>5. sub[n] \subseteq sub[m]
  BY Nested
<1> QED
  BY <1>3, <1>4, <1>5

-----------------------------------------------------------------------------
(* Rotations. *)

\* The subtrees after x is rotated below its child y, and gets the child i of y.
Turned(sub, t, x, d, y, i) ==
  [sub EXCEPT ![y] = sub[x], ![x] = {x} \cup sub[t.child[x][d]] \cup sub[i]]

\* The children after that, and the colors, which are as before.
Relinked(r, t, N, x, d, y, i) ==
  /\ r.child[x][d] = t.child[x][d] /\ r.child[x][Opposite(d)] = i
  /\ r.child[y][d] = x /\ r.child[y][Opposite(d)] = t.child[y][Opposite(d)]
  /\ \A n \in N \ {x, y}, e \in Dir :
       \/ t.child[n][e] = x /\ r.child[n][e] = y
       \/ t.child[n][e] \notin {x, y} /\ r.child[n][e] = t.child[n][e]
  /\ r.color = t.color

\* What RotateShape assumes.
RotateHyp(t, N, sub, x, d, y, i) ==
  /\ Shape(t, N, sub)
  /\ y = t.child[x][Opposite(d)]
  /\ y # nil
  /\ i = t.child[y][d]

\* The rotation lemma below, from one named assumption: the leaves see only the parts
\* of it they cite.
LEMMA RotateShapeCore ==
  ASSUME NEW t, NEW N, NEW sub, NEW x \in N, NEW d \in Dir, NEW y, NEW i,
         RotateHyp(t, N, sub, x, d, y, i)
  PROVE  /\ y \in N /\ i \in N \cup {nil} /\ i \notin {x, y} /\ x # y
         /\ t.child[x][d] \in N \cup {nil} /\ t.child[x][d] \notin {x, y}
         /\ t.child[y][Opposite(d)] \in N \cup {nil}
         /\ t.child[y][Opposite(d)] \notin {x, y}
         /\ Rotated(rb_node_rotate(t, x, d), t, x, d, y, i)
         /\ Relinked(rb_node_rotate(t, x, d), t, N, x, d, y, i)
         /\ Shape(rb_node_rotate(t, x, d), N, Turned(sub, t, x, d, y, i))
<1>s. Shape(t, N, sub)
  BY DEF RotateHyp
<1>e. y = t.child[x][Opposite(d)] /\ y # nil /\ i = t.child[y][d]
  BY DEF RotateHyp
<1> DEFINE o == Opposite(d)
           p == t.parent[x]
           r == rb_node_rotate(t, x, d)
           s == Turned(sub, t, x, d, y, i)
<1>1. /\ o \in Dir /\ Opposite(o) = d /\ d # o /\ \A e \in Dir : e = d \/ e = o
      /\ N \subseteq Key /\ nil \notin N /\ N \subseteq Node /\ nil \in Node /\ t \in Trees
  BY <1>s, OppositeIs, NilIs DEF Shape
<1>2. /\ y \in N /\ i \in N \cup {nil} /\ t.child[x][d] \in N \cup {nil}
      /\ t.child[y][o] \in N \cup {nil}
  BY <1>e, <1>s, <1>1 DEF Shape
<1>3. /\ x \in sub[x] /\ y \in sub[y] /\ x \notin sub[y] /\ y \notin sub[t.child[x][d]]
      /\ y \notin sub[i] /\ y \notin sub[t.child[y][o]] /\ x \notin sub[t.child[x][d]]
      /\ x # y
  <2>1. /\ x \in sub[x] /\ x \notin sub[t.child[x][d]] /\ x \notin sub[t.child[x][o]]
        /\ sub[t.child[x][d]] \cap sub[t.child[x][o]] = {} /\ x # t.child[x][o]
    BY <1>s, <1>1, Apart
  <2>2. /\ y \in sub[y] /\ y \notin sub[t.child[y][d]] /\ y \notin sub[t.child[y][o]]
    BY <1>s, <1>1, <1>2, Apart
  <2> QED
    BY <1>e, <2>1, <2>2, Zenon
<1>4. /\ sub[x] = {x} \cup sub[t.child[x][d]] \cup sub[y]
      /\ sub[y] = {y} \cup sub[i] \cup sub[t.child[y][o]]
  BY <1>e, <1>s, <1>1, <1>2, Zenon DEF Shape
<1>5. \A n \in N : n \in sub[n]
  BY <1>s, <1>e, Apart, <1>1
<1>6. i \notin {x, y} /\ t.child[x][d] \notin {x, y} /\ t.child[y][o] \notin {x, y}
  BY <1>3, <1>4, <1>5, <1>2, Zenon
<1>7. /\ x # t.root => p \in N /\ x \in sub[p]
      /\ x = t.root => p = nil
  BY <1>s, <1>1, OppositeIs, <1>5 DEF Shape
<1>8. p \notin {x, y}
  <2>1. p # x
    BY <1>s, Apart
  <2> QED
    BY <1>1, <1>2, <1>3, <1>7, <2>1, Zenon
<1>9. Rotated(r, t, x, d, y, i)
  BY <1>s, <1>e, <1>1, <1>2, <1>6, <1>3, <1>8, RotateIs
<1> HIDE DEF r
<1>10. /\ s \in [Node -> SUBSET N] /\ s[x] = {x} \cup sub[t.child[x][d]] \cup sub[i]
       /\ s[y] = sub[x] /\ \A n \in Node : n \notin {x, y} => s[n] = sub[n]
  <2>1. sub \in [Node -> SUBSET N]
    BY <1>s DEF Shape
  <2>2. x \in Node /\ y \in Node /\ i \in Node /\ t.child[x][d] \in Node
    BY <1>1, <1>2
  <2> QED
    BY <2>1, <2>2, <1>3, Zenon DEF Turned
<1> HIDE DEF s
<1>11. p # nil => child_dir(t, x) \in Dir /\ t.child[p][child_dir(t, x)] = x
  BY <1>s, <1>e, <1>7, ChildDirIs
<1>12. \A n \in N, e \in Dir :
         /\ t.child[n][e] \in N \cup {nil}
         /\ t.child[n][e] # nil => t.parent[t.child[n][e]] = n
         /\ t.child[n][e] = x => p # nil /\ n = p /\ e = child_dir(t, x)
         /\ t.child[n][e] = y => n = x
  <2> TAKE n \in N, e \in Dir
  <2>1. t.child[n][e] \in N \cup {nil} /\ (t.child[n][e] # nil => t.parent[t.child[n][e]] = n)
    BY <1>s DEF Shape
  <2>2. t.child[n][e] = x => x # t.root
    BY <2>1, <1>7, <1>1
  <2>3. t.child[n][e] = x => e = child_dir(t, x)
    <3> SUFFICES ASSUME t.child[n][e] = x PROVE e = child_dir(t, x)
      OBVIOUS
    <3>1. p = n /\ x # t.root
      BY <2>1, <2>2, <1>1
    <3>2. child_dir(t, x) \in Dir /\ t.child[n][Opposite(child_dir(t, x))] # x
      BY <1>s, <1>e, <3>1, ChildDirIs
    <3>3. e = child_dir(t, x) \/ e = Opposite(child_dir(t, x))
      BY <3>2, OppositeIs
    <3> QED
      BY <3>2, <3>3
  <2>4. t.parent[y] = x
    BY <1>e, <1>s, <1>1 DEF Shape
  <2> QED
    BY <1>e, <2>1, <2>2, <2>3, <2>4, <1>1, <1>7
<1>13. \A n \in N, e \in Dir :
         n \notin {x, y} => /\ s[n] = sub[n] /\ s[r.child[n][e]] = sub[t.child[n][e]]
                            /\ r.child[n][e] \in N \cup {nil}
  <2> SUFFICES ASSUME NEW n \in N, NEW e \in Dir, n \notin {x, y}
      PROVE /\ s[n] = sub[n] /\ s[r.child[n][e]] = sub[t.child[n][e]]
            /\ r.child[n][e] \in N \cup {nil}
    OBVIOUS
  <2>1. s[n] = sub[n]
    BY <1>10, <1>1
  <2>2. CASE t.child[n][e] = x
    <3>1. r.child[n][e] = y
      BY <1>9, <1>12, <2>2, <1>1 DEF Rotated
    <3> QED
      BY <2>1, <3>1, <1>10, <2>2, <1>2
  <2>3. CASE t.child[n][e] # x
    <3>1. r.child[n][e] = t.child[n][e]
      BY <1>9, <1>11, <2>3, <1>1 DEF Rotated
    <3>2. t.child[n][e] \in N \cup {nil} /\ t.child[n][e] # y
      BY <1>12
    <3> QED
      BY <2>1, <3>1, <3>2, <1>10, <2>3, <1>1
  <2> QED
    BY <2>2, <2>3
<1>14. /\ r.child[x][d] = t.child[x][d] /\ r.child[x][o] = i
       /\ r.child[y][d] = x /\ r.child[y][o] = t.child[y][o]
  BY <1>e, <1>1, <1>2, <1>3, <1>9, Zenon DEF Rotated
<1>15. /\ s[r.child[x][d]] = sub[t.child[x][d]] /\ s[r.child[x][o]] = sub[i]
       /\ s[r.child[y][d]] = s[x] /\ s[r.child[y][o]] = sub[t.child[y][o]]
  <2>1. /\ t.child[x][d] \in Node /\ i \in Node /\ t.child[y][o] \in Node
    BY <1>1, <1>2, Zenon
  <2>2. /\ s[t.child[x][d]] = sub[t.child[x][d]] /\ s[i] = sub[i]
        /\ s[t.child[y][o]] = sub[t.child[y][o]]
    BY <1>6, <1>10, <2>1, Zenon
  <2> QED
    BY <1>14, <2>2, Zenon
<1>16. r \in Trees /\ N \in SUBSET Key /\ IsFiniteSet(N) /\ s \in [Node -> SUBSET N] /\ s[nil] = {}
  BY <1>s, <1>1, <1>2, <1>9, <1>10 DEF Shape, Rotated
<1>17. /\ r.root \in N \cup {nil} /\ s[r.root] = N
       /\ r.root # nil => r.parent[r.root] = nil
  <2>1. CASE x = t.root
    <3>1. p = nil /\ sub[x] = N
      BY <1>s, <2>1, <1>7 DEF Shape
    <3>2. r.root = y /\ r.parent[y] = nil
      BY <3>1, <1>1, <1>2, <1>3, <1>9 DEF Rotated
    <3> QED
      BY <3>1, <3>2, <1>2, <1>10
  <2>2. CASE x # t.root
    <3>1. r.root = t.root /\ t.root \in N
      BY <1>s, <2>2, <1>1, <1>5, <1>7, <1>9 DEF Rotated, Shape
    <3>2. t.parent[t.root] = nil
      BY <1>s, <3>1, <1>1 DEF Shape
    <3>3. t.root # y /\ t.root # i
      BY <1>e, <1>s, <3>1, <3>2, <1>1, <1>2 DEF Shape
    <3> QED
      BY <1>s, <1>1, <1>9, <1>10, <2>2, <3>1, <3>2, <3>3 DEF Rotated, Shape
  <2> QED
    BY <2>1, <2>2
<1>18. \A n \in N, e \in Dir :
         /\ r.child[n][e] \in N \cup {nil}
         /\ r.child[n][e] # nil => r.parent[r.child[n][e]] = n
  <2> TAKE n \in N, e \in Dir
  <2>1. CASE n = x
    BY <2>1, <1>1, <1>2, <1>6, <1>9, <1>12, <1>14 DEF Rotated
  <2>2. CASE n = y
    <3>1. t.child[y][o] # i \/ i = nil
      BY <1>s, <1>e, <1>1, <1>2, Apart
    <3>2. t.child[y][o] # nil => t.parent[t.child[y][o]] = y
      BY <1>12, <1>1, <1>2
    <3>3. e = d => r.child[n][e] \in N \cup {nil} /\ r.parent[r.child[n][e]] = n
      BY <2>2, <1>1, <1>9, <1>14 DEF Rotated
    <3>4. t.child[y][o] # nil => r.parent[t.child[y][o]] = t.parent[t.child[y][o]]
      BY <3>1, <1>1, <1>2, <1>6, <1>9 DEF Rotated
    <3>5. e = o => r.child[n][e] = t.child[y][o]
      BY <2>2, <1>14
    <3> QED
      BY <2>2, <3>2, <3>3, <3>4, <3>5, <1>1, <1>2
  <2>3. CASE n \notin {x, y}
    <3>1. CASE t.child[n][e] = x
      <4>1. p # nil /\ n = p /\ e = child_dir(t, x)
        BY <3>1, <1>12
      <4>2. r.child[n][e] = y
        BY <4>1, <2>3, <1>1, <1>9 DEF Rotated
      <4>3. r.parent[y] = p
        BY <1>1, <1>2, <1>3, <1>9 DEF Rotated
      <4> QED
        BY <4>1, <4>2, <4>3, <1>2
    <3>2. CASE t.child[n][e] # x
      <4>1. r.child[n][e] = t.child[n][e]
        BY <1>9, <1>11, <2>3, <3>2, <1>1 DEF Rotated
      <4>2. t.child[n][e] # i \/ i = nil
        BY <1>e, <1>12, <1>1, <1>2, <2>3
      <4> QED
        BY <4>1, <4>2, <1>1, <1>9, <1>12, <2>3, <3>2 DEF Rotated
    <3> QED
      BY <3>1, <3>2
  <2> QED
    BY <2>1, <2>2, <2>3
<1>19. \A n \in N : n # r.root => r.parent[n] \in N /\ \E e \in Dir : r.child[r.parent[n]][e] = n
  <2> SUFFICES ASSUME NEW n \in N, n # r.root
      PROVE r.parent[n] \in N /\ \E e \in Dir : r.child[r.parent[n]][e] = n
    OBVIOUS
  <2>1. CASE n = x
    BY <2>1, <1>1, <1>2, <1>9, <1>14 DEF Rotated
  <2>2. CASE n = y
    <3>1. x # t.root
      BY <2>2, <1>7, <1>9 DEF Rotated
    <3>2. r.parent[n] = p
      BY <2>2, <1>1, <1>2, <1>3, <1>9 DEF Rotated
    <3>3. r.child[p][child_dir(t, x)] = y
      BY <3>1, <1>1, <1>7, <1>8, <1>9, <1>11 DEF Rotated
    <3> QED
      BY <3>1, <3>2, <3>3, <2>2, <1>7, <1>11, <1>1
  <2>3. CASE n \notin {x, y} /\ n = i
    <3>1. r.parent[n] = x
      BY <2>3, <1>1, <1>9 DEF Rotated
    <3> QED
      BY <2>3, <3>1, <1>1, <1>14
  <2>4. CASE n \notin {x, y, i}
    <3>1. r.parent[n] = t.parent[n]
      BY <2>4, <1>1, <1>9 DEF Rotated
    <3>2. n # t.root
      BY <1>s, <2>4, <1>7, <1>9, <1>1 DEF Rotated, Shape
    <3>3. PICK e \in Dir : t.parent[n] \in N /\ t.child[t.parent[n]][e] = n
      BY <1>s, <3>2 DEF Shape
    <3>4. r.child[t.parent[n]][e] = n
      <4>1. CASE t.parent[n] = x
        <5>1. e = d
          BY <1>e, <4>1, <3>3, <2>4, <1>1
        <5> QED
          BY <5>1, <4>1, <3>3, <1>14
      <4>2. CASE t.parent[n] = y
        <5>1. e = o
          BY <1>e, <4>2, <3>3, <2>4, <1>1
        <5> QED
          BY <5>1, <4>2, <3>3, <1>14
      <4>3. CASE t.parent[n] \notin {x, y}
        BY <4>3, <3>3, <2>4, <1>1, <1>9, <1>11 DEF Rotated
      <4> QED
        BY <4>1, <4>2, <4>3
    <3> QED
      BY <3>1, <3>3, <3>4
  <2> QED
    BY <2>1, <2>2, <2>3, <2>4
<1>20. \A n \in N, e \in Dir : s[n] = {n} \cup s[r.child[n][e]] \cup s[r.child[n][Opposite(e)]]
  <2> TAKE n \in N, e \in Dir
  <2>0. Opposite(e) \in Dir /\ {e, Opposite(e)} = {d, o}
    BY OppositeIs
  <2>1. CASE n = x
    <3>1. s[x] = {x} \cup s[r.child[x][d]] \cup s[r.child[x][o]]
      BY <1>10, <1>15, Zenon
    <3> QED
      BY <2>1, <2>0, <3>1, <1>1
  <2>2. CASE n = y
    <3>1. s[y] = {y} \cup s[r.child[y][d]] \cup s[r.child[y][o]]
      BY <1>4, <1>10, <1>15, Zenon
    <3> QED
      BY <2>2, <2>0, <3>1, <1>1
  <2>3. CASE n \notin {x, y}
    <3>1. sub[n] = {n} \cup sub[t.child[n][e]] \cup sub[t.child[n][Opposite(e)]]
      BY <1>s DEF Shape
    <3> QED
      BY <2>0, <2>3, <3>1, <1>13
  <2> QED
    BY <2>1, <2>2, <2>3
<1>21. \A n \in N, e \in Dir : \A m \in s[r.child[n][e]] : Side(e, m, n)
  <2>0. /\ \A n \in N, e \in Dir : \A m \in sub[t.child[n][e]] : Side(e, m, n)
        /\ \A n \in Node : sub[n] \subseteq Key
    BY <1>s, <1>1 DEF Shape
  <2> TAKE n \in N, e \in Dir
  <2>1. CASE n = x
    <3>1. e = d => \A m \in s[r.child[n][e]] : Side(e, m, n)
      BY <2>0, <2>1, <1>1, <1>15
    <3>2. e = o => \A m \in s[r.child[n][e]] : Side(e, m, n)
      BY <1>e, <2>0, <2>1, <1>1, <1>4, <1>15, Zenon
    <3> QED
      BY <3>1, <3>2, <1>1
  <2>2. CASE n = y
    <3>1. Side(d, x, y)
      BY <1>e, <2>0, <1>1, <1>2, <1>3, SidesDiffer
    <3>2. \A m \in sub[t.child[x][d]] : Side(d, m, y)
      <4>1. \A m \in sub[t.child[x][d]] : Side(d, m, x) /\ m \in Key
        BY <2>0, <1>1, <1>2
      <4> QED
        BY <4>1, <3>1, <1>1, <1>2, SidesDiffer
    <3>3. e = d => \A m \in s[r.child[n][e]] : Side(e, m, n)
      <4>1. s[r.child[y][d]] = {x} \cup sub[t.child[x][d]] \cup sub[i]
        BY <1>10, <1>15, Zenon
      <4>2. \A m \in sub[i] : Side(d, m, y)
        BY <2>0, <1>2, <1>e, Zenon
      <4>3. \A m \in s[r.child[y][d]] : Side(d, m, y)
        BY <3>1, <3>2, <4>1, <4>2, Zenon
      <4> QED
        BY <2>2, <4>3, Zenon
    <3>4. e = o => \A m \in s[r.child[n][e]] : Side(e, m, n)
      BY <2>0, <2>2, <1>1, <1>2, <1>15
    <3> QED
      BY <3>3, <3>4, <1>1
  <2>3. CASE n \notin {x, y}
    BY <2>0, <2>3, <1>13
  <2> QED
    BY <2>1, <2>2, <2>3
<1>22. Shape(r, N, s)
  BY <1>s, <1>16, <1>17, <1>18, <1>19, <1>20, <1>21 DEF Shape
<1>23. ASSUME NEW n \in N \ {x, y}, NEW e \in Dir
       PROVE  \/ t.child[n][e] = x /\ r.child[n][e] = y
              \/ t.child[n][e] \notin {x, y} /\ r.child[n][e] = t.child[n][e]
  <2>1. CASE t.child[n][e] = x
    BY <1>9, <1>12, <2>1, <1>1 DEF Rotated
  <2>2. CASE t.child[n][e] # x
    <3>1. r.child[n][e] = t.child[n][e]
      BY <1>9, <1>11, <2>2, <1>1 DEF Rotated
    <3> QED
      BY <3>1, <2>2, <1>12
  <2> QED
    BY <2>1, <2>2
<1>24. Relinked(r, t, N, x, d, y, i)
  BY <1>9, <1>14, <1>23 DEF Relinked, Rotated
<1> QED
  BY <1>2, <1>3, <1>6, <1>9, <1>22, <1>24, Zenon DEF r, s

\* A rotation keeps the tree a search tree of the same nodes.
LEMMA RotateShape ==
  ASSUME NEW t, NEW N, NEW sub, Shape(t, N, sub), NEW x \in N, NEW d \in Dir,
         NEW y, y = t.child[x][Opposite(d)], y # nil,
         NEW i, i = t.child[y][d]
  PROVE  /\ y \in N /\ i \in N \cup {nil} /\ i \notin {x, y} /\ x # y
         /\ t.child[x][d] \in N \cup {nil} /\ t.child[x][d] \notin {x, y}
         /\ t.child[y][Opposite(d)] \in N \cup {nil}
         /\ t.child[y][Opposite(d)] \notin {x, y}
         /\ Rotated(rb_node_rotate(t, x, d), t, x, d, y, i)
         /\ Relinked(rb_node_rotate(t, x, d), t, N, x, d, y, i)
         /\ Shape(rb_node_rotate(t, x, d), N, Turned(sub, t, x, d, y, i))
<1>1. RotateHyp(t, N, sub, x, d, y, i)
  BY Zenon DEF RotateHyp
<1> QED
  BY <1>1, RotateShapeCore

-----------------------------------------------------------------------------
(* Colors: numbers of black nodes, and red nodes that are neighbors. *)

\* t1 is t with other colors.
Recolored(t1, t) ==
  /\ t1 \in Trees
  /\ t1.root = t.root /\ t1.child = t.child /\ t1.parent = t.parent

\* Colors do not matter to the links.
LEMMA RecoloredShape ==
  ASSUME NEW t, NEW t1, NEW N, NEW sub, Shape(t, N, sub), Recolored(t1, t)
  PROVE  Shape(t1, N, sub)
  BY DEF Recolored, Shape

\* Paint() changes one color.
LEMMA PaintIs ==
  ASSUME NEW t \in Trees, NEW n \in Node, NEW c \in Color
  PROVE  /\ Recolored(Paint(t, n, c), t)
         /\ \A m \in Node : Paint(t, n, c).color[m] = IF m = n THEN c ELSE t.color[m]
  BY DEF Paint, Trees, Recolored

\* What n adds to the number of black nodes.
Weight(t, n) == IF is_black(t, n) THEN 1 ELSE 0

\* What a gap at side d of n adds to it.
Missing(gaps, n, d) == IF <<n, d>> \in gaps THEN 1 ELSE 0

\* From n down there are B[n] black nodes on every path, if one is added on each
\* side of a node that is a gap.
Balanced(t, N, B, gaps) ==
  /\ B \in [Node -> Nat] /\ B[nil] = 0
  /\ \A n \in N, d \in Dir :
       B[n] = B[t.child[n][d]] + Missing(gaps, n, d) + Weight(t, n)

\* A red node has black children, but for those in C, and for the nodes in P.
RedsApart(t, N, P, C) ==
  /\ is_black(t, nil)
  /\ \A n \in N, d \in Dir :
       is_red(t, n) /\ is_red(t, t.child[n][d]) => n \in P \/ t.child[n][d] \in C

\* No two reds are neighbors in r that were not in t.
NoNewReds(r, t, N) ==
  /\ is_black(t, nil) => is_black(r, nil)
  /\ \A n \in N, d \in Dir :
       is_red(r, n) /\ is_red(r, r.child[n][d]) =>
         is_red(t, n) /\ r.child[n][d] = t.child[n][d] /\ is_red(t, t.child[n][d])

\* t1 is t with the colors of x, which is black, and y, which is red, exchanged.
Swapped(t1, t, x, y) ==
  /\ is_black(t, x) /\ is_red(t, y)
  /\ Recolored(t1, t)
  /\ \A n \in Node : t1.color[n] = IF n = x THEN "RB_RED"
                                   ELSE IF n = y THEN "RB_BLACK" ELSE t.color[n]

\* The children between which the rotation moves nodes are no gaps.
NoGapThere(gaps, x, y, d) ==
  <<x, Opposite(d)>> \notin gaps /\ \A e \in Dir : <<y, e>> \notin gaps

\* A node is black or red.
LEMMA ColorIs ==
  ASSUME NEW t \in Trees, NEW n \in Node
  PROVE  /\ is_red(t, n) <=> ~is_black(t, n)
         /\ Weight(t, n) \in {0, 1}
  BY DEF Trees, Color, is_red, is_black, Weight

\* The numbers after x and y exchanged their places and colors.
Exchanged(B, x, y) == [B EXCEPT ![x] = B[y], ![y] = B[x]]

\* What SwapAndTurn assumes.
SwapHyp(t, N, sub, x, d, y, i, B, gaps, t1, r) ==
  /\ Shape(t, N, sub)
  /\ y = t.child[x][Opposite(d)]
  /\ y # nil
  /\ i = t.child[y][d]
  /\ Balanced(t, N, B, gaps)
  /\ is_black(t, i)
  /\ is_black(t, t.child[x][d])
  /\ NoGapThere(gaps, x, y, d)
  /\ Swapped(t1, t, x, y)
  /\ r = rb_node_rotate(t1, x, d)

\* The lemma below, from that assumption.
LEMMA SwapAndTurnCore ==
  ASSUME NEW t, NEW N, NEW sub, NEW x \in N, NEW d \in Dir, NEW y, NEW i, NEW B,
         NEW gaps, NEW t1, NEW r, SwapHyp(t, N, sub, x, d, y, i, B, gaps, t1, r)
  PROVE  /\ y \in N /\ i \in N \cup {nil} /\ i \notin {x, y} /\ x # y
         /\ Shape(r, N, Turned(sub, t, x, d, y, i))
         /\ Rotated(r, t1, x, d, y, i)
         /\ Balanced(r, N, Exchanged(B, x, y), gaps)
         /\ NoNewReds(r, t, N)
         /\ r.color = t1.color
<1>s. Shape(t, N, sub)
  BY DEF SwapHyp
<1>e. /\ y = t.child[x][Opposite(d)] /\ y # nil /\ i = t.child[y][d]
  BY DEF SwapHyp
<1>b. Balanced(t, N, B, gaps) /\ NoGapThere(gaps, x, y, d)
  BY DEF SwapHyp
<1>c. is_black(t, i) /\ is_black(t, t.child[x][d])
  BY DEF SwapHyp
<1>t. Swapped(t1, t, x, y)
  BY DEF SwapHyp
<1> DEFINE o == Opposite(d)
           A == Exchanged(B, x, y)
<1>1. /\ o \in Dir /\ Opposite(o) = d /\ d # o /\ \A e \in Dir : e = d \/ e = o
      /\ N \subseteq Key /\ nil \notin N /\ N \subseteq Node /\ nil \in Node
      /\ t \in Trees /\ t1 \in Trees
  BY <1>s, <1>t, OppositeIs, NilIs DEF Shape, Recolored, Swapped
<1>2. Shape(t1, N, sub) /\ t1.child = t.child /\ t1.parent = t.parent
  BY <1>s, <1>t, RecoloredShape DEF Recolored, Swapped
<1>h. /\ Shape(t1, N, sub) /\ y = t1.child[x][Opposite(d)] /\ y # nil /\ i = t1.child[y][d]
      /\ r = rb_node_rotate(t1, x, d)
  BY <1>2, <1>e, Zenon DEF SwapHyp
<1>3. /\ y \in N /\ i \in N \cup {nil} /\ i \notin {x, y} /\ x # y
      /\ Rotated(r, t1, x, d, y, i)
      /\ Relinked(r, t1, N, x, d, y, i)
      /\ Shape(r, N, Turned(sub, t1, x, d, y, i))
  BY <1>h, RotateShape
<1>4. Turned(sub, t1, x, d, y, i) = Turned(sub, t, x, d, y, i)
  BY <1>2 DEF Turned
<1>5. /\ B \in [Node -> Nat] /\ B[nil] = 0
      /\ A \in [Node -> Nat] /\ A[nil] = 0 /\ A[x] = B[y] /\ A[y] = B[x]
      /\ \A n \in Node : n \notin {x, y} => A[n] = B[n]
  BY <1>1, <1>3, <1>b, Zenon DEF Balanced, Exchanged
<1> HIDE DEF A
<1>6. /\ t.child[x][d] \in N \cup {nil} /\ t.child[x][d] \notin {x, y}
      /\ t.child[y][o] \in N \cup {nil} /\ t.child[y][o] \notin {x, y}
      /\ r.child[x][d] = t.child[x][d] /\ r.child[x][o] = i
      /\ r.child[y][d] = x /\ r.child[y][o] = t.child[y][o]
      /\ r.color = t1.color
  <2>1. /\ t1.child[x][d] \in N \cup {nil} /\ t1.child[x][d] \notin {x, y}
        /\ t1.child[y][o] \in N \cup {nil} /\ t1.child[y][o] \notin {x, y}
    BY <1>h, RotateShape
  <2> QED
    BY <1>2, <1>3, <2>1, Zenon DEF Relinked
<1>7. \A n \in N : Weight(r, n) = IF n = x THEN 0 ELSE IF n = y THEN 1 ELSE Weight(t, n)
  <2>1. \A n \in Node : r.color[n] = IF n = x THEN "RB_RED" ELSE IF n = y THEN "RB_BLACK" ELSE t.color[n]
    BY <1>6, <1>t, Zenon DEF Swapped
  <2> QED
    BY <1>1, <2>1, Zenon DEF Weight, is_black
<1>8. Weight(t, x) = 1 /\ Weight(t, y) = 0
  BY <1>t DEF Weight, is_black, is_red, Swapped
<1>9. ASSUME NEW n \in N, NEW e \in Dir
      PROVE  A[n] = A[r.child[n][e]] + Missing(gaps, n, e) + Weight(r, n)
  <2>1. /\ B[x] = B[t.child[x][d]] + Missing(gaps, x, d) + 1
        /\ B[x] = B[y] + 0 + 1
        /\ B[y] = B[i] + 0 + 0
        /\ B[y] = B[t.child[y][o]] + 0 + 0
    <3>1. y \in N /\ Missing(gaps, x, o) = 0 /\ Missing(gaps, y, d) = 0 /\ Missing(gaps, y, o) = 0
      BY <1>1, <1>3, <1>b DEF Missing, NoGapThere
    <3>2. \A m \in N, f \in Dir :
             B[m] = B[t.child[m][f]] + Missing(gaps, m, f) + Weight(t, m)
      BY <1>b DEF Balanced
    <3> QED
      BY <1>1, <1>8, <1>e, <3>1, <3>2
  <2>2. /\ B[x] \in Nat /\ B[y] \in Nat /\ B[i] \in Nat /\ B[t.child[x][d]] \in Nat
        /\ B[t.child[y][o]] \in Nat
        /\ Missing(gaps, x, d) \in {0, 1} /\ Missing(gaps, x, o) = 0
        /\ Missing(gaps, y, o) = 0 /\ Missing(gaps, y, d) = 0
    BY <1>1, <1>3, <1>5, <1>6, <1>b, Zenon DEF Missing, NoGapThere
  <2>6. B[x] = B[y] + 1 /\ B[y] = B[i] /\ B[y] = B[t.child[y][o]]
    <3>1. B[x] = B[y] + 0 + 1 /\ B[y] = B[i] + 0 + 0 /\ B[y] = B[t.child[y][o]] + 0 + 0
      BY <2>1
    <3>2. B[x] \in Nat /\ B[y] \in Nat /\ B[i] \in Nat /\ B[t.child[y][o]] \in Nat
      BY <2>2
    <3>3. B[x] = B[y] + 1
      BY <3>1, <3>2
    <3>4. B[y] = B[i]
      BY <3>1, <3>2
    <3>5. B[y] = B[t.child[y][o]]
      BY <3>1, <3>2
    <3> QED
      BY <3>3, <3>4, <3>5
  <2>7. A[x] = B[y] /\ A[y] = B[x]
    BY <1>5
  <2>3. CASE n = x
    <3>1. A[x] = A[r.child[x][d]] + Missing(gaps, x, d) + Weight(r, x)
      <4>1. r.child[x][d] = t.child[x][d] /\ A[t.child[x][d]] = B[t.child[x][d]]
        BY <1>1, <1>5, <1>6
      <4>2. Weight(r, x) = 0
        BY <1>7
      <4>3. A[x] = A[r.child[x][d]] + Missing(gaps, x, d)
        <5>1. /\ B[x] = B[t.child[x][d]] + Missing(gaps, x, d) + 1 /\ B[x] = B[y] + 1
              /\ B[y] \in Nat /\ B[t.child[x][d]] \in Nat /\ Missing(gaps, x, d) \in {0, 1}
          BY <2>1, <2>2, <2>6, Zenon
        <5>2. B[y] = B[t.child[x][d]] + Missing(gaps, x, d)
          BY <5>1
        <5> QED
          BY <4>1, <2>7, <5>2, Zenon
      <4>4. A[r.child[x][d]] + Missing(gaps, x, d) \in Nat
        BY <2>2, <2>7, <4>3, Zenon
      <4> QED
        BY <4>2, <4>3, <4>4
    <3>2. A[x] = A[r.child[x][o]] + Missing(gaps, x, o) + Weight(r, x)
      <4>1. r.child[x][o] = i /\ A[i] = B[i]
        BY <1>1, <1>3, <1>5, <1>6, Zenon
      <4>2. Weight(r, x) = 0
        BY <1>7
      <4> QED
        BY <2>1, <2>2, <2>6, <2>7, <4>1, <4>2, Zenon
    <3> QED
      BY <3>1, <3>2, <2>3, <1>1
  <2>4. CASE n = y
    <3>1. A[y] = A[r.child[y][d]] + Missing(gaps, y, d) + Weight(r, y)
      <4>1. A[r.child[y][d]] = B[y]
        BY <1>5, <1>6
      <4>2. Weight(r, y) = 1
        BY <1>7, <1>3
      <4>3. B[x] = B[y] + 1 /\ B[y] \in Nat /\ A[y] = B[x]
        BY <2>2, <2>6, <2>7
      <4>4. Missing(gaps, y, d) = 0
        BY <2>2
      <4> QED
        BY <4>1, <4>2, <4>3, <4>4
    <3>2. A[y] = A[r.child[y][o]] + Missing(gaps, y, o) + Weight(r, y)
      <4>1. r.child[y][o] = t.child[y][o] /\ A[t.child[y][o]] = B[t.child[y][o]]
        BY <1>1, <1>5, <1>6
      <4>2. Weight(r, y) = 1
        BY <1>7, <1>3
      <4> QED
        BY <2>1, <2>2, <2>6, <2>7, <4>1, <4>2, Zenon
    <3> QED
      BY <3>1, <3>2, <2>4, <1>1
  <2>5. CASE n \notin {x, y}
    <3>1. A[n] = B[n] /\ Weight(r, n) = Weight(t, n)
      BY <1>1, <1>5, <1>7, <2>5
    <3>2. A[r.child[n][e]] = B[t.child[n][e]]
      <4>1. t.child[n][e] \in Node
        BY <1>1, <1>s DEF Shape
      <4>2. \/ t1.child[n][e] = x /\ r.child[n][e] = y
            \/ t1.child[n][e] \notin {x, y} /\ r.child[n][e] = t1.child[n][e]
        <5>1. n \in N \ {x, y}
          BY <2>5
        <5> QED
          BY <1>3, <5>1, Zenon DEF Relinked
      <4>3. t1.child[n][e] = t.child[n][e]
        BY <1>2
      <4> QED
        BY <1>5, <4>1, <4>2, <4>3, Zenon
    <3> QED
      BY <3>1, <3>2, <1>b DEF Balanced
  <2> QED
    BY <2>3, <2>4, <2>5
<1>10. Balanced(r, N, A, gaps)
  BY <1>5, <1>9 DEF Balanced
<1>11. /\ \A n \in Node : n # x /\ is_red(r, n) => is_red(t, n) /\ n # y
       /\ is_red(t, nil) <=> is_red(r, nil)
       /\ is_black(t, nil) => is_black(r, nil)
  <2>1. \A n \in Node : r.color[n] = IF n = x THEN "RB_RED" ELSE IF n = y THEN "RB_BLACK" ELSE t.color[n]
    BY <1>6, <1>t, Zenon DEF Swapped
  <2>2. nil \in Node /\ nil \notin {x, y}
    BY <1>1, <1>3, NilIs, Zenon
  <2> QED
    BY <2>1, <2>2, Zenon DEF is_red, is_black
<1>12. ASSUME NEW n \in N, NEW e \in Dir, is_red(r, n), is_red(r, r.child[n][e])
       PROVE  is_red(t, n) /\ r.child[n][e] = t.child[n][e] /\ is_red(t, t.child[n][e])
  <2>1. n # x
    <3>1. ~is_red(t, i) /\ ~is_red(t, t.child[x][d])
      BY <1>c DEF is_red, is_black
    <3>2. ~is_red(r, i) /\ ~is_red(r, t.child[x][d])
      BY <3>1, <1>1, <1>3, <1>6, <1>11, Zenon
    <3>3. r.child[x][d] = t.child[x][d] /\ r.child[x][o] = i
      BY <1>6
    <3> QED
      BY <3>2, <3>3, <1>1, <1>12
  <2>2. n # y
    BY <1>1, <1>3, <1>11, <1>12
  <2>3. /\ t.child[n][e] \in N \cup {nil}
        /\ \/ t.child[n][e] = x /\ r.child[n][e] = y
           \/ t.child[n][e] \notin {x, y} /\ r.child[n][e] = t.child[n][e]
    <3>1. n \in N \ {x, y} /\ t.child[n][e] \in N \cup {nil}
      BY <2>1, <2>2, <1>s DEF Shape
    <3>2. \/ t1.child[n][e] = x /\ r.child[n][e] = y
          \/ t1.child[n][e] \notin {x, y} /\ r.child[n][e] = t1.child[n][e]
      BY <1>3, <3>1, Zenon DEF Relinked
    <3> QED
      BY <1>2, <3>1, <3>2
  <2> QED
    BY <1>1, <1>3, <1>11, <1>12, <2>1, <2>3
<1> QED
  BY <1>3, <1>4, <1>10, <1>11, <1>12, Zenon DEF NoNewReds, Relinked, A

\* x is black and its child y is red; they exchange their colors, and x is rotated
\* below y.
LEMMA SwapAndTurn ==
  ASSUME NEW t, NEW N, NEW sub, Shape(t, N, sub), NEW x \in N, NEW d \in Dir,
         NEW y, y = t.child[x][Opposite(d)], y # nil, NEW i, i = t.child[y][d],
         NEW B, NEW gaps, Balanced(t, N, B, gaps),
         is_black(t, i), is_black(t, t.child[x][d]), NoGapThere(gaps, x, y, d),
         NEW t1, Swapped(t1, t, x, y),
         NEW r, r = rb_node_rotate(t1, x, d)
  PROVE  /\ y \in N /\ i \in N \cup {nil} /\ i \notin {x, y} /\ x # y
         /\ Shape(r, N, Turned(sub, t, x, d, y, i))
         /\ Rotated(r, t1, x, d, y, i)
         /\ Balanced(r, N, Exchanged(B, x, y), gaps)
         /\ NoNewReds(r, t, N)
         /\ r.color = t1.color
<1>1. SwapHyp(t, N, sub, x, d, y, i, B, gaps, t1, r)
  BY Zenon DEF SwapHyp
<1> QED
  BY <1>1, SwapAndTurnCore

\* What TurnReds assumes.
TurnHyp(t, N, sub, x, d, y, i, B, r) ==
  /\ Shape(t, N, sub)
  /\ y = t.child[x][Opposite(d)]
  /\ y # nil
  /\ i = t.child[y][d]
  /\ Balanced(t, N, B, {})
  /\ RedsApart(t, N, {}, {y})
  /\ is_red(t, x)
  /\ is_red(t, y)
  /\ r = rb_node_rotate(t, x, d)

\* The lemma below, from that assumption.
LEMMA TurnRedsCore ==
  ASSUME NEW t, NEW N, NEW sub, NEW x \in N, NEW d \in Dir, NEW y, NEW i, NEW B, NEW r,
         TurnHyp(t, N, sub, x, d, y, i, B, r)
  PROVE  /\ y \in N /\ i \in N \cup {nil} /\ i \notin {x, y} /\ x # y
         /\ Shape(r, N, Turned(sub, t, x, d, y, i))
         /\ Rotated(r, t, x, d, y, i)
         /\ Balanced(r, N, B, {})
         /\ RedsApart(r, N, {}, {x})
         /\ r.color = t.color
<1>0. /\ Shape(t, N, sub)
      /\ y = t.child[x][Opposite(d)]
      /\ y # nil
      /\ i = t.child[y][d]
      /\ Balanced(t, N, B, {})
      /\ RedsApart(t, N, {}, {y})
      /\ is_red(t, x)
      /\ is_red(t, y)
      /\ r = rb_node_rotate(t, x, d)
  BY DEF TurnHyp
<1> DEFINE o == Opposite(d)
<1>1. /\ o \in Dir /\ Opposite(o) = d /\ d # o /\ \A e \in Dir : e = d \/ e = o
      /\ N \subseteq Key /\ nil \notin N /\ N \subseteq Node /\ nil \in Node
      /\ t \in Trees
  BY <1>0, OppositeIs, NilIs DEF Shape
<1>2. /\ y \in N /\ i \in N \cup {nil} /\ i \notin {x, y} /\ x # y
      /\ t.child[x][d] \in N \cup {nil} /\ t.child[x][d] \notin {x, y}
      /\ t.child[y][o] \in N \cup {nil} /\ t.child[y][o] \notin {x, y}
  BY <1>0, RotateShape
<1>3. /\ Rotated(r, t, x, d, y, i)
      /\ Relinked(r, t, N, x, d, y, i)
      /\ Shape(r, N, Turned(sub, t, x, d, y, i))
  BY <1>0, RotateShape
<1>4. /\ r.child[x][d] = t.child[x][d] /\ r.child[x][o] = i
      /\ r.child[y][d] = x /\ r.child[y][o] = t.child[y][o]
      /\ r.color = t.color
      /\ \A n \in N \ {x, y}, e \in Dir :
           \/ t.child[n][e] = x /\ r.child[n][e] = y
           \/ t.child[n][e] \notin {x, y} /\ r.child[n][e] = t.child[n][e]
  BY <1>3 DEF Relinked
<1>5. \A n \in Node : /\ is_red(r, n) <=> is_red(t, n)
                      /\ is_black(r, n) <=> is_black(t, n)
                      /\ Weight(r, n) = Weight(t, n)
  BY <1>4 DEF is_red, is_black, Weight
<1>6. B \in [Node -> Nat] /\ B[nil] = 0
  BY <1>0 DEF Balanced
<1>7. \A n \in N, e \in Dir : B[n] = B[t.child[n][e]] + Weight(t, n)
  <2> TAKE n \in N, e \in Dir
  <2>1. B[n] = B[t.child[n][e]] + 0 + Weight(t, n)
    BY <1>0 DEF Balanced, Missing
  <2>2. t.child[n][e] \in Node /\ Weight(t, n) \in {0, 1}
    BY <1>0, <1>1, ColorIs DEF Shape
  <2>3. B[t.child[n][e]] \in Nat
    BY <1>6, <2>2
  <2> QED
    BY <2>1, <2>2, <2>3
<1>8. B[x] = B[y] /\ B[y] = B[i] /\ B[y] = B[t.child[y][o]] /\ B[x] = B[t.child[x][d]]
  <2>1. Weight(t, x) = 0 /\ Weight(t, y) = 0
    BY <1>0 DEF Weight, is_red, is_black
  <2>2. /\ B[x] = B[y] + 0 /\ B[y] = B[i] + 0 /\ B[y] = B[t.child[y][o]] + 0
        /\ B[x] = B[t.child[x][d]] + 0
    <3>1. y = t.child[x][o] /\ i = t.child[y][d] /\ o \in Dir /\ y \in N
      BY <1>0, <1>1, <1>2, Zenon
    <3> QED
      BY <2>1, <3>1, <1>7, Zenon
  <2>3. B[y] \in Nat /\ B[i] \in Nat /\ B[t.child[y][o]] \in Nat /\ B[t.child[x][d]] \in Nat
    BY <1>1, <1>2, <1>6
  <2> QED
    BY <2>2, <2>3
<1>9. \A n \in N, e \in Dir : B[r.child[n][e]] = B[t.child[n][e]]
  <2> TAKE n \in N, e \in Dir
  <2>1. CASE n = x
    <3>1. e = d => r.child[n][e] = t.child[n][e]
      BY <2>1, <1>4, Zenon
    <3>2. e = o => r.child[n][e] = i /\ t.child[n][e] = y
      BY <2>1, <1>0, <1>4, Zenon
    <3> QED
      BY <3>1, <3>2, <1>1, <1>8, Zenon
  <2>2. CASE n = y
    <3>1. B[r.child[y][d]] = B[t.child[y][d]]
      <4>1. r.child[y][d] = x /\ t.child[y][d] = i
        BY <1>0, <1>4, Zenon
      <4> QED
        BY <4>1, <1>8, Zenon
    <3>2. B[r.child[y][o]] = B[t.child[y][o]]
      BY <1>4
    <3> QED
      BY <3>1, <3>2, <2>2, <1>1
  <2>3. CASE n \notin {x, y}
    BY <1>4, <1>8, <2>3
  <2> QED
    BY <2>1, <2>2, <2>3
<1>10. Balanced(r, N, B, {})
  <2> SUFFICES ASSUME NEW n \in N, NEW e \in Dir
      PROVE B[n] = B[r.child[n][e]] + 0 + Weight(r, n)
    BY <1>6 DEF Balanced, Missing
  <2>1. t.child[n][e] \in Node /\ Weight(t, n) \in {0, 1}
    BY <1>0, <1>1, ColorIs DEF Shape
  <2>2. B[t.child[n][e]] \in Nat
    BY <1>6, <2>1
  <2>3. B[n] = B[r.child[n][e]] + Weight(t, n)
    BY <1>7, <1>9
  <2> QED
    BY <1>1, <1>5, <1>9, <2>1, <2>2, <2>3
<1>11. \A n \in N, e \in Dir : is_red(t, n) /\ is_red(t, t.child[n][e]) => t.child[n][e] = y
  BY <1>0 DEF RedsApart
<1>12. ASSUME NEW n \in N, NEW e \in Dir, is_red(r, n), is_red(r, r.child[n][e])
       PROVE  r.child[n][e] = x
  <2>1. CASE n = x
    <3>1. t.child[n][e] = y \/ ~is_red(t, t.child[n][e])
      BY <1>0, <1>11, <2>1
    <3>2. ~is_red(t, i)
      BY <1>0, <1>1, <1>2, <1>11
    <3> QED
      BY <2>1, <3>1, <3>2, <1>1, <1>2, <1>4, <1>5, <1>12
  <2>2. CASE n = y
    <3>1. t.child[y][o] = y \/ ~is_red(t, t.child[y][o])
      BY <1>0, <1>1, <1>2, <1>11
    <3>2. e = d => r.child[n][e] = x
      BY <2>2, <1>4, Zenon
    <3>3. e = o => ~is_red(t, t.child[y][o])
      <4>1. t.child[y][o] # y
        BY <1>2, Zenon
      <4> QED
        BY <3>1, <4>1, Zenon
    <3>4. e = o => ~is_red(r, r.child[n][e])
      <4>1. r.child[y][o] = t.child[y][o] /\ t.child[y][o] \in Node
        BY <1>1, <1>2, <1>4, Zenon
      <4> QED
        BY <2>2, <3>3, <4>1, <1>5, Zenon
    <3> QED
      BY <3>2, <3>4, <1>1, <1>12, Zenon
  <2>3. CASE n \notin {x, y}
    <3>1. t.child[n][e] \in Node
      BY <1>0, <1>1 DEF Shape
    <3>2. is_red(t, n)
      BY <1>1, <1>5, <1>12
    <3>3. is_red(t, t.child[n][e])
      BY <1>0, <1>4, <1>5, <1>12, <2>3, <3>1
    <3>4. t.child[n][e] = y
      BY <1>11, <3>2, <3>3
    <3> QED
      BY <3>4, <2>3, <1>2, <1>4
  <2> QED
    BY <2>1, <2>2, <2>3
<1>13. RedsApart(r, N, {}, {x})
  BY <1>0, <1>1, <1>5, <1>12 DEF RedsApart
<1> QED
  BY <1>2, <1>3, <1>4, <1>10, <1>13, Zenon

\* A red x is rotated below its red child y, the only red child of a red node: then
\* x is.
LEMMA TurnReds ==
  ASSUME NEW t, NEW N, NEW sub, Shape(t, N, sub), NEW x \in N, NEW d \in Dir,
         NEW y, y = t.child[x][Opposite(d)], y # nil, NEW i, i = t.child[y][d],
         NEW B, Balanced(t, N, B, {}), RedsApart(t, N, {}, {y}),
         is_red(t, x), is_red(t, y),
         NEW r, r = rb_node_rotate(t, x, d)
  PROVE  /\ y \in N /\ i \in N \cup {nil} /\ i \notin {x, y} /\ x # y
         /\ Shape(r, N, Turned(sub, t, x, d, y, i))
         /\ Rotated(r, t, x, d, y, i)
         /\ Balanced(r, N, B, {})
         /\ RedsApart(r, N, {}, {x})
         /\ r.color = t.color
<1>1. TurnHyp(t, N, sub, x, d, y, i, B, r)
  BY Zenon DEF TurnHyp
<1> QED
  BY <1>1, TurnRedsCore


\* t1 is t, but y has the color of x, and x and q are black.
Settled(t1, t, x, y, q) ==
  /\ Recolored(t1, t)
  /\ \A n \in Node : t1.color[n] = IF n = y THEN t.color[x]
                                   ELSE IF n \in {x, q} THEN "RB_BLACK" ELSE t.color[n]

\* What SettleCloses assumes.
SettleHyp(t, N, sub, x, d, y, i, q, B, t1, r) ==
  /\ Shape(t, N, sub)
  /\ y = t.child[x][Opposite(d)]
  /\ y # nil
  /\ i = t.child[y][d]
  /\ q = t.child[y][Opposite(d)]
  /\ Balanced(t, N, B, {<<x, d>>})
  /\ RedsApart(t, N, {}, {})
  /\ is_black(t, y)
  /\ is_red(t, q)
  /\ is_black(t, t.child[x][d])
  /\ is_black(t, t.root)
  /\ Settled(t1, t, x, y, q)
  /\ r = rb_node_rotate(t1, x, d)

\* The lemma below, from that assumption.
LEMMA SettleClosesCore ==
  ASSUME NEW t, NEW N, NEW sub, NEW x \in N, NEW d \in Dir, NEW y, NEW i, NEW q, NEW B,
         NEW t1, NEW r, SettleHyp(t, N, sub, x, d, y, i, q, B, t1, r)
  PROVE  /\ y \in N
         /\ Shape(r, N, Turned(sub, t, x, d, y, i))
         /\ \E A : Balanced(r, N, A, {})
         /\ RedsApart(r, N, {}, {})
         /\ is_black(r, r.root)
<1>s. Shape(t, N, sub)
  BY DEF SettleHyp
<1>e. /\ y = t.child[x][Opposite(d)] /\ y # nil /\ i = t.child[y][d] /\ q = t.child[y][Opposite(d)]
  BY DEF SettleHyp
<1>b. Balanced(t, N, B, {<<x, d>>}) /\ RedsApart(t, N, {}, {})
  BY DEF SettleHyp
<1>c. is_black(t, y) /\ is_red(t, q) /\ is_black(t, t.child[x][d]) /\ is_black(t, t.root)
  BY DEF SettleHyp
<1>t. Settled(t1, t, x, y, q) /\ r = rb_node_rotate(t1, x, d)
  BY DEF SettleHyp
<1> DEFINE o == Opposite(d)
           A == [B EXCEPT ![x] = B[y], ![y] = B[x], ![q] = B[q] + 1]
<1>1. /\ o \in Dir /\ Opposite(o) = d /\ d # o /\ \A e \in Dir : e = d \/ e = o
      /\ N \subseteq Key /\ nil \notin N /\ N \subseteq Node /\ nil \in Node
      /\ t \in Trees
  BY <1>s, OppositeIs, NilIs DEF Shape
<1>2. Shape(t1, N, sub) /\ t1.child = t.child /\ t1.parent = t.parent /\ t1.root = t.root
  BY <1>s, <1>t, RecoloredShape DEF Settled, Recolored
<1>h. /\ Shape(t1, N, sub) /\ y = t1.child[x][Opposite(d)] /\ y # nil /\ i = t1.child[y][d]
      /\ r = rb_node_rotate(t1, x, d)
  BY <1>2, <1>e, <1>t, Zenon
<1>3. /\ y \in N /\ i \in N \cup {nil} /\ i \notin {x, y} /\ x # y
      /\ t.child[x][d] \in N \cup {nil} /\ t.child[x][d] \notin {x, y}
      /\ q \in N \cup {nil} /\ q \notin {x, y}
  <2>1. /\ y \in N /\ i \in N \cup {nil} /\ i \notin {x, y} /\ x # y
        /\ t1.child[x][d] \in N \cup {nil} /\ t1.child[x][d] \notin {x, y}
        /\ t1.child[y][o] \in N \cup {nil} /\ t1.child[y][o] \notin {x, y}
    BY <1>h, RotateShape
  <2> QED
    <3>1. t1.child = t.child /\ q = t.child[y][o]
      BY <1>2, <1>e, Zenon
    <3> QED
      BY <2>1, <3>1, Zenon
<1>4. /\ Rotated(r, t1, x, d, y, i)
      /\ Relinked(r, t1, N, x, d, y, i)
      /\ Shape(r, N, Turned(sub, t1, x, d, y, i))
  BY <1>h, RotateShape
<1>5. Turned(sub, t1, x, d, y, i) = Turned(sub, t, x, d, y, i)
  BY <1>2 DEF Turned
<1>6. /\ r.child[x][d] = t.child[x][d] /\ r.child[x][o] = i
      /\ r.child[y][d] = x /\ r.child[y][o] = q
      /\ r.color = t1.color
      /\ \A n \in N \ {x, y}, e \in Dir :
           \/ t.child[n][e] = x /\ r.child[n][e] = y
           \/ t.child[n][e] \notin {x, y} /\ r.child[n][e] = t.child[n][e]
  <2>1. \A n \in N \ {x, y}, e \in Dir :
           \/ t1.child[n][e] = x /\ r.child[n][e] = y
           \/ t1.child[n][e] \notin {x, y} /\ r.child[n][e] = t1.child[n][e]
    BY <1>4, Zenon DEF Relinked
  <2>2. /\ r.child[x][d] = t1.child[x][d] /\ r.child[x][o] = i
        /\ r.child[y][d] = x /\ r.child[y][o] = t1.child[y][o]
        /\ r.color = t1.color
    BY <1>4, Zenon DEF Relinked
  <2>3. t1.child = t.child
    BY <1>2
  <2>4. ASSUME NEW n \in N \ {x, y}, NEW e \in Dir
        PROVE  \/ t.child[n][e] = x /\ r.child[n][e] = y
               \/ t.child[n][e] \notin {x, y} /\ r.child[n][e] = t.child[n][e]
    BY <2>1, <2>3
  <2> QED
    BY <1>e, <2>2, <2>3, <2>4, Zenon
<1>7. /\ is_black(t, nil) /\ q # nil /\ q \in N
      /\ i # q /\ t.child[x][d] # q
      /\ \A n \in N, e \in Dir : t.child[n][e] = q => n = y /\ e = o
  <2>1. is_black(t, nil) /\ q # nil /\ q \in N
    BY <1>3, <1>b, <1>c DEF RedsApart, is_black, is_red
  <2>2. i # q
    <3>1. /\ y \in N /\ o \in Dir /\ Opposite(o) = d /\ t.child[y][o] = q /\ q # nil
          /\ i = t.child[y][d]
      BY <1>1, <1>3, <1>e, <2>1, Zenon
    <3>2. t.child[y][o] # nil => t.child[y][o] # t.child[y][Opposite(o)]
      BY <3>1, <1>s, Apart
    <3> QED
      BY <3>1, <3>2, Zenon
  <2>3. t.child[x][d] # q
    BY <2>1, <1>c DEF is_black, is_red
  <2>4. \A n \in N, e \in Dir : t.child[n][e] = q => n = y
    <3>1. \A n \in N, e \in Dir : t.child[n][e] # nil => t.parent[t.child[n][e]] = n
      BY <1>s DEF Shape
    <3>2. y \in N /\ o \in Dir /\ q = t.child[y][o] /\ q # nil
      BY <1>1, <1>3, <1>e, <2>1, Zenon
    <3>3. t.parent[q] = y
      BY <3>1, <3>2, Zenon
    <3> QED
      BY <3>1, <3>2, <3>3, Zenon
  <2> QED
    BY <2>1, <2>2, <2>3, <2>4, <1>1, <1>e, <1>s, Zenon
<1>8. \A n \in Node :
        /\ Weight(r, n) = IF n = y THEN Weight(t, x)
                          ELSE IF n \in {x, q} THEN 1 ELSE Weight(t, n)
        /\ is_red(r, n) <=> IF n = y THEN is_red(t, x)
                            ELSE IF n \in {x, q} THEN FALSE ELSE is_red(t, n)
        /\ is_black(r, n) <=> IF n = y THEN is_black(t, x)
                            ELSE IF n \in {x, q} THEN TRUE ELSE is_black(t, n)
  BY <1>6, <1>3, <1>t DEF Settled, Weight, is_black, is_red
<1>9. B \in [Node -> Nat] /\ B[nil] = 0
  BY <1>b DEF Balanced
<1>10. /\ A \in [Node -> Nat] /\ A[nil] = 0 /\ A[x] = B[y] /\ A[y] = B[x] /\ A[q] = B[q] + 1
       /\ \A n \in Node : n \notin {x, y, q} => A[n] = B[n]
  <2>1. B[q] + 1 \in Nat /\ B[x] \in Nat /\ B[y] \in Nat
    BY <1>1, <1>3, <1>7, <1>9
  <2> QED
    BY <2>1, <1>1, <1>3, <1>7, <1>9, Zenon
<1> HIDE DEF A
<1>11. ASSUME NEW n \in N, NEW e \in Dir
       PROVE  /\ B[t.child[n][e]] \in Nat /\ B[n] \in Nat /\ Weight(t, n) \in {0, 1}
              /\ n # x \/ e # d => B[n] = B[t.child[n][e]] + Weight(t, n)
              /\ n = x /\ e = d => B[n] = B[t.child[n][e]] + 1 + Weight(t, n)
  <2>1. B[n] = B[t.child[n][e]] + Missing({<<x, d>>}, n, e) + Weight(t, n)
    BY <1>b DEF Balanced
  <2>2. t.child[n][e] \in Node /\ Weight(t, n) \in {0, 1}
    BY <1>1, <1>s, ColorIs DEF Shape
  <2>3. B[t.child[n][e]] \in Nat /\ B[n] \in Nat
    BY <1>1, <1>9, <2>2
  <2>4. /\ n # x \/ e # d => Missing({<<x, d>>}, n, e) = 0
        /\ n = x /\ e = d => Missing({<<x, d>>}, n, e) = 1
    BY DEF Missing
  <2>5. Missing({<<x, d>>}, n, e) = 0 => B[n] = B[t.child[n][e]] + Weight(t, n)
    BY <2>1, <2>2, <2>3
  <2> QED
    BY <2>1, <2>2, <2>3, <2>4, <2>5
<1>12. /\ Weight(t, y) = 1 /\ Weight(t, q) = 0
  BY <1>c DEF Weight, is_black, is_red
<1>13. /\ B[y] = B[t.child[x][d]] + 1 /\ B[x] = B[y] + Weight(t, x)
       /\ B[y] = B[i] + 1 /\ B[y] = B[q] + 1
       /\ B[t.child[x][d]] \in Nat /\ B[i] \in Nat /\ B[q] \in Nat /\ Weight(t, x) \in {0, 1}
       /\ B[y] \in Nat /\ B[x] \in Nat
  <2>1. /\ B[x] = B[t.child[x][d]] + 1 + Weight(t, x) /\ B[t.child[x][d]] \in Nat
        /\ B[x] \in Nat /\ Weight(t, x) \in {0, 1}
    BY <1>11, <1>b
  <2>2. B[x] = B[y] + Weight(t, x) /\ B[y] \in Nat
    BY <1>11, <1>1, <1>e
  <2>3. B[y] = B[i] + 1 /\ B[i] \in Nat
    <3>1. B[t.child[y][d]] \in Nat /\ B[y] = B[t.child[y][d]] + Weight(t, y)
      BY <1>11, <1>3
    <3> QED
      BY <3>1, <1>12, <1>e, Zenon
  <2>4. B[y] = B[q] + 1 /\ B[q] \in Nat
    <3>1. B[t.child[y][o]] \in Nat /\ B[y] = B[t.child[y][o]] + Weight(t, y)
      BY <1>11, <1>1, <1>3
    <3>2. t.child[y][o] = q
      BY <1>e, Zenon
    <3> QED
      BY <3>1, <3>2, <1>12, Zenon
  <2>5. B[y] = B[t.child[x][d]] + 1
    BY <2>1, <2>2
  <2> QED
    BY <2>1, <2>2, <2>3, <2>4, <2>5, Zenon
<1>14. ASSUME NEW n \in N, NEW e \in Dir
       PROVE  A[n] = A[r.child[n][e]] + 0 + Weight(r, n)
  <2>1. CASE n = x
    <3>1. A[n] = B[y] /\ Weight(r, n) = 1
      BY <2>1, <1>1, <1>3, <1>8, <1>10, Zenon
    <3>2. A[t.child[x][d]] = B[t.child[x][d]] /\ A[i] = B[i]
      BY <1>1, <1>3, <1>7, <1>10, Zenon
    <3>3. A[r.child[n][e]] = B[t.child[x][d]] \/ A[r.child[n][e]] = B[i]
      BY <2>1, <3>2, <1>1, <1>6, Zenon
    <3>4. B[y] = B[t.child[x][d]] + 1 /\ B[t.child[x][d]] \in Nat
      BY <1>13, Zenon
    <3>5. B[y] = B[i] + 1 /\ B[i] \in Nat
      BY <1>13, Zenon
    <3>6. CASE A[r.child[n][e]] = B[t.child[x][d]]
      BY <3>1, <3>4, <3>6
    <3>7. CASE A[r.child[n][e]] = B[i]
      BY <3>1, <3>5, <3>7
    <3> QED
      BY <3>3, <3>6, <3>7
  <2>2. CASE n = y
    <3>1. A[n] = B[x] /\ Weight(r, n) = Weight(t, x)
      BY <2>2, <1>1, <1>3, <1>8, <1>10, Zenon
    <3>2. A[r.child[n][e]] = B[y] \/ A[r.child[n][e]] = B[q] + 1
      BY <2>2, <1>1, <1>6, <1>10, Zenon
    <3>3. A[r.child[n][e]] = B[y]
      BY <3>2, <1>13, Zenon
    <3>4. B[x] = B[y] + Weight(t, x) /\ B[y] \in Nat /\ Weight(t, x) \in {0, 1}
      BY <1>13, Zenon
    <3> QED
      BY <3>1, <3>3, <3>4
  <2>3. CASE n = q
    <3>1. r.child[n][e] = t.child[n][e] /\ t.child[n][e] \in Node
      <4>1. t.child[n][e] # x
        <5>0. o \in Dir /\ y \in N /\ q \in N /\ q # nil /\ q # x /\ nil \notin N
          BY <1>1, <1>3, <1>7, Zenon
        <5>1. y \in sub[x] /\ sub[y] \subseteq sub[x]
          BY <5>0, <1>s, <1>e, ChildBelow
        <5>2. q \in sub[y]
          BY <5>0, <1>s, <1>e, ChildBelow
        <5>3. x \notin sub[q]
          BY <5>0, <5>1, <5>2, <1>s, NoCycle
        <5>4. \A m \in N, c \in Dir : t.child[m][c] # nil => t.child[m][c] \in sub[m]
          BY <1>s, ChildBelow
        <5>5. t.child[q][e] # nil => t.child[q][e] \in sub[q]
          BY <5>0, <5>4, Zenon
        <5> QED
          BY <2>3, <5>0, <5>3, <5>5, Zenon
      <4>2. n \in N \ {x, y}
        BY <2>3, <1>3, <1>7
      <4>3. t.child[n][e] \in Node
        BY <1>1, <1>s DEF Shape
      <4> QED
        BY <4>1, <4>2, <4>3, <1>6
    <3>2. r.child[n][e] \notin {x, y, q}
      <4>1. n \in N \ {x, y}
        BY <2>3, <1>3, <1>7
      <4>2. t.child[n][e] # q
        BY <4>1, <1>7
      <4>3. r.child[n][e] = y \/ t.child[n][e] \notin {x, y}
        BY <4>1, <1>6
      <4>4. y # t.child[n][e]
        BY <4>1, <1>3, <1>6
      <4> QED
        BY <3>1, <4>2, <4>3, <4>4
    <3>3. A[r.child[n][e]] = B[t.child[n][e]]
      BY <3>1, <3>2, <1>10, Zenon
    <3>4. B[q] = B[t.child[n][e]] + 0 /\ B[t.child[n][e]] \in Nat
      BY <2>3, <1>3, <1>7, <1>11, <1>12, Zenon
    <3>5. A[n] = B[q] + 1 /\ Weight(r, n) = 1
      BY <2>3, <1>1, <1>3, <1>7, <1>8, <1>10, Zenon
    <3> QED
      BY <3>3, <3>4, <3>5
  <2>4. CASE n \notin {x, y, q}
    <3>1. A[n] = B[n] /\ Weight(r, n) = Weight(t, n)
      BY <2>4, <1>1, <1>8, <1>10, Zenon
    <3>2. t.child[n][e] \in Node /\ t.child[n][e] # q
      <4>1. t.child[n][e] \in Node
        BY <1>1, <1>s DEF Shape
      <4> QED
        BY <2>4, <4>1, <1>7
    <3>3. A[r.child[n][e]] = B[t.child[n][e]]
      <4>1. n \in N \ {x, y}
        BY <2>4
      <4>2. CASE t.child[n][e] = x /\ r.child[n][e] = y
        BY <4>2, <1>10
      <4>3. CASE t.child[n][e] \notin {x, y} /\ r.child[n][e] = t.child[n][e]
        BY <4>3, <3>2, <1>10, Zenon
      <4> QED
        BY <4>1, <4>2, <4>3, <1>6
    <3>4. B[n] = B[t.child[n][e]] + Weight(t, n) /\ B[t.child[n][e]] \in Nat /\ Weight(t, n) \in {0, 1}
      BY <2>4, <1>11
    <3> QED
      BY <3>1, <3>3, <3>4
  <2> QED
    BY <2>1, <2>2, <2>3, <2>4
<1>15. Balanced(r, N, A, {})
  BY <1>10, <1>14, Zenon DEF Balanced, Missing
<1>16. ASSUME NEW n \in N, NEW e \in Dir, is_red(r, n), is_red(r, r.child[n][e])
       PROVE  FALSE
  <2>0. \A m \in N, c \in Dir : is_red(t, m) => ~is_red(t, t.child[m][c])
    BY <1>b DEF RedsApart
  <2>1. CASE n = x
    BY <2>1, <1>1, <1>3, <1>8, <1>16
  <2>2. CASE n = y
    BY <2>2, <1>1, <1>3, <1>6, <1>7, <1>8, <1>16, Zenon
  <2>3. CASE n \notin {x, y}
    <3>1. is_red(t, n) /\ n # q
      BY <2>3, <1>1, <1>3, <1>7, <1>8, <1>16, Zenon
    <3>2. t.child[n][e] \in Node
      BY <1>1, <1>s DEF Shape
    <3>3. ~is_red(t, t.child[n][e])
      BY <2>0, <3>1
    <3>4. CASE t.child[n][e] = x /\ r.child[n][e] = y
      BY <3>3, <3>4, <1>1, <1>3, <1>8, <1>16
    <3>5. CASE t.child[n][e] \notin {x, y} /\ r.child[n][e] = t.child[n][e]
      BY <3>2, <3>3, <3>5, <1>8, <1>16
    <3> QED
      BY <2>3, <3>4, <3>5, <1>6
  <2> QED
    BY <2>1, <2>2, <2>3
<1>17. RedsApart(r, N, {}, {})
  BY <1>1, <1>3, <1>7, <1>8, <1>16, Zenon DEF RedsApart
<1>18. is_black(r, r.root)
  <2>1. t.root \in N /\ (t.root # x => t.parent[x] # nil) /\ (t.root = x => t.parent[x] = nil)
    <3>1. t.root # nil
      BY <1>1, <1>s DEF Shape
    <3> QED
      BY <3>1, <1>1, <1>s DEF Shape
  <2>2. CASE t.root = x
    BY <2>1, <2>2, <1>c, <1>1, <1>2, <1>3, <1>4, <1>8, Zenon DEF Rotated
  <2>3. CASE t.root # x
    <3>1. r.root = t.root /\ t.root # y
      <4>1. t.parent[y] = x
        <5>1. \A n \in N, e \in Dir : t.child[n][e] # nil => t.parent[t.child[n][e]] = n
          BY <1>s DEF Shape
        <5> QED
          BY <1>1, <1>e, <5>1, Zenon
      <4>2. t.parent[t.root] = nil
        BY <2>1, <1>1, <1>s DEF Shape
      <4>3. t.root # y
        BY <4>1, <4>2, <1>1
      <4>4. r.root = t.root
        BY <2>1, <2>3, <1>2, <1>4 DEF Rotated
      <4> QED
        BY <4>3, <4>4
    <3> QED
      BY <2>1, <2>3, <1>c, <3>1, <1>1, <1>8, Zenon
  <2> QED
    BY <2>2, <2>3
<1> QED
  BY <1>3, <1>4, <1>5, <1>15, <1>17, <1>18, Zenon

\* The last rotation of rb_delete_fixup() closes the gap at side d of x.
LEMMA SettleCloses ==
  ASSUME NEW t, NEW N, NEW sub, Shape(t, N, sub), NEW x \in N, NEW d \in Dir,
         NEW y, y = t.child[x][Opposite(d)], y # nil, NEW i, i = t.child[y][d],
         NEW q, q = t.child[y][Opposite(d)],
         NEW B, Balanced(t, N, B, {<<x, d>>}), RedsApart(t, N, {}, {}),
         is_black(t, y), is_red(t, q), is_black(t, t.child[x][d]),
         is_black(t, t.root),
         NEW t1, Settled(t1, t, x, y, q),
         NEW r, r = rb_node_rotate(t1, x, d)
  PROVE  /\ y \in N
         /\ Shape(r, N, Turned(sub, t, x, d, y, i))
         /\ \E A : Balanced(r, N, A, {})
         /\ RedsApart(r, N, {}, {})
         /\ is_black(r, r.root)
<1>1. SettleHyp(t, N, sub, x, d, y, i, q, B, t1, r)
  BY Zenon DEF SettleHyp
<1> QED
  BY <1>1, SettleClosesCore, Zenon

-----------------------------------------------------------------------------
(* Insertion. *)

\* The node k becomes a leaf below m.
Grown(sub, k, m) ==
  [n \in Node |-> IF n = k THEN {k} ELSE IF m \in sub[n] THEN sub[n] \cup {k} ELSE sub[n]]

\* k may be put below m: it is on the right side of every node above.
FitsBelow(t, N, sub, k, m) ==
  \A n \in N, d \in Dir : m \in sub[t.child[n][d]] => Side(d, k, n)

\* r is t with the red leaf k below m.
Leafed(r, t, k, m) ==
  /\ r \in Trees
  /\ r.root = IF m = nil THEN k ELSE t.root
  /\ \A n \in Node : r.parent[n] = IF n = k THEN m ELSE t.parent[n]
  /\ \A n \in Node : r.color[n] = IF n = k THEN "RB_RED" ELSE t.color[n]
  /\ \A n \in Node, d \in Dir :
       r.child[n][d] = IF n = k THEN nil
                       ELSE IF m # nil /\ n = m /\ d = Toward(k, m) THEN k
                       ELSE t.child[n][d]

\* What WithLeaf() makes of the links.
LEMMA LeafIs ==
  ASSUME NEW t \in Trees, NEW k \in Key, NEW m \in Node, m # k
  PROVE  Leafed(WithLeaf(t, k, m), t, k, m)
<1> DEFINE t1 == [t EXCEPT !.child[k] = [d \in Dir |-> nil], !.parent[k] = m,
                           !.color[k] = "RB_RED"]
<1>1. k \in Node /\ nil \in Node /\ Toward(k, m) \in Dir /\ "RB_RED" \in Color
  BY NilIs DEF Toward, Dir, Color
<1>2. /\ t1 \in Trees /\ t1.root = t.root
      /\ \A n \in Node : t1.parent[n] = IF n = k THEN m ELSE t.parent[n]
      /\ \A n \in Node : t1.color[n] = IF n = k THEN "RB_RED" ELSE t.color[n]
      /\ \A n \in Node, d \in Dir : t1.child[n][d] = IF n = k THEN nil ELSE t.child[n][d]
  BY <1>1 DEF Trees
<1>3. WithLeaf(t, k, m) = IF m = nil THEN [t1 EXCEPT !.root = k]
                          ELSE [t1 EXCEPT !.child[m][Toward(k, m)] = k]
  BY DEF WithLeaf
<1> HIDE DEF t1
<1>4. CASE m = nil
  <2>1. WithLeaf(t, k, m) = [t1 EXCEPT !.root = k]
    BY <1>3, <1>4
  <2>2. /\ [t1 EXCEPT !.root = k] \in Trees /\ [t1 EXCEPT !.root = k].root = k
        /\ [t1 EXCEPT !.root = k].parent = t1.parent
        /\ [t1 EXCEPT !.root = k].child = t1.child
        /\ [t1 EXCEPT !.root = k].color = t1.color
    BY <1>1, <1>2 DEF Trees
  <2> QED
    BY <1>2, <1>4, <2>1, <2>2 DEF Leafed
<1>5. CASE m # nil
  <2> DEFINE r == [t1 EXCEPT !.child[m][Toward(k, m)] = k]
  <2>1. WithLeaf(t, k, m) = r
    BY <1>3, <1>5
  <2>2. /\ r \in Trees /\ r.root = t1.root /\ r.parent = t1.parent /\ r.color = t1.color
        /\ \A n \in Node, d \in Dir :
             r.child[n][d] = IF n = m /\ d = Toward(k, m) THEN k ELSE t1.child[n][d]
    BY <1>1, <1>2 DEF Trees
  <2> HIDE DEF r
  <2> QED
    BY <1>2, <1>5, <2>1, <2>2 DEF Leafed
<1> QED
  BY <1>4, <1>5

\* A leaf put where the search for its datum ended keeps the tree a search tree.
LEMMA LeafShape ==
  ASSUME NEW t, NEW N, NEW sub, Shape(t, N, sub), NEW k \in Key, k \notin N,
         NEW m \in N \cup {nil},
         m = nil => t.root = nil,
         m # nil => t.child[m][Toward(k, m)] = nil,
         FitsBelow(t, N, sub, k, m)
  PROVE  Shape(WithLeaf(t, k, m), N \cup {k}, Grown(sub, k, m))
<1> DEFINE r == WithLeaf(t, k, m)
           M == N \cup {k}
           s == Grown(sub, k, m)
           D == Toward(k, m)
<1>1. /\ N \subseteq Key /\ nil \notin N /\ nil \in Node /\ k \in Node /\ k # nil /\ N \subseteq Node
      /\ m # k /\ m \in Node /\ t \in Trees /\ D \in Dir
  BY NilIs DEF Shape, Toward, Dir
<1>2. /\ r \in Trees
      /\ r.root = IF m = nil THEN k ELSE t.root
      /\ \A n \in Node : r.parent[n] = IF n = k THEN m ELSE t.parent[n]
      /\ \A n \in Node, d \in Dir :
                  r.child[n][d] = IF n = k THEN nil
                                  ELSE IF m # nil /\ n = m /\ d = D THEN k
                                  ELSE t.child[n][d]
  <2>1. Leafed(r, t, k, m)
    BY <1>1, LeafIs
  <2> QED
    BY <2>1 DEF Leafed
<1> HIDE DEF r, D
<1>3. \A n \in Node : s[n] = IF n = k THEN {k} ELSE IF m \in sub[n] THEN sub[n] \cup {k} ELSE sub[n]
  BY DEF Grown
<1>4. s \in [Node -> SUBSET M]
  BY DEF Grown, Shape
<1> HIDE DEF s
<1>5. s[nil] = {} /\ s[k] = {k}
  BY <1>1, <1>3 DEF Shape
<1>6. M \in SUBSET Key /\ IsFiniteSet(M)
  BY <1>1, FS_AddElement DEF Shape
<1>7. m # nil => m \in sub[m]
  BY <1>1, Apart
<1>8. /\ r.root \in M \cup {nil} /\ s[r.root] = M
      /\ r.root # nil => r.parent[r.root] = nil
  <2>1. CASE m = nil
    <3>1. N = {}
      BY <2>1 DEF Shape
    <3> QED
      BY <2>1, <3>1, <1>1, <1>2, <1>5
  <2>2. CASE m # nil
    <3>1. t.root \in N /\ sub[t.root] = N /\ m \in N /\ t.parent[t.root] = nil
      BY <2>2, <1>1 DEF Shape
    <3>2. r.root = t.root /\ r.root # k
      BY <2>2, <3>1, <1>2
    <3>3. s[t.root] = N \cup {k}
      BY <3>1, <3>2, <1>1, <1>3, Zenon
    <3>4. r.parent[t.root] = nil
      BY <3>1, <3>2, <1>1, <1>2, Zenon
    <3> QED
      BY <3>1, <3>2, <3>3, <3>4, Zenon
  <2> QED
    BY <2>1, <2>2
<1>9. \A n \in N, d \in Dir : t.child[n][d] \in N \cup {nil} /\ (t.child[n][d] # nil => t.parent[t.child[n][d]] = n)
  BY DEF Shape
<1>10. \A n \in M, d \in Dir : r.child[n][d] \in M \cup {nil} /\ (r.child[n][d] # nil => r.parent[r.child[n][d]] = n)
  <2> TAKE n \in M, d \in Dir
  <2>1. CASE n = k
    BY <2>1, <1>1, <1>2
  <2>2. CASE n # k /\ m # nil /\ n = m /\ d = D
    BY <2>2, <1>1, <1>2
  <2>3. CASE n # k /\ ~(m # nil /\ n = m /\ d = D)
    <3>1. r.child[n][d] = t.child[n][d] /\ n \in N
      BY <2>3, <1>1, <1>2
    <3> QED
      BY <3>1, <1>1, <1>2, <1>9
  <2> QED
    BY <2>1, <2>2, <2>3
<1>11. \A n \in M : n # r.root => r.parent[n] \in M /\ \E d \in Dir : r.child[r.parent[n]][d] = n
  <2> SUFFICES ASSUME NEW n \in M, n # r.root
      PROVE r.parent[n] \in M /\ \E d \in Dir : r.child[r.parent[n]][d] = n
    OBVIOUS
  <2>1. CASE n = k
    BY <2>1, <1>1, <1>2
  <2>2. CASE n # k
    <3>1. n \in N /\ n # t.root
      <4>1. t.root = n => m # nil
        BY <1>1, <2>2
      <4> QED
        BY <4>1, <2>2, <1>2
    <3>2. PICK d \in Dir : t.parent[n] \in N /\ t.child[t.parent[n]][d] = n
      BY <3>1 DEF Shape
    <3>3. r.parent[n] = t.parent[n]
      BY <2>2, <3>1, <1>1, <1>2
    <3>4. ~(m # nil /\ t.parent[n] = m /\ d = D)
      BY <3>1, <3>2, <1>1 DEF D
    <3>5. r.child[t.parent[n]][d] = n
      BY <3>2, <3>4, <1>1, <1>2
    <3> QED
      BY <3>2, <3>3, <3>5
  <2> QED
    BY <2>1, <2>2
<1>12. \A n \in N, d \in Dir : s[r.child[n][d]] = IF m # nil /\ n = m /\ d = D THEN {k}
                                              ELSE IF m \in sub[t.child[n][d]]
                                              THEN sub[t.child[n][d]] \cup {k} ELSE sub[t.child[n][d]]
  <2> TAKE n \in N, d \in Dir
  <2>1. t.child[n][d] \in Node /\ t.child[n][d] # k
    BY <1>1, <1>9
  <2>2. CASE m # nil /\ n = m /\ d = D
    BY <2>2, <1>1, <1>2, <1>5
  <2>3. CASE ~(m # nil /\ n = m /\ d = D)
    <3>1. r.child[n][d] = t.child[n][d]
      BY <2>3, <1>1, <1>2
    <3> QED
      BY <2>1, <2>3, <3>1, <1>3
  <2> QED
    BY <2>2, <2>3
<1>13. m # nil => m \in N /\ sub[t.child[m][D]] = {} /\ m \notin sub[t.child[m][Opposite(D)]]
  <2> SUFFICES ASSUME m # nil PROVE m \in N /\ sub[t.child[m][D]] = {} /\ m \notin sub[t.child[m][Opposite(D)]]
    OBVIOUS
  <2>1. m \in N /\ t.child[m][D] = nil /\ sub[nil] = {} /\ Opposite(D) \in Dir
    BY <1>1, OppositeIs DEF Shape, D
  <2> QED
    BY <2>1, Apart
<1>14. \A n \in M, d \in Dir : s[n] = {n} \cup s[r.child[n][d]] \cup s[r.child[n][Opposite(d)]]
  <2> TAKE n \in M, d \in Dir
  <2>0. Opposite(d) \in Dir
    BY OppositeIs
  <2>1. CASE n = k
    BY <2>0, <2>1, <1>1, <1>2, <1>5
  <2>2. CASE n # k
    <3>0. n \in N
      BY <2>2
    <3>1. sub[n] = {n} \cup sub[t.child[n][d]] \cup sub[t.child[n][Opposite(d)]]
      BY <3>0 DEF Shape
    <3>2. s[n] = IF m \in sub[n] THEN sub[n] \cup {k} ELSE sub[n]
      BY <2>2, <1>1, <1>3, <3>0
    <3>3. CASE n = m
      <4>1. s[n] = sub[n] \cup {k}
        BY <3>0, <3>2, <3>3, <1>1, <1>7
      <4>2. D = d \/ D = Opposite(d)
        BY <1>1, OppositeIs
      <4>3. CASE D = d
        <5>1. s[r.child[n][d]] = {k}
          BY <4>3, <3>0, <3>3, <1>1, <1>12
        <5>2. s[r.child[n][Opposite(d)]] = sub[t.child[n][Opposite(d)]]
          BY <4>3, <3>0, <3>3, <1>1, <1>12, <1>13, <2>0, OppositeIs
        <5>3. sub[t.child[n][d]] = {}
          BY <4>3, <3>0, <3>3, <1>1, <1>13
        <5> QED
          BY <3>1, <4>1, <5>1, <5>2, <5>3
      <4>4. CASE D = Opposite(d)
        <5>0. d = Opposite(D) /\ d # D
          BY <4>4, OppositeIs
        <5>1. s[r.child[n][Opposite(d)]] = {k}
          BY <4>4, <3>0, <3>3, <1>1, <1>12
        <5>2. s[r.child[n][d]] = sub[t.child[n][d]]
          BY <5>0, <3>0, <3>3, <1>1, <1>12, <1>13, <2>0
        <5>3. sub[t.child[n][Opposite(d)]] = {}
          BY <4>4, <3>0, <3>3, <1>1, <1>13
        <5> QED
          BY <3>1, <4>1, <5>1, <5>2, <5>3
      <4> QED
        BY <4>2, <4>3, <4>4
    <3>4. CASE n # m
      <4>1. /\ s[r.child[n][d]] = IF m \in sub[t.child[n][d]]
                                  THEN sub[t.child[n][d]] \cup {k} ELSE sub[t.child[n][d]]
            /\ s[r.child[n][Opposite(d)]] = IF m \in sub[t.child[n][Opposite(d)]]
                THEN sub[t.child[n][Opposite(d)]] \cup {k} ELSE sub[t.child[n][Opposite(d)]]
        BY <2>0, <3>0, <3>4, <1>12
      <4> QED
        BY <3>1, <3>2, <3>4, <4>1, Zenon
    <3> QED
      BY <3>3, <3>4
  <2> QED
    BY <2>1, <2>2
<1>15. m # nil => Side(D, k, m)
  <2>1. m # nil => m \in Int /\ k \in Int /\ k # m
    BY <1>1, NilIs
  <2> QED
    BY <2>1 DEF Side, D, Toward, RB_L, RB_R
<1>16. \A n \in M, d \in Dir : \A c \in s[r.child[n][d]] : Side(d, c, n)
  <2> TAKE n \in M, d \in Dir
  <2>1. CASE n = k
    BY <2>1, <1>1, <1>2, <1>5
  <2>2. CASE n # k
    <3>0. n \in N
      BY <2>2
    <3>1. \A c \in sub[t.child[n][d]] : Side(d, c, n)
      BY <3>0 DEF Shape
    <3>2. m \in sub[t.child[n][d]] => Side(d, k, n)
      BY <3>0 DEF FitsBelow
    <3>3. CASE m # nil /\ n = m /\ d = D
      <4>1. s[r.child[n][d]] = {k}
        BY <3>0, <3>3, <1>12, Zenon
      <4> QED
        BY <3>3, <4>1, <1>15, Zenon
    <3>4. CASE ~(m # nil /\ n = m /\ d = D)
      <4>1. s[r.child[n][d]] = IF m \in sub[t.child[n][d]]
                               THEN sub[t.child[n][d]] \cup {k} ELSE sub[t.child[n][d]]
        BY <3>0, <3>4, <1>12, Zenon
      <4> QED
        BY <3>1, <3>2, <4>1, Zenon
    <3> QED
      BY <3>3, <3>4, Zenon
  <2> QED
    BY <2>1, <2>2
<1>17. s[r.root] = M
  BY <1>8
<1> HIDE DEF M
<1>18. Shape(r, M, s)
  BY <1>2, <1>4, <1>5, <1>6, <1>8, <1>10, <1>11, <1>14, <1>16 DEF Shape
<1> QED
  BY <1>18 DEF r, s, M

\* The leaf is red: every path has the black nodes it had, and only the leaf may be a
\* red child of a red node.
LEMMA LeafColors ==
  ASSUME NEW t, NEW N, NEW sub, Shape(t, N, sub), NEW k \in Key, k \notin N,
         NEW m \in N \cup {nil},
         m = nil => t.root = nil,
         m # nil => t.child[m][Toward(k, m)] = nil,
         NEW B, Balanced(t, N, B, {}), RedsApart(t, N, {}, {}), is_black(t, t.root),
         NEW r, r = WithLeaf(t, k, m)
  PROVE  /\ Balanced(r, N \cup {k}, [B EXCEPT ![k] = 0], {})
         /\ RedsApart(r, N \cup {k}, {}, {k})
         /\ is_red(r, k)
         /\ r.root = k \/ is_black(r, r.root)
<1> DEFINE A == [B EXCEPT ![k] = 0]
           D == Toward(k, m)
<1>1. /\ N \subseteq Key /\ nil \notin N /\ nil \in Node /\ k \in Node /\ k # nil /\ N \subseteq Node
      /\ m # k /\ m \in Node /\ t \in Trees
  BY NilIs DEF Shape
<1>2. /\ r \in Trees
      /\ r.root = IF m = nil THEN k ELSE t.root
      /\ \A n \in Node : r.color[n] = IF n = k THEN "RB_RED" ELSE t.color[n]
      /\ \A n \in Node, d \in Dir :
                  r.child[n][d] = IF n = k THEN nil
                                  ELSE IF m # nil /\ n = m /\ d = D THEN k
                                  ELSE t.child[n][d]
  <2>1. Leafed(r, t, k, m)
    BY <1>1, LeafIs
  <2> QED
    BY <2>1 DEF Leafed
<1> HIDE DEF D
<1>3. B \in [Node -> Nat] /\ B[nil] = 0
  BY DEF Balanced
<1>4. A \in [Node -> Nat] /\ A[nil] = 0 /\ A[k] = 0 /\ \A n \in Node : n # k => A[n] = B[n]
  BY <1>1, <1>3
<1> HIDE DEF A
<1>5. \A n \in Node : /\ Weight(r, n) = IF n = k THEN 0 ELSE Weight(t, n)
                      /\ is_black(r, n) <=> n # k /\ is_black(t, n)
                      /\ is_red(r, n) <=> n = k \/ is_red(t, n)
  BY <1>2 DEF Weight, is_black, is_red
<1>6. ASSUME NEW n \in N \cup {k}, NEW d \in Dir
      PROVE  A[n] = A[r.child[n][d]] + 0 + Weight(r, n)
  <2>1. CASE n = k
    <3>1. A[n] = 0 /\ A[r.child[n][d]] = 0 /\ Weight(r, n) = 0
      BY <2>1, <1>1, <1>2, <1>4, <1>5
    <3> QED
      BY <3>1
  <2>2. CASE n # k
    <3>1. n \in N /\ A[n] = B[n] /\ Weight(r, n) = Weight(t, n) /\ t.child[n][d] \in N \cup {nil}
      BY <2>2, <1>1, <1>4, <1>5 DEF Shape
    <3>2. A[r.child[n][d]] = B[t.child[n][d]]
      <4>1. CASE m # nil /\ n = m /\ d = D
        <5>1. t.child[n][d] = nil
          BY <4>1 DEF D
        <5>2. r.child[n][d] = k
          BY <2>2, <3>1, <4>1, <1>1, <1>2
        <5> QED
          BY <5>1, <5>2, <1>3, <1>4
      <4>2. CASE ~(m # nil /\ n = m /\ d = D)
        <5>1. r.child[n][d] = t.child[n][d]
          BY <2>2, <3>1, <4>2, <1>1, <1>2
        <5> QED
          BY <3>1, <5>1, <1>1, <1>4
      <4> QED
        BY <4>1, <4>2
    <3>3. B[n] = B[t.child[n][d]] + 0 + Weight(t, n)
      BY <3>1 DEF Balanced, Missing
    <3> QED
      BY <3>1, <3>2, <3>3
  <2> QED
    BY <2>1, <2>2
<1>7. Balanced(r, N \cup {k}, A, {})
  BY <1>4, <1>6 DEF Balanced, Missing
<1>8. ASSUME NEW n \in N \cup {k}, NEW d \in Dir, is_red(r, n), is_red(r, r.child[n][d])
      PROVE  r.child[n][d] = k
  <2>1. is_black(t, nil) /\ \A x \in N, e \in Dir : ~(is_red(t, x) /\ is_red(t, t.child[x][e]))
    BY DEF RedsApart
  <2>2. CASE n = k
    <3>1. r.child[n][d] = nil /\ is_black(r, nil)
      BY <2>1, <2>2, <1>1, <1>2, <1>5
    <3> QED
      BY <3>1, <1>8 DEF is_red, is_black
  <2>3. CASE n # k /\ r.child[n][d] # k
    <3>1. n \in N /\ r.child[n][d] = t.child[n][d] /\ t.child[n][d] \in Node
      BY <2>3, <1>1, <1>2 DEF Shape
    <3> QED
      BY <2>1, <2>3, <3>1, <1>1, <1>5, <1>8
  <2> QED
    BY <2>2, <2>3
<1>9. is_black(r, nil)
  BY <1>1, <1>5 DEF RedsApart
<1>10. RedsApart(r, N \cup {k}, {}, {k})
  BY <1>8, <1>9 DEF RedsApart
<1>11. r.root = k \/ is_black(r, r.root)
  BY <1>1, <1>2, <1>5 DEF Shape
<1> QED
  BY <1>1, <1>5, <1>7, <1>10, <1>11 DEF A

\* The links and the colors of a tree, where only z may be a red child of a red node.
RedAt(t, N, sub, B, z) ==
  /\ Shape(t, N, sub) /\ Balanced(t, N, B, {}) /\ RedsApart(t, N, {}, {z})
  /\ z \in N /\ is_red(t, z)
  /\ t.root = z \/ is_black(t, t.root)

\* p and g are the parent and the grandparent of z.
Kin(t, z, p, g) == p = t.parent[z] /\ g = t.parent[p]

\* The same, and the red node's parent is red.
LEMMA RedParent ==
  ASSUME NEW t, NEW N, NEW sub, NEW B, NEW z, RedAt(t, N, sub, B, z),
         NEW p, NEW g, Kin(t, z, p, g), is_red(t, p), NEW d, d = child_dir(t, p)
  PROVE  /\ z # t.root /\ p \in N /\ p # t.root /\ g \in N /\ d \in Dir
         /\ t.child[g][d] = p /\ is_black(t, g) /\ z # p /\ g # p /\ g # z
         /\ \E e \in Dir : t.child[p][e] = z
<1>1. Shape(t, N, sub) /\ z \in N /\ is_black(t, nil) /\ nil \notin N /\ N \subseteq Key
  BY NilIs DEF RedAt, RedsApart, Shape
<1>0. p = t.parent[z] /\ g = t.parent[p]
  BY DEF Kin
<1>2. p # nil
  BY <1>1 DEF is_red, is_black
<1>3. z # t.root
  BY <1>0, <1>1, <1>2 DEF Shape
<1>4. p \in N /\ \E e \in Dir : t.child[p][e] = z
  BY <1>0, <1>1, <1>3 DEF Shape
<1>5. p # z
  BY <1>1, OppositeIs, Apart, <1>4
<1>6. p # t.root
  BY <1>3 DEF RedAt, is_red, is_black
<1>7. g \in N /\ d \in Dir /\ t.child[g][d] = p
  BY <1>0, <1>1, <1>4, <1>6, ChildDirIs
<1>8. g # p
  BY <1>1, <1>7, Apart
<1>9. ~is_red(t, g)
  <2>1. is_red(t, g) /\ is_red(t, t.child[g][d]) => t.child[g][d] = z
    BY <1>7 DEF RedAt, RedsApart
  <2> QED
    BY <2>1, <1>5, <1>7
<1>10. is_black(t, g)
  <2>1. g \in Node /\ t \in Trees
    BY <1>1, <1>7, NilIs DEF Shape
  <2> QED
    BY <2>1, <1>9, ColorIs
<1>11. g # z
  BY <1>9 DEF RedAt
<1> QED
  BY <1>3, <1>4, <1>5, <1>6, <1>7, <1>8, <1>10, <1>11

\* u is the uncle of z.
UncleIs(t, p, g, u) == u = t.child[g][Opposite(child_dir(t, p))]

\* The parent p, the uncle u and the grandparent g exchange their colors.
Repainted(t, p, g, u) ==
  [t EXCEPT !.color[p] = "RB_BLACK", !.color[g] = "RB_RED", !.color[u] = "RB_BLACK"]

\* A red uncle: parent, uncle and grandparent change colors, and the grandparent is
\* now the one node that may be a red child of a red node.
LEMMA RecolorKeeps ==
  ASSUME NEW t, NEW N, NEW sub, NEW B, NEW z, RedAt(t, N, sub, B, z),
         NEW p, NEW g, Kin(t, z, p, g), is_red(t, p),
         NEW u, UncleIs(t, p, g, u), is_red(t, u),
         NEW r, r = Repainted(t, p, g, u)
  PROVE  RedAt(r, N, sub, [B EXCEPT ![p] = B[p] + 1, ![u] = B[u] + 1], g)
<1> DEFINE d == child_dir(t, p)
           o == Opposite(d)
           A == [B EXCEPT ![p] = B[p] + 1, ![u] = B[u] + 1]
<1>1. /\ z # t.root /\ p \in N /\ p # t.root /\ g \in N /\ d \in Dir
      /\ t.child[g][d] = p /\ is_black(t, g) /\ z # p /\ g # p /\ g # z
  BY RedParent
<1> HIDE DEF d
<1>2. o \in Dir /\ o # d /\ \A e \in Dir : e = d \/ e = o
  BY <1>1, OppositeIs
<1>3. Shape(t, N, sub) /\ z \in N /\ is_black(t, nil) /\ nil \notin N /\ N \subseteq Node /\ nil \in Node
      /\ t \in Trees
  BY NilIs DEF RedAt, RedsApart, Shape
<1>4. u = t.child[g][o] /\ t.parent[p] = g /\ t.parent[z] = p
  BY DEF d, UncleIs, Kin
<1>5. u \in N /\ u # p /\ u # g
  <2>1. u # nil
    BY <1>3 DEF is_red, is_black
  <2>2. u \in N
    <3>1. t.child[g][o] \in N \cup {nil}
      BY <1>1, <1>2, <1>3, ChildLinks
    <3> QED
      BY <2>1, <3>1, <1>4
  <2>3. p # nil
    BY <1>1, <1>3
  <2>4. t.child[g][d] # t.child[g][o]
    <3>1. t.child[g][d] # nil /\ Shape(t, N, sub) /\ g \in N /\ d \in Dir
      BY <2>3, <1>1, <1>3
    <3> QED
      BY <3>1, Apart
  <2> QED
    BY <2>2, <2>4, <1>1, <1>4 DEF is_red, is_black
<1>6. /\ r \in Trees /\ r.root = t.root /\ r.child = t.child /\ r.parent = t.parent
      /\ \A n \in Node : r.color[n] = IF n \in {p, u} THEN "RB_BLACK"
                                      ELSE IF n = g THEN "RB_RED" ELSE t.color[n]
  <2>1. p \in Node /\ g \in Node /\ u \in Node
    BY <1>1, <1>3, <1>5
  <2> QED
    BY <2>1, <1>1, <1>3, <1>5 DEF Trees, Color, Repainted
<1>7. Shape(r, N, sub)
  BY <1>3, <1>6, RecoloredShape DEF Recolored
<1>8. \A n \in Node : /\ Weight(r, n) = IF n \in {p, u} THEN 1 ELSE IF n = g THEN 0 ELSE Weight(t, n)
                      /\ is_black(r, n) <=> n \in {p, u} \/ (n # g /\ is_black(t, n))
                      /\ is_red(r, n) <=> n \notin {p, u} /\ (n = g \/ is_red(t, n))
  BY <1>1, <1>5, <1>6 DEF Weight, is_black, is_red
<1>9. Weight(t, p) = 0 /\ Weight(t, u) = 0 /\ Weight(t, g) = 1
  BY <1>1 DEF Weight, is_black, is_red
<1>10. B \in [Node -> Nat] /\ B[nil] = 0
  BY DEF RedAt, Balanced
<1>11. /\ A \in [Node -> Nat] /\ A[nil] = 0 /\ A[p] = B[p] + 1 /\ A[u] = B[u] + 1
       /\ \A n \in Node : n \notin {p, u} => A[n] = B[n]
  <2>1. p \in Node /\ u \in Node /\ p # u /\ p # nil /\ u # nil
    BY <1>1, <1>3, <1>5
  <2>2. B[p] + 1 \in Nat /\ B[u] + 1 \in Nat
    <3>1. B[p] \in Nat /\ B[u] \in Nat
      BY <2>1, <1>10
    <3> QED
      BY <3>1
  <2> QED
    BY <2>1, <2>2, <1>3, <1>10
<1> HIDE DEF A
<1>12. \A n \in N, e \in Dir :
         /\ B[n] = B[t.child[n][e]] + 0 + Weight(t, n)
         /\ t.child[n][e] \in Node
         /\ t.child[n][e] \in {p, u} => n = g
  <2> TAKE n \in N, e \in Dir
  <2>1. B[n] = B[t.child[n][e]] + 0 + Weight(t, n)
    BY DEF RedAt, Balanced, Missing
  <2>2. t.child[n][e] \in N \cup {nil} /\ (t.child[n][e] # nil => t.parent[t.child[n][e]] = n)
    BY <1>3 DEF Shape
  <2>3. t.parent[p] = g /\ t.parent[u] = g /\ p # nil /\ u # nil
    <3>1. p # nil /\ u # nil
      BY <1>1, <1>3, <1>5
    <3>2. t.parent[u] = g
      <4>1. t.child[g][o] # nil => t.parent[t.child[g][o]] = g
        BY <1>1, <1>2, <1>3, ChildLinks
      <4> QED
        BY <3>1, <4>1, <1>4
    <3> QED
      BY <3>1, <3>2, <1>4
  <2> QED
    BY <2>1, <2>2, <2>3, <1>3
<1>13. ASSUME NEW n \in N, NEW e \in Dir
       PROVE  A[n] = A[t.child[n][e]] + 0 + Weight(r, n)
  <2>0. B[t.child[n][e]] \in Nat /\ B[n] \in Nat /\ B[n] = B[t.child[n][e]] + 0 + Weight(t, n)
    BY <1>3, <1>10, <1>12
  <2>1. CASE n = g
    <3>1. t.child[n][e] \in {p, u}
      BY <2>1, <1>1, <1>2, <1>4
    <3>2. A[n] = B[n] /\ Weight(r, n) = 0 /\ Weight(t, n) = 1
      BY <2>1, <1>1, <1>3, <1>5, <1>8, <1>9, <1>11
    <3>3. A[t.child[n][e]] = B[t.child[n][e]] + 1
      BY <3>1, <1>11
    <3>4. B[n] = B[t.child[n][e]] + 0 + 1
      BY <2>0, <3>2
    <3>5. B[n] = B[t.child[n][e]] + 1 + 0
      BY <2>0, <3>4
    <3>6. A[n] = A[t.child[n][e]] + 0
      <4>1. A[n] = B[t.child[n][e]] + 1 + 0
        BY <3>2, <3>5
      <4> QED
        BY <3>3, <4>1
    <3> QED
      BY <2>0, <3>2, <3>3, <3>6
  <2>2. CASE n \in {p, u}
    <3>1. A[n] = B[n] + 1 /\ Weight(r, n) = 1 /\ Weight(t, n) = 0
      BY <2>2, <1>3, <1>8, <1>9, <1>11
    <3>2. A[t.child[n][e]] = B[t.child[n][e]]
      BY <2>2, <1>1, <1>5, <1>11, <1>12
    <3>4. B[n] = B[t.child[n][e]] + 0 + 0
      BY <2>0, <3>1
    <3>5. B[n] + 1 = B[t.child[n][e]] + 0 + 1
      BY <2>0, <3>4
    <3>6. A[n] = B[t.child[n][e]] + 0 + 1
      BY <3>1, <3>5
    <3> QED
      BY <3>1, <3>2, <3>6
  <2>3. CASE n \notin {g, p, u}
    <3>1. A[n] = B[n] /\ Weight(r, n) = Weight(t, n)
      BY <2>3, <1>3, <1>8, <1>11
    <3>2. A[t.child[n][e]] = B[t.child[n][e]]
      BY <2>3, <1>11, <1>12
    <3> QED
      BY <2>0, <3>1, <3>2
  <2> QED
    BY <2>1, <2>2, <2>3
<1>14. Balanced(r, N, A, {})
  BY <1>6, <1>11, <1>13 DEF Balanced, Missing
<1>15. ASSUME NEW n \in N, NEW e \in Dir, is_red(r, n), is_red(r, r.child[n][e])
       PROVE  r.child[n][e] = g
  <2>1. n \notin {p, u} /\ t.child[n][e] \notin {p, u} /\ t.child[n][e] \in Node /\ n \in Node
    BY <1>3, <1>6, <1>8, <1>12, <1>15
  <2>2. n # g
    BY <2>1, <1>1, <1>2, <1>4
  <2>3. is_red(t, n) /\ (t.child[n][e] = g \/ is_red(t, t.child[n][e]))
    BY <2>1, <2>2, <1>6, <1>8, <1>15
  <2>4. is_red(t, t.child[n][e]) => t.child[n][e] = z
    BY <2>3 DEF RedAt, RedsApart
  <2>5. t.child[n][e] # z
    <3>1. t.child[n][e] = z => n = p
      BY <1>3, <1>4, ChildLinks
    <3> QED
      BY <3>1, <2>1
  <2> QED
    BY <2>3, <2>4, <2>5, <1>6
<1>16. is_black(r, nil)
  BY <1>1, <1>3, <1>8
<1>17. RedsApart(r, N, {}, {g})
  BY <1>15, <1>16 DEF RedsApart
<1>18. r.root = g \/ is_black(r, r.root)
  <2>1. is_black(t, t.root) /\ t.root \in Node
    BY <1>1, <1>3 DEF RedAt, Shape
  <2> QED
    BY <2>1, <1>6, <1>8
<1>19. is_red(r, g)
  BY <1>1, <1>3, <1>5, <1>8
<1> QED
  BY <1>1, <1>7, <1>14, <1>17, <1>18, <1>19 DEF RedAt, A

\* The first rotation: the red node becomes an outer grandchild.
LEMMA StraightenKeeps ==
  ASSUME NEW t, NEW N, NEW sub, NEW B, NEW z, RedAt(t, N, sub, B, z),
         NEW p, NEW g, Kin(t, z, p, g), is_red(t, p), NEW d, d = child_dir(t, p),
         NEW s, s = straighten(t, z, d)
  PROVE  \E sub1 :
           /\ RedAt(s.tree, N, sub1, B, s.node)
           /\ is_red(s.tree, s.tree.parent[s.node])
           /\ s.tree.parent[s.tree.parent[s.node]] = g
           /\ s.tree.child[g][d] = s.tree.parent[s.node]
           /\ s.tree.child[g][Opposite(d)] = t.child[g][Opposite(d)]
           /\ s.tree.child[s.tree.parent[s.node]][d] = s.node
           /\ s.tree.color = t.color
<1> DEFINE o == Opposite(d)
<1>1. /\ z # t.root /\ p \in N /\ p # t.root /\ g \in N /\ d \in Dir
      /\ t.child[g][d] = p /\ is_black(t, g) /\ z # p /\ g # p /\ g # z
      /\ \E e \in Dir : t.child[p][e] = z
  BY RedParent
<1>2. /\ o \in Dir /\ o # d /\ Opposite(o) = d /\ \A e \in Dir : e = d \/ e = o
  BY <1>1, OppositeIs
<1>3. Shape(t, N, sub) /\ z \in N /\ nil \notin N /\ N \subseteq Node /\ t \in Trees
      /\ Balanced(t, N, B, {}) /\ RedsApart(t, N, {}, {z}) /\ is_red(t, z)
  BY NilIs DEF RedAt, Shape
<1>4. CASE t.child[p][o] = z
  <2> PICK r : r = rb_node_rotate(t, p, d)
    OBVIOUS
  <2> PICK i : i = t.child[z][d]
    OBVIOUS
  <2>1. s = [tree |-> r, node |-> p]
    BY <1>4 DEF straighten, is_dir_child, Kin
  <2>2. /\ Shape(r, N, Turned(sub, t, p, d, z, i))
        /\ Rotated(r, t, p, d, z, i)
        /\ Balanced(r, N, B, {})
        /\ RedsApart(r, N, {}, {p})
        /\ r.color = t.color
        /\ i \notin {p, z}
    <3>1. /\ Shape(t, N, sub) /\ p \in N /\ d \in Dir /\ z = t.child[p][Opposite(d)] /\ z # nil
          /\ Balanced(t, N, B, {}) /\ RedsApart(t, N, {}, {z}) /\ is_red(t, p) /\ is_red(t, z)
      BY <1>1, <1>3, <1>4
    <3> QED
      BY <3>1, TurnReds
  <2>3. /\ r.parent[p] = z /\ r.parent[z] = g /\ r.child[z][d] = p
        /\ r.root = t.root
        /\ r.child[g][d] = z /\ r.child[g][o] = t.child[g][o]
    <3>1. t.parent[p] = g
      BY DEF Kin
    <3> QED
      BY <2>2, <3>1, <1>1, <1>2, <1>3 DEF Rotated
  <2>4. is_red(r, p) /\ is_red(r, z) /\ is_black(r, r.root)
    BY <2>2, <2>3, <1>1, <1>3 DEF is_red, is_black, RedAt
  <2>5. RedAt(r, N, Turned(sub, t, p, d, z, i), B, p)
    BY <2>2, <2>4, <1>1 DEF RedAt
  <2>6. s.tree = r /\ s.node = p
    BY <2>1
  <2> QED
    BY <2>2, <2>3, <2>4, <2>5, <2>6
<1>5. CASE t.child[p][o] # z
  <2>1. s = [tree |-> t, node |-> z]
    BY <1>5 DEF straighten, is_dir_child, Kin
  <2>2. s.tree = t /\ s.node = z
    BY <2>1
  <2>3. t.child[p][d] = z /\ t.parent[z] = p /\ t.parent[p] = g
    BY <1>1, <1>2, <1>5 DEF Kin
  <2> QED
    BY <2>2, <2>3, <1>1
<1> QED
  BY <1>4, <1>5

\* z is an outer grandchild.
Outside(t, z, p, g, d) == t.child[g][d] = p /\ t.child[p][d] = z

\* The second rotation.
LEMMA InsertTurnKeeps ==
  ASSUME NEW t, NEW N, NEW sub, NEW B, NEW z, RedAt(t, N, sub, B, z),
         NEW p, NEW g, Kin(t, z, p, g), is_red(t, p),
         NEW d \in Dir, Outside(t, z, p, g, d),
         is_black(t, t.child[g][Opposite(d)]),
         NEW r, r = rb_node_rotate(Paint(Paint(t, p, "RB_BLACK"), g, "RB_RED"),
                                   g, Opposite(d))
  PROVE  \E sub1, B1 : RedAt(r, N, sub1, B1, z)
<1> DEFINE o == Opposite(d)
           t0 == Paint(t, p, "RB_BLACK")
           t1 == Paint(t0, g, "RB_RED")
<1> PICK i : i = t.child[p][o]
  OBVIOUS
<1>1. /\ z # t.root /\ p \in N /\ p # t.root /\ g \in N
      /\ is_black(t, g) /\ z # p /\ g # p /\ g # z
  BY RedParent
<1>2. /\ o \in Dir /\ o # d /\ Opposite(o) = d /\ \A e \in Dir : e = d \/ e = o
  BY OppositeIs
<1>3. Shape(t, N, sub) /\ z \in N /\ nil \notin N /\ N \subseteq Node /\ t \in Trees
      /\ Balanced(t, N, B, {}) /\ RedsApart(t, N, {}, {z}) /\ is_red(t, z) /\ is_black(t, nil)
  BY NilIs DEF RedAt, Shape, RedsApart
<1>4. Recolored(t1, t) /\ \A n \in Node : t1.color[n] = IF n = g THEN "RB_RED"
                                       ELSE IF n = p THEN "RB_BLACK" ELSE t.color[n]
  <2>1. p \in Node /\ g \in Node /\ "RB_BLACK" \in Color /\ "RB_RED" \in Color
    BY <1>1, <1>3 DEF Color
  <2>2. Recolored(t0, t) /\ \A n \in Node : t0.color[n] = IF n = p THEN "RB_BLACK" ELSE t.color[n]
    BY <2>1, <1>3, PaintIs
  <2> HIDE DEF t0
  <2>3. Recolored(t1, t0) /\ \A n \in Node : t1.color[n] = IF n = g THEN "RB_RED" ELSE t0.color[n]
    <3>1. t0 \in Trees
      BY <2>2 DEF Recolored
    <3> QED
      BY <2>1, <3>1, PaintIs
  <2> QED
    BY <2>2, <2>3 DEF Recolored
<1>5. Swapped(t1, t, g, p)
  BY <1>1, <1>4 DEF Swapped
<1> HIDE DEF t0, t1
<1>6. r = rb_node_rotate(t1, g, o)
  BY DEF t0, t1
<1>7. is_black(t, i)
  <2>1. i \in N \cup {nil} /\ i # z
    <3>1. i \in N \cup {nil}
      BY <1>1, <1>2, <1>3, ChildLinks
    <3>2. z # nil
      BY <1>3
    <3>3. t.child[p][d] # nil => t.child[p][d] # t.child[p][o]
      BY <1>1, <1>3, Apart
    <3> QED
      BY <3>1, <3>2, <3>3 DEF Outside
  <2>2. ~is_red(t, i)
    BY <2>1, <1>1, <1>2, <1>3 DEF RedsApart
  <2>3. i \in Node
    BY <2>1, <1>3, NilIs
  <2> QED
    BY <2>2, <2>3, <1>3, ColorIs
<1>8. NoGapThere({}, g, p, o)
  BY DEF NoGapThere
<1>9. p = t.child[g][Opposite(o)] /\ p # nil /\ t.child[p][d] = z
  BY <1>1, <1>2, <1>3 DEF Outside
<1>10. /\ Shape(r, N, Turned(sub, t, g, o, p, i))
       /\ Rotated(r, t1, g, o, p, i)
       /\ Balanced(r, N, Exchanged(B, g, p), {})
       /\ NoNewReds(r, t, N)
       /\ r.color = t1.color
  <2>1. /\ Shape(t, N, sub) /\ g \in N /\ o \in Dir /\ p = t.child[g][Opposite(o)] /\ p # nil
        /\ i = t.child[p][o] /\ Balanced(t, N, B, {}) /\ is_black(t, i)
        /\ is_black(t, t.child[g][o]) /\ NoGapThere({}, g, p, o) /\ Swapped(t1, t, g, p)
        /\ r = rb_node_rotate(t1, g, o)
    BY <1>1, <1>2, <1>3, <1>5, <1>6, <1>7, <1>8, <1>9
  <2> QED
    BY <2>1, SwapAndTurn
<1>11. RedsApart(r, N, {}, {z})
  <2>1. is_black(r, nil)
    BY <1>3, <1>10 DEF NoNewReds
  <2>2. ASSUME NEW n \in N, NEW e \in Dir, is_red(r, n), is_red(r, r.child[n][e])
        PROVE  r.child[n][e] = z
    BY <2>2, <1>3, <1>10 DEF NoNewReds, RedsApart
  <2> QED
    BY <2>1, <2>2 DEF RedsApart
<1>12. is_red(r, z)
  BY <1>1, <1>3, <1>4, <1>10 DEF is_red
<1>13. is_black(r, r.root)
  <2>1. is_black(t, t.root) /\ t.root \in Node
    BY <1>1, <1>3, NilIs DEF RedAt, Shape
  <2>2. t1.root = t.root /\ t1.parent = t.parent
    BY <1>4 DEF Recolored
  <2>3. CASE t.parent[g] = nil
    <3>1. r.root = p
      BY <2>2, <2>3, <1>10 DEF Rotated
    <3> QED
      BY <3>1, <1>1, <1>3, <1>4, <1>10 DEF is_black
  <2>4. CASE t.parent[g] # nil
    <3>1. r.root = t.root
      BY <2>2, <2>4, <1>10 DEF Rotated
    <3>2. t.root # g
      BY <2>4, <1>1, <1>3 DEF Shape
    <3> QED
      BY <2>1, <3>1, <3>2, <1>1, <1>4, <1>10 DEF is_black
  <2> QED
    BY <2>3, <2>4
<1> QED
  BY <1>3, <1>10, <1>11, <1>12, <1>13 DEF RedAt

\* The loop ends: the root is painted black.
LEMMA RootBlackened ==
  ASSUME NEW t, NEW N, NEW sub, NEW B, NEW z, RedAt(t, N, sub, B, z),
         is_black(t, t.parent[z]), NEW r, r = Paint(t, t.root, "RB_BLACK")
  PROVE  /\ Shape(r, N, sub) /\ \E A : Balanced(r, N, A, {})
         /\ RedsApart(r, N, {}, {}) /\ is_black(r, r.root)
<1>1. Shape(t, N, sub) /\ z \in N /\ nil \notin N /\ N \subseteq Node /\ t \in Trees /\ nil \in Node
      /\ Balanced(t, N, B, {}) /\ RedsApart(t, N, {}, {z}) /\ is_red(t, z) /\ is_black(t, nil)
  BY NilIs DEF RedAt, Shape, RedsApart
<1>2. t.root \in N /\ t.root \in Node /\ t.root # nil
  BY <1>1 DEF Shape
<1>3. Recolored(r, t) /\ \A n \in Node : r.color[n] = IF n = t.root THEN "RB_BLACK" ELSE t.color[n]
  BY <1>1, <1>2, PaintIs DEF Color
<1>4. Shape(r, N, sub) /\ r.root = t.root /\ r.child = t.child
  BY <1>1, <1>3, RecoloredShape DEF Recolored
<1>5. \A n \in Node : /\ is_red(r, n) <=> n # t.root /\ is_red(t, n)
                      /\ is_black(r, n) <=> n = t.root \/ is_black(t, n)
                      /\ Weight(r, n) = IF n = t.root THEN 1 ELSE Weight(t, n)
  BY <1>3 DEF is_red, is_black, Weight
<1> DEFINE A == [B EXCEPT ![t.root] = B[t.root] + 1 - Weight(t, t.root)]
<1>6. B \in [Node -> Nat] /\ B[nil] = 0
  BY <1>1 DEF Balanced
<1>7. /\ A \in [Node -> Nat] /\ A[nil] = 0 /\ A[t.root] = B[t.root] + 1 - Weight(t, t.root)
      /\ \A n \in Node : n # t.root => A[n] = B[n]
  <2>1. Weight(t, t.root) \in {0, 1} /\ B[t.root] \in Nat
    BY <1>1, <1>2, <1>6, ColorIs
  <2>2. B[t.root] + 1 - Weight(t, t.root) \in Nat
    BY <2>1
  <2> QED
    BY <2>2, <1>1, <1>2, <1>6
<1> HIDE DEF A
<1>8. ASSUME NEW n \in N, NEW e \in Dir
      PROVE  A[n] = A[t.child[n][e]] + 0 + Weight(r, n)
  <2>1. B[n] = B[t.child[n][e]] + 0 + Weight(t, n)
    BY <1>1 DEF Balanced, Missing
  <2>2. t.child[n][e] \in Node /\ t.child[n][e] # t.root
    <3>1. t.child[n][e] \in N \cup {nil} /\ (t.child[n][e] # nil => t.parent[t.child[n][e]] = n)
      BY <1>1 DEF Shape
    <3>2. t.parent[t.root] = nil
      BY <1>1, <1>2 DEF Shape
    <3> QED
      BY <3>1, <3>2, <1>1, <1>2
  <2>3. A[t.child[n][e]] = B[t.child[n][e]] /\ B[t.child[n][e]] \in Nat
    BY <2>2, <1>6, <1>7
  <2>4. Weight(t, n) \in {0, 1}
    BY <1>1, ColorIs
  <2>5. CASE n = t.root
    <3>1. A[n] = B[n] + 1 - Weight(t, n) /\ Weight(r, n) = 1
      BY <2>5, <1>2, <1>5, <1>7
    <3> QED
      BY <2>1, <2>3, <2>4, <3>1
  <2>6. CASE n # t.root
    <3>1. A[n] = B[n] /\ Weight(r, n) = Weight(t, n)
      BY <2>6, <1>1, <1>5, <1>7
    <3> QED
      BY <2>1, <2>3, <3>1
  <2> QED
    BY <2>5, <2>6
<1>9. Balanced(r, N, A, {})
  BY <1>4, <1>7, <1>8 DEF Balanced, Missing
<1>10. ASSUME NEW n \in N, NEW e \in Dir, is_red(r, n), is_red(r, r.child[n][e])
       PROVE  FALSE
  <2>1. is_red(t, n) /\ is_red(t, t.child[n][e])
    BY <1>1, <1>4, <1>5, <1>10 DEF Shape
  <2>2. t.child[n][e] = z
    BY <2>1, <1>1 DEF RedsApart
  <2>3. t.parent[z] = n
    BY <2>2, <1>1 DEF Shape
  <2> QED
    BY <2>1, <2>3 DEF is_red, is_black
<1>11. RedsApart(r, N, {}, {})
  BY <1>1, <1>5, <1>10 DEF RedsApart
<1> QED
  BY <1>2, <1>4, <1>5, <1>9, <1>11

-----------------------------------------------------------------------------
(* Deletion: a node is taken out. *)

\* The subtrees without the node u.
Without(sub, u) == [n \in Node |-> IF n = u THEN {} ELSE sub[n] \ {u}]

\* u has one child at most, and v is that child, or nil.
OuterWith(t, u, v) == \E d \in Dir : t.child[u][d] = nil /\ v = t.child[u][Opposite(d)]

\* A node other than u keeps the subtrees below it, without u.
SubtreesKept(r, t, N, sub, u) ==
  \A n \in N \ {u}, e \in Dir :
    Without(sub, u)[r.child[n][e]] = sub[t.child[n][e]] \ {u}

\* rb_transplant() of a node's only child takes the node out of the tree.
LEMMA OuterShape ==
  ASSUME NEW t, NEW N, NEW sub, Shape(t, N, sub), NEW u \in N, NEW v, OuterWith(t, u, v),
         NEW r, r = rb_transplant(t, u, v)
  PROVE  /\ v \in N \cup {nil} /\ v # u
         /\ Transplanted(r, t, u, v)
         /\ Shape(r, N \ {u}, Without(sub, u))
         /\ SubtreesKept(r, t, N, sub, u)
<1> DEFINE M == N \ {u}
           s == Without(sub, u)
           p == t.parent[u]
           c == child_dir(t, u)
<1>1. /\ N \subseteq Key /\ nil \notin N /\ nil \in Node /\ N \subseteq Node /\ t \in Trees
      /\ u # nil /\ u \in Node
  BY NilIs DEF Shape
<1>2. PICK d \in Dir : t.child[u][d] = nil /\ v = t.child[u][Opposite(d)]
  BY DEF OuterWith
<1>3. Opposite(d) \in Dir /\ \A e \in Dir : e = d \/ e = Opposite(d)
  BY OppositeIs
<1>4. v \in N \cup {nil} /\ (v # nil => t.parent[v] = u)
  <2>1. t.child[u][Opposite(d)] \in N \cup {nil}
        /\ (t.child[u][Opposite(d)] # nil => t.parent[t.child[u][Opposite(d)]] = u)
    BY <1>3, ChildLinks
  <2> QED
    BY <2>1, <1>2
<1>5. sub[u] = {u} \cup sub[v] /\ u \notin sub[v] /\ v # u
  <2>1. sub[u] = {u} \cup sub[nil] \cup sub[v] /\ sub[nil] = {}
    BY <1>2 DEF Shape
  <2>2. u \notin sub[t.child[u][Opposite(d)]] /\ u # t.child[u][Opposite(d)]
    BY <1>3, Apart
  <2> QED
    BY <2>1, <2>2, <1>2
<1>6. Transplanted(r, t, u, v)
  <2>1. v \in Node
    BY <1>1, <1>4
  <2> QED
    BY <1>1, <2>1, TransplantIs
<1>7. /\ r \in Trees
      /\ r.root = IF p = nil THEN v ELSE t.root
      /\ \A n \in Node : r.parent[n] = IF n = v THEN p ELSE t.parent[n]
      /\ \A n \in Node, e \in Dir :
           r.child[n][e] = IF p # nil /\ n = p /\ e = c THEN v ELSE t.child[n][e]
  BY <1>6 DEF Transplanted
<1>8. /\ u # t.root => /\ p \in N /\ c \in Dir /\ t.child[p][c] = u /\ t.child[p][Opposite(c)] # u
                       /\ p # u
      /\ u = t.root => p = nil
  <2>1. p # u
    BY Apart
  <2>2. u # t.root => p \in N /\ c \in Dir /\ t.child[p][c] = u /\ t.child[p][Opposite(c)] # u
    BY ChildDirIs
  <2>3. u = t.root => p = nil
    BY <1>1 DEF Shape
  <2> QED
    BY <2>1, <2>2, <2>3, Zenon
<1>9. \A n \in N, e \in Dir : /\ t.child[n][e] \in N \cup {nil}
                              /\ t.child[n][e] # nil => t.parent[t.child[n][e]] = n
                              /\ t.child[n][e] = u => p # nil /\ n = p /\ e = c
  <2> TAKE n \in N, e \in Dir
  <2>1. /\ t.child[n][e] \in N \cup {nil}
        /\ t.child[n][e] # nil => t.parent[t.child[n][e]] = n
    BY ChildLinks
  <2>2. t.child[n][e] = u => p = n
    BY <2>1, <1>1
  <2>3. t.child[n][e] = u => u # t.root
    BY <2>2, <1>1, <1>8
  <2>4. t.child[n][e] = u => e = c
    BY <2>2, <2>3, <1>8, OppositeIs
  <2> QED
    BY <2>1, <2>2, <2>4, <1>1
<1> HIDE DEF c, p
<1>10. ASSUME NEW n \in M, NEW e \in Dir
       PROVE \/ t.child[n][e] = u /\ r.child[n][e] = v /\ n = p
             \/ t.child[n][e] # u /\ r.child[n][e] = t.child[n][e]
  <2>1. CASE t.child[n][e] = u
    BY <2>1, <1>1, <1>7, <1>9
  <2>2. CASE t.child[n][e] # u
    BY <2>2, <1>1, <1>7, <1>8
  <2> QED
    BY <2>1, <2>2
<1>11. \A n \in Node : s[n] = IF n = u THEN {} ELSE sub[n] \ {u}
  BY DEF Without
<1>12. s \in [Node -> SUBSET M]
  BY DEF Without, Shape
<1> HIDE DEF s
<1>13. M \in SUBSET Key /\ IsFiniteSet(M)
  BY <1>1, FS_RemoveElement DEF Shape
<1>14. s[nil] = {}
  <2>1. sub[nil] = {}
    BY DEF Shape
  <2> QED
    BY <2>1, <1>1, <1>11
<1>15. s[v] = sub[u] \ {u} /\ v \in M \cup {nil}
  BY <1>1, <1>4, <1>5, <1>11
<1>16. /\ r.root \in M \cup {nil} /\ s[r.root] = M
       /\ r.root # nil => r.parent[r.root] = nil
  <2>1. CASE u = t.root
    <3>1. r.root = v /\ sub[u] = N
      BY <2>1, <1>7, <1>8 DEF Shape
    <3>2. v # nil => r.parent[v] = nil
      BY <2>1, <1>1, <1>4, <1>7, <1>8
    <3> QED
      BY <3>1, <3>2, <1>15
  <2>2. CASE u # t.root
    <3>1. t.root \in N /\ sub[t.root] = N /\ t.parent[t.root] = nil
      BY <1>1 DEF Shape
    <3>2. r.root = t.root
      BY <2>2, <1>1, <1>7, <1>8
    <3>3. t.root # v
      BY <3>1, <1>1, <1>4
    <3> QED
      BY <2>2, <3>1, <3>2, <3>3, <1>1, <1>7, <1>11, Zenon
  <2> QED
    BY <2>1, <2>2
<1>17. \A n \in M, e \in Dir : /\ r.child[n][e] \in M \cup {nil}
                               /\ r.child[n][e] # nil => r.parent[r.child[n][e]] = n
  <2> TAKE n \in M, e \in Dir
  <2>1. CASE t.child[n][e] = u /\ r.child[n][e] = v /\ n = p
    BY <2>1, <1>1, <1>7, <1>15
  <2>2. CASE t.child[n][e] # u /\ r.child[n][e] = t.child[n][e]
    <3>1. t.child[n][e] # nil => t.child[n][e] # v
      BY <1>4, <1>9
    <3> QED
      BY <2>2, <3>1, <1>1, <1>7, <1>9
  <2> QED
    BY <2>1, <2>2, <1>10
<1>18. \A n \in M : n # r.root => r.parent[n] \in M /\ \E e \in Dir : r.child[r.parent[n]][e] = n
  <2> SUFFICES ASSUME NEW n \in M, n # r.root
      PROVE r.parent[n] \in M /\ \E e \in Dir : r.child[r.parent[n]][e] = n
    OBVIOUS
  <2>1. CASE n = v
    <3>1. u # t.root
      BY <2>1, <1>7, <1>8
    <3>2. r.parent[n] = p /\ p \in M
      BY <2>1, <3>1, <1>1, <1>7, <1>8
    <3>3. r.child[p][c] = v /\ c \in Dir
      BY <3>1, <3>2, <1>1, <1>7, <1>8
    <3> QED
      BY <2>1, <3>2, <3>3
  <2>2. CASE n # v
    <3>1. r.parent[n] = t.parent[n] /\ n # t.root
      BY <2>2, <1>1, <1>7, <1>8
    <3>2. PICK e \in Dir : t.parent[n] \in N /\ t.child[t.parent[n]][e] = n
      BY <3>1 DEF Shape
    <3>3. t.parent[n] # u
      <4>1. t.parent[n] = u => n = nil \/ n = v
        BY <3>2, <1>2, <1>3
      <4> QED
        BY <4>1, <2>2, <1>1
    <3>4. r.child[t.parent[n]][e] = n
      BY <3>2, <3>3, <1>10
    <3> QED
      BY <3>1, <3>2, <3>3, <3>4
  <2> QED
    BY <2>1, <2>2
<1>19. \A n \in M, e \in Dir : s[r.child[n][e]] = sub[t.child[n][e]] \ {u}
  <2> TAKE n \in M, e \in Dir
  <2>1. CASE t.child[n][e] = u /\ r.child[n][e] = v
    BY <2>1, <1>15
  <2>2. CASE t.child[n][e] # u /\ r.child[n][e] = t.child[n][e]
    <3>1. t.child[n][e] \in Node
      BY <1>1, <1>9
    <3> QED
      BY <2>2, <3>1, <1>11
  <2> QED
    BY <2>1, <2>2, <1>10
<1>20. \A n \in M, e \in Dir : s[n] = {n} \cup s[r.child[n][e]] \cup s[r.child[n][Opposite(e)]]
  <2> TAKE n \in M, e \in Dir
  <2>1. sub[n] = {n} \cup sub[t.child[n][e]] \cup sub[t.child[n][Opposite(e)]]
    BY DEF Shape
  <2>2. Opposite(e) \in Dir /\ s[n] = sub[n] \ {u} /\ n # u
    BY <1>1, <1>11, OppositeIs
  <2>3. s[r.child[n][e]] = sub[t.child[n][e]] \ {u} /\ s[r.child[n][Opposite(e)]] = sub[t.child[n][Opposite(e)]] \ {u}
    BY <2>2, <1>19
  <2> QED
    BY <2>1, <2>2, <2>3
<1>21. \A n \in M, e \in Dir : \A m \in s[r.child[n][e]] : Side(e, m, n)
  <2> TAKE n \in M, e \in Dir
  <2>1. \A m \in sub[t.child[n][e]] : Side(e, m, n)
    BY DEF Shape
  <2> QED
    BY <2>1, <1>19
<1> HIDE DEF M
<1>22. Shape(r, M, s)
  BY <1>7, <1>12, <1>13, <1>14, <1>16, <1>17, <1>18, <1>20, <1>21 DEF Shape
<1> QED
  BY <1>4, <1>5, <1>6, <1>19, <1>22 DEF M, s, SubtreesKept

\* Where a black node is missing after u was unlinked.
GapFrom(t, u) ==
  IF is_black(t, u) /\ t.parent[u] # nil THEN {<<t.parent[u], child_dir(t, u)>>} ELSE {}

\* A black node is missing where a black node was taken out, and only its child may
\* now be a red child of a red node.
LEMMA OuterColors ==
  ASSUME NEW t, NEW N, NEW sub, Shape(t, N, sub), NEW u \in N, NEW v, OuterWith(t, u, v),
         NEW B, Balanced(t, N, B, {}), RedsApart(t, N, {}, {}), is_black(t, t.root),
         NEW r, r = rb_transplant(t, u, v)
  PROVE  /\ Balanced(r, N \ {u}, B, GapFrom(t, u))
         /\ RedsApart(r, N \ {u}, {}, {v})
         /\ is_red(t, u) => RedsApart(r, N \ {u}, {}, {})
         /\ r.root = v \/ is_black(r, r.root)
         /\ t.parent[u] = nil => r.root = v
<1> DEFINE M == N \ {u}
           p == t.parent[u]
           c == child_dir(t, u)
<1>1. /\ N \subseteq Key /\ nil \notin N /\ nil \in Node /\ N \subseteq Node /\ t \in Trees
      /\ u # nil /\ u \in Node
  BY NilIs DEF Shape
<1>2. v \in N \cup {nil} /\ v # u /\ Transplanted(r, t, u, v)
  BY OuterShape
<1>3. /\ r.color = t.color
      /\ r.root = IF p = nil THEN v ELSE t.root
      /\ \A n \in Node, e \in Dir :
           r.child[n][e] = IF p # nil /\ n = p /\ e = c THEN v ELSE t.child[n][e]
  BY <1>2 DEF Transplanted
<1>4. /\ p # nil => p \in N /\ c \in Dir /\ t.child[p][c] = u /\ t.child[p][Opposite(c)] # u
      /\ p = nil => u = t.root
      /\ u = t.root => p = nil
  <2>1. u # t.root => p \in N /\ c \in Dir /\ t.child[p][c] = u /\ t.child[p][Opposite(c)] # u
    BY <1>1, ChildDirIs
  <2>2. u = t.root => p = nil
    BY <1>1 DEF Shape
  <2> QED
    BY <2>1, <2>2, <1>1
<1>5. \A n \in Node : /\ is_black(r, n) <=> is_black(t, n)
                      /\ is_red(r, n) <=> is_red(t, n)
                      /\ Weight(r, n) = Weight(t, n)
  BY <1>3 DEF is_black, is_red, Weight
<1>6. PICK d \in Dir : t.child[u][d] = nil /\ v = t.child[u][Opposite(d)]
  BY DEF OuterWith
<1>7. B \in [Node -> Nat] /\ B[nil] = 0
  BY DEF Balanced
<1>8. B[u] = B[v] + 0 + Weight(t, u)
  <2>1. B[u] = B[t.child[u][Opposite(d)]] + 0 + Weight(t, u)
    BY OppositeIs DEF Balanced, Missing
  <2> QED
    BY <2>1, <1>6
<1> HIDE DEF c, p
<1>9. GapFrom(t, u) = IF is_black(t, u) /\ p # nil THEN {<<p, c>>} ELSE {}
  BY DEF GapFrom, p, c
<1>10. ASSUME NEW n \in M, NEW e \in Dir
       PROVE B[n] = B[r.child[n][e]] + Missing(GapFrom(t, u), n, e) + Weight(r, n)
  <2>1. /\ B[n] = B[t.child[n][e]] + 0 + Weight(t, n)
        /\ t.child[n][e] \in Node /\ Weight(r, n) = Weight(t, n) /\ Weight(t, n) \in {0, 1}
    <3>1. B[n] = B[t.child[n][e]] + 0 + Weight(t, n)
      BY DEF Balanced, Missing
    <3>2. t.child[n][e] \in Node
      BY ChildLinks
    <3> QED
      BY <3>1, <3>2, <1>1, <1>5, ColorIs
  <2>2. CASE p # nil /\ n = p /\ e = c
    <3>1. r.child[n][e] = v /\ t.child[n][e] = u
      BY <2>2, <1>1, <1>3, <1>4
    <3>2. Missing(GapFrom(t, u), n, e) = Weight(t, u)
      BY <2>2, <1>9 DEF Missing, Weight
    <3>3. B[v] \in Nat /\ Weight(t, u) \in {0, 1}
      BY <1>1, <1>2, <1>7, ColorIs
    <3>4. B[n] = (B[v] + 0 + Weight(t, u)) + 0 + Weight(t, n)
      BY <2>1, <3>1, <1>8
    <3>5. B[n] = B[v] + Weight(t, u) + Weight(t, n)
      BY <2>1, <3>3, <3>4
    <3> QED
      BY <2>1, <3>1, <3>2, <3>5
  <2>3. CASE ~(p # nil /\ n = p /\ e = c)
    <3>1. r.child[n][e] = t.child[n][e]
      BY <2>3, <1>1, <1>3
    <3>2. Missing(GapFrom(t, u), n, e) = 0
      BY <2>3, <1>9 DEF Missing
    <3> QED
      BY <2>1, <3>1, <3>2
  <2> QED
    BY <2>2, <2>3
<1>11. Balanced(r, M, B, GapFrom(t, u))
  BY <1>7, <1>10 DEF Balanced
<1>12. ASSUME NEW n \in M, NEW e \in Dir, is_red(r, n), is_red(r, r.child[n][e])
       PROVE  r.child[n][e] = v /\ is_black(t, u)
  <2>0. \A m \in N, k \in Dir : ~(is_red(t, m) /\ is_red(t, t.child[m][k]))
    BY DEF RedsApart
  <2>1. is_red(t, n) /\ n \in N /\ t.child[n][e] \in Node
    BY <1>1, <1>5, <1>12, ChildLinks
  <2>2. CASE p # nil /\ n = p /\ e = c
    <3>1. r.child[n][e] = v /\ t.child[n][e] = u
      BY <2>2, <1>1, <1>3, <1>4
    <3>2. ~is_red(t, u)
      BY <2>0, <2>1, <3>1
    <3> QED
      BY <3>1, <3>2, <1>1, ColorIs
  <2>3. CASE ~(p # nil /\ n = p /\ e = c)
    <3>1. r.child[n][e] = t.child[n][e]
      BY <2>3, <1>1, <1>3
    <3> QED
      BY <2>0, <2>1, <3>1, <1>5, <1>12
  <2> QED
    BY <2>2, <2>3
<1>13. is_black(r, nil)
  BY <1>1, <1>5 DEF RedsApart
<1>14. RedsApart(r, M, {}, {v})
  BY <1>12, <1>13 DEF RedsApart
<1>15. is_red(t, u) => RedsApart(r, M, {}, {})
  <2> SUFFICES ASSUME is_red(t, u) PROVE RedsApart(r, M, {}, {})
    OBVIOUS
  <2>1. ~is_black(t, u)
    BY DEF is_red, is_black
  <2> QED
    BY <2>1, <1>12, <1>13 DEF RedsApart
<1>16. r.root = v \/ is_black(r, r.root)
  BY <1>1, <1>3, <1>5 DEF Shape
<1> QED
  BY <1>3, <1>11, <1>14, <1>15, <1>16 DEF M, p

\* r is t with y, which takes the color of z, in the place of z.
Replaced(r, t, z, y) ==
  /\ r \in Trees
  /\ r.root = IF t.parent[z] = nil THEN y ELSE t.root
  /\ \A n \in Node :
       r.parent[n] = IF n = y THEN t.parent[z]
                     ELSE IF \E d \in Dir : n = t.child[z][d] THEN y ELSE t.parent[n]
  /\ \A n \in Node : r.color[n] = IF n = y THEN t.color[z] ELSE t.color[n]
  /\ \A n \in Node, e \in Dir :
       r.child[n][e] = IF n = y THEN t.child[z][e]
                       ELSE IF t.parent[z] # nil /\ n = t.parent[z] /\ e = child_dir(t, z)
                       THEN y ELSE t.child[n][e]

\* What DeleteSuccessor makes of the tree.
Succeeded(t, z, y) ==
  LET t3 == rb_transplant(successor_unlinked(t, z, y), z, y)
      l  == t3.child[z][RB_L]
  IN  [t3 EXCEPT !.child[y][RB_L] = l, !.parent[l] = y, !.color[y] = t3.color[z]]

\* t1 is t with the right child of y in the place of y.
Unlinked(t1, t, y) == t1 = rb_transplant(t, y, t.child[y][RB_R])

\* Once its successor y was taken from its place, z is replaced by it.
LEMMA SucceededIs ==
  ASSUME NEW t \in Trees, NEW z \in Node, NEW y \in Node, z # y,
         y # t.child[z][RB_L],
         NEW t1 \in Trees, Unlinked(t1, t, y),
         t1.parent[z] \notin {y, z}, \A d \in Dir : t1.child[z][d] \notin {y, z}
  PROVE  Replaced(Succeeded(t, z, y), t1, z, y)
<1> DEFINE r  == t1.child[z][RB_R]
           t2 == [t1 EXCEPT !.child[y][RB_R] = r, !.parent[r] = y]
           t3 == rb_transplant(t2, z, y)
           l  == t3.child[z][RB_L]
           t4 == [t3 EXCEPT !.child[y][RB_L] = l, !.parent[l] = y, !.color[y] = t3.color[z]]
<1>1. Succeeded(t, z, y) = t4
  BY Zenon DEF Succeeded, successor_unlinked, Unlinked
<1>2. /\ RB_L \in Dir /\ RB_R \in Dir /\ RB_L # RB_R /\ \A e \in Dir : e = RB_L \/ e = RB_R
      /\ \A n \in Node, d \in Dir : t1.child[n][d] \in Node
      /\ \A n \in Node : t1.parent[n] \in Node
  BY DEF Dir, RB_L, RB_R, Trees
<1>0. r \in Node /\ r \notin {y, z}
  BY <1>2
<1>3. /\ t2 \in Trees /\ t2.root = t1.root /\ t2.color = t1.color
      /\ \A n \in Node : t2.parent[n] = IF n = r THEN y ELSE t1.parent[n]
      /\ \A n \in Node, e \in Dir :
           t2.child[n][e] = IF n = y /\ e = RB_R THEN r ELSE t1.child[n][e]
  <2> HIDE DEF r
  <2> QED
    BY <1>0, <1>2 DEF Trees
<1> HIDE DEF t2
<1>4. t2.parent[z] = t1.parent[z] /\ child_dir(t2, z) = child_dir(t1, z)
  <2>1. t2.parent[z] = t1.parent[z]
    BY <1>0, <1>3
  <2>2. t2.child[t1.parent[z]][RB_L] = t1.child[t1.parent[z]][RB_L]
    BY <1>2, <1>3
  <2> QED
    BY <2>1, <2>2 DEF child_dir, is_dir_child
<1>5. Transplanted(t3, t2, z, y)
  BY <1>3, TransplantIs
<1> HIDE DEF t3
<1>6. /\ t3 \in Trees
      /\ t3.root = IF t1.parent[z] = nil THEN y ELSE t1.root
      /\ \A n \in Node : t3.parent[n] = IF n = y THEN t1.parent[z] ELSE t2.parent[n]
      /\ t3.color = t1.color
      /\ \A n \in Node, e \in Dir :
           t3.child[n][e] = IF t1.parent[z] # nil /\ n = t1.parent[z] /\ e = child_dir(t1, z)
                            THEN y ELSE t2.child[n][e]
  BY <1>3, <1>4, <1>5 DEF Transplanted
<1>7. l = t1.child[z][RB_L] /\ l \in Node /\ l # y
  BY <1>2, <1>3, <1>6
<1> HIDE DEF l
<1>8. t3.color[z] = t1.color[z] /\ t1.color[z] \in Color
  BY <1>6 DEF Trees
<1>9. /\ t4 \in Trees /\ t4.root = t3.root
      /\ \A n \in Node : t4.parent[n] = IF n = l THEN y ELSE t3.parent[n]
      /\ \A n \in Node : t4.color[n] = IF n = y THEN t1.color[z] ELSE t1.color[n]
      /\ \A n \in Node, e \in Dir :
           t4.child[n][e] = IF n = y /\ e = RB_L THEN l ELSE t3.child[n][e]
  BY <1>2, <1>6, <1>7, <1>8 DEF Trees
<1> HIDE DEF t4
<1>10. \A n \in Node :
         t4.parent[n] = IF n = y THEN t1.parent[z]
                        ELSE IF n = l \/ n = r THEN y ELSE t1.parent[n]
  BY <1>3, <1>6, <1>7, <1>9
<1>11. \A n \in Node : (n = l \/ n = r) <=> \E d \in Dir : n = t1.child[z][d]
  BY <1>2, <1>7
<1>12. \A n \in Node, e \in Dir :
         t4.child[n][e] = IF n = y THEN t1.child[z][e]
                          ELSE IF t1.parent[z] # nil /\ n = t1.parent[z] /\ e = child_dir(t1, z)
                          THEN y ELSE t1.child[n][e]
  <2>1. \A e \in Dir : t4.child[y][e] = t1.child[z][e]
    BY <1>2, <1>3, <1>6, <1>7, <1>9
  <2>2. \A n \in Node \ {y}, e \in Dir :
         t4.child[n][e] = IF t1.parent[z] # nil /\ n = t1.parent[z] /\ e = child_dir(t1, z)
                          THEN y ELSE t1.child[n][e]
    BY <1>3, <1>6, <1>9
  <2> QED
    BY <2>1, <2>2
<1> QED
  BY <1>1, <1>6, <1>9, <1>10, <1>11, <1>12 DEF Replaced

\* The node that stands where n stood, and the nodes that stand where S stood,
\* when y replaces z.
Now(n, z, y) == IF n = z THEN y ELSE n

\* The data that were S,
NowAll(S, z, y) == IF z \in S THEN (S \ {z}) \cup {y} ELSE S

\* and the subtrees.
Renamed(sub, z, y) ==
  [n \in Node |-> IF n = z THEN {} ELSE NowAll(sub[IF n = y THEN z ELSE n], z, y)]

\* y fits in the place of z.
Fits(t, N, sub, z, y) ==
  /\ \A n \in N, d \in Dir : z \in sub[t.child[n][d]] => Side(d, y, n)
  /\ \A d \in Dir : \A m \in sub[t.child[z][d]] : Side(d, m, y)

\* Where the links lead after that.
Follows(r, t, N, z, y) ==
  /\ r.root = Now(t.root, z, y)
  /\ \A n \in N, d \in Dir : r.child[Now(n, z, y)][d] = Now(t.child[n][d], z, y)
  /\ \A n \in N \cup {nil} : r.color[Now(n, z, y)] = t.color[n]

\* Renaming z to y loses no node.
LEMMA NowIs ==
  ASSUME NEW N \in SUBSET Key, NEW z \in N, NEW y \in Key, y \notin N
  PROVE  /\ \A n \in (N \ {z}) \cup {y} : \E m \in N : n = Now(m, z, y)
         /\ \A m \in N : Now(m, z, y) \in (N \ {z}) \cup {y} /\ Now(m, z, y) # nil
         /\ \A m, n \in N \cup {nil} : Now(m, z, y) = Now(n, z, y) => m = n
         /\ Now(nil, z, y) = nil
         /\ \A S \in SUBSET N : /\ NowAll(S, z, y) = {Now(m, z, y) : m \in S}
                                /\ NowAll(S, z, y) \in SUBSET ((N \ {z}) \cup {y})
  BY NilIs DEF Now, NowAll

\* A search tree stays one when y, which fits there, replaces z.
LEMMA ReplacedShape ==
  ASSUME NEW t, NEW N, NEW sub, Shape(t, N, sub), NEW z \in N, NEW y \in Key, y \notin N,
         Fits(t, N, sub, z, y), NEW r, Replaced(r, t, z, y)
  PROVE  /\ Shape(r, (N \ {z}) \cup {y}, Renamed(sub, z, y))
         /\ Follows(r, t, N, z, y)
<1> DEFINE M == (N \ {z}) \cup {y}
           s == Renamed(sub, z, y)
           W(n) == Now(n, z, y)
           p == t.parent[z]
           c == child_dir(t, z)
<1>1. /\ N \subseteq Key /\ nil \notin N /\ nil \in Node /\ N \subseteq Node /\ t \in Trees
      /\ y # nil /\ y \in Node /\ z # y /\ z # nil /\ z \in Node /\ N \in SUBSET Key
  BY NilIs DEF Shape
<1>2. /\ \A n \in M : \E m \in N : n = W(m)
      /\ \A m \in N : W(m) \in M /\ W(m) # nil
      /\ \A m, n \in N \cup {nil} : W(m) = W(n) => m = n
      /\ W(nil) = nil
      /\ \A S \in SUBSET N : NowAll(S, z, y) = {W(m) : m \in S} /\ NowAll(S, z, y) \in SUBSET M
  BY <1>1, NowIs
<1>3. W(z) = y /\ \A n : n # z => W(n) = n
  BY DEF Now
<1> HIDE DEF W
<1>4. /\ r \in Trees
      /\ r.root = IF p = nil THEN y ELSE t.root
      /\ \A n \in Node :
           r.parent[n] = IF n = y THEN p
                         ELSE IF \E d \in Dir : n = t.child[z][d] THEN y ELSE t.parent[n]
      /\ \A n \in Node : r.color[n] = IF n = y THEN t.color[z] ELSE t.color[n]
      /\ \A n \in Node, e \in Dir :
           r.child[n][e] = IF n = y THEN t.child[z][e]
                           ELSE IF p # nil /\ n = p /\ e = c THEN y ELSE t.child[n][e]
  BY DEF Replaced
<1>5. /\ z # t.root => /\ p \in N /\ c \in Dir /\ t.child[p][c] = z /\ t.child[p][Opposite(c)] # z
                       /\ p # z
      /\ z = t.root => p = nil
  <2>1. z # t.root => p \in N /\ c \in Dir /\ t.child[p][c] = z /\ t.child[p][Opposite(c)] # z
    BY ChildDirIs
  <2>2. z # t.root => p # z
    BY <2>1, Apart
  <2>3. z = t.root => p = nil
    BY <1>1 DEF Shape
  <2> QED
    BY <2>1, <2>2, <2>3, Zenon
<1>6. \A n \in N, e \in Dir : /\ t.child[n][e] \in N \cup {nil}
                              /\ t.child[n][e] # nil => t.parent[t.child[n][e]] = n
                              /\ t.child[n][e] # n
                              /\ t.child[n][e] = z => p # nil /\ n = p /\ e = c
  <2> TAKE n \in N, e \in Dir
  <2>1. /\ t.child[n][e] \in N \cup {nil}
        /\ t.child[n][e] # nil => t.parent[t.child[n][e]] = n
    BY ChildLinks
  <2>2. t.child[n][e] = z => p = n
    BY <2>1, <1>1
  <2>3. t.child[n][e] = z => z # t.root
    BY <2>2, <1>1, <1>5
  <2>4. t.child[n][e] = z => e = c
    BY <2>2, <2>3, <1>5, OppositeIs
  <2>5. t.child[n][e] # n
    BY Apart
  <2> QED
    BY <2>1, <2>2, <2>4, <2>5, <1>1
<1> HIDE DEF c, p
<1>7. \A n \in N, d \in Dir : r.child[W(n)][d] = W(t.child[n][d])
  <2> TAKE n \in N, d \in Dir
  <2>1. CASE n = z
    <3>1. r.child[y][d] = t.child[z][d] /\ t.child[z][d] # z
      BY <1>1, <1>4, <1>6
    <3> QED
      BY <2>1, <3>1, <1>3
  <2>2. CASE n # z
    <3>1. W(n) = n /\ n # y /\ n \in Node
      BY <2>2, <1>1, <1>3
    <3>2. CASE t.child[n][d] = z
      BY <3>1, <3>2, <1>3, <1>4, <1>6
    <3>3. CASE t.child[n][d] # z
      <4>1. ~(p # nil /\ n = p /\ d = c)
        BY <3>3, <1>1, <1>4, <1>5
      <4> QED
        BY <3>1, <3>3, <4>1, <1>3, <1>4
    <3> QED
      BY <3>2, <3>3
  <2> QED
    BY <2>1, <2>2
<1>8. r.root = W(t.root)
  BY <1>1, <1>3, <1>4, <1>5
<1>9. \A n \in N \cup {nil} : r.color[W(n)] = t.color[n]
  BY <1>1, <1>3, <1>4
<1>10. \A n \in N, d \in Dir :
         t.child[n][d] # nil => r.parent[W(t.child[n][d])] = W(n)
  <2> SUFFICES ASSUME NEW n \in N, NEW d \in Dir, t.child[n][d] # nil
               PROVE  r.parent[W(t.child[n][d])] = W(n)
    OBVIOUS
  <2>1. CASE t.child[n][d] = z
    BY <2>1, <1>1, <1>3, <1>4, <1>6
  <2>2. CASE t.child[n][d] # z
    <3>1. /\ W(t.child[n][d]) = t.child[n][d] /\ t.child[n][d] # y /\ t.child[n][d] \in Node
          /\ t.parent[t.child[n][d]] = n
      BY <2>2, <1>1, <1>3, <1>6
    <3>2. CASE n = z
      BY <3>1, <3>2, <1>3, <1>4
    <3>3. CASE n # z
      <4>1. \A e \in Dir : t.child[n][d] # t.child[z][e]
        BY <3>1, <3>3, <1>1, <1>6
      <4> QED
        BY <3>1, <3>3, <4>1, <1>3, <1>4
    <3> QED
      BY <3>2, <3>3
  <2> QED
    BY <2>1, <2>2
<1>11. t.root \in N /\ t.parent[t.root] = nil /\ sub[t.root] = N
  <2>1. t.root # nil
    BY DEF Shape
  <2> QED
    BY <2>1 DEF Shape
<1>12. r.parent[W(t.root)] = nil
  <2>1. CASE t.root = z
    BY <2>1, <1>1, <1>3, <1>4, <1>5
  <2>2. CASE t.root # z
    <3>1. \A e \in Dir : t.root # t.child[z][e]
      BY <1>1, <1>6, <1>11
    <3>2. t.root \in Node /\ t.root # y
      BY <1>1, <1>11
    <3> QED
      BY <2>2, <3>1, <3>2, <1>3, <1>4, <1>11
  <2> QED
    BY <2>1, <2>2
<1>13. /\ \A n \in Node : sub[n] \in SUBSET N
       /\ sub[nil] = {}
       /\ \A n \in N : sub[n] \in SUBSET N
  BY <1>1 DEF Shape
<1>14. \A n \in N \cup {nil} : s[W(n)] = NowAll(sub[n], z, y)
  <2> TAKE n \in N \cup {nil}
  <2>1. CASE n = z
    BY <2>1, <1>1, <1>3 DEF Renamed
  <2>2. CASE n # z
    BY <2>2, <1>1, <1>3 DEF Renamed
  <2> QED
    BY <2>1, <2>2
<1>15. s \in [Node -> SUBSET M]
  <2>1. \A n \in Node : n # z => NowAll(sub[IF n = y THEN z ELSE n], z, y) \in SUBSET M
    BY <1>1, <1>2, <1>13
  <2> HIDE DEF M
  <2> QED
    BY <2>1 DEF Renamed
<1> HIDE DEF s
<1>16. M \in SUBSET Key /\ IsFiniteSet(M)
  <2>1. IsFiniteSet(N)
    BY DEF Shape
  <2>2. IsFiniteSet(N \ {z})
    BY <2>1, FS_RemoveElement
  <2>3. IsFiniteSet((N \ {z}) \cup {y})
    BY <2>2, FS_AddElement
  <2> QED
    BY <2>3, <1>1
<1>17. s[nil] = {}
  <2>1. NowAll({}, z, y) = {}
    BY DEF NowAll
  <2> QED
    BY <2>1, <1>2, <1>13, <1>14
<1>18. s[W(t.root)] = M
  <2>1. NowAll(N, z, y) = M
    BY DEF NowAll
  <2> QED
    BY <2>1, <1>11, <1>14
<1>19. \A n \in M, d \in Dir :
         /\ r.child[n][d] \in M \cup {nil}
         /\ r.child[n][d] # nil => r.parent[r.child[n][d]] = n
  <2> TAKE n \in M, d \in Dir
  <2>1. PICK m \in N : n = W(m)
    BY <1>2
  <2>2. t.child[m][d] \in N \cup {nil} /\ r.child[n][d] = W(t.child[m][d])
    BY <2>1, <1>6, <1>7
  <2> HIDE DEF M
  <2> QED
    BY <2>1, <2>2, <1>2, <1>10
<1>20. \A n \in M : n # r.root => r.parent[n] \in M /\ \E d \in Dir : r.child[r.parent[n]][d] = n
  <2> SUFFICES ASSUME NEW n \in M, n # r.root
               PROVE  r.parent[n] \in M /\ \E d \in Dir : r.child[r.parent[n]][d] = n
    OBVIOUS
  <2>1. PICK m \in N : n = W(m)
    BY <1>2
  <2>2. m # t.root
    BY <2>1, <1>8
  <2>3. PICK d \in Dir : t.parent[m] \in N /\ t.child[t.parent[m]][d] = m
    BY <2>2 DEF Shape
  <2>4. r.parent[n] = W(t.parent[m]) /\ r.child[W(t.parent[m])][d] = n /\ W(t.parent[m]) \in M
    BY <2>1, <2>3, <1>1, <1>2, <1>7, <1>10
  <2> QED
    BY <2>4
<1>21. \A n \in M, d \in Dir : s[n] = {n} \cup s[r.child[n][d]] \cup s[r.child[n][Opposite(d)]]
  <2> TAKE n \in M, d \in Dir
  <2>1. PICK m \in N : n = W(m)
    BY <1>2
  <2>2. Opposite(d) \in Dir /\ t.child[m][d] \in N \cup {nil} /\ t.child[m][Opposite(d)] \in N \cup {nil}
        /\ r.child[n][d] = W(t.child[m][d]) /\ r.child[n][Opposite(d)] = W(t.child[m][Opposite(d)])
    BY <2>1, <1>6, <1>7, OppositeIs
  <2>3. \A k \in N \cup {nil} : s[W(k)] = {W(j) : j \in sub[k]}
    BY <1>2, <1>13, <1>14
  <2>4. sub[m] = {m} \cup sub[t.child[m][d]] \cup sub[t.child[m][Opposite(d)]]
    BY DEF Shape
  <2>5. s[n] = {W(j) : j \in sub[m]} /\ s[r.child[n][d]] = {W(j) : j \in sub[t.child[m][d]]}
        /\ s[r.child[n][Opposite(d)]] = {W(j) : j \in sub[t.child[m][Opposite(d)]]}
    BY <2>1, <2>2, <2>3
  <2> QED
    BY <2>1, <2>4, <2>5
<1>22. \A n \in M, d \in Dir : \A m \in s[r.child[n][d]] : Side(d, m, n)
  <2> TAKE n \in M, d \in Dir
  <2>1. PICK k \in N : n = W(k)
    BY <1>2
  <2>2. t.child[k][d] \in N \cup {nil} /\ r.child[n][d] = W(t.child[k][d])
    BY <2>1, <1>6, <1>7
  <2>3. s[r.child[n][d]] = {W(j) : j \in sub[t.child[k][d]]}
    BY <2>2, <1>2, <1>13, <1>14
  <2>4. ASSUME NEW j \in sub[t.child[k][d]] PROVE Side(d, W(j), W(k))
    <3>0. Side(d, j, k)
      BY DEF Shape
    <3>1. CASE j = z
      <4>1. k # z
        BY <3>1, <2>4, Apart
      <4>2. Side(d, y, k)
        BY <3>1, <2>4 DEF Fits
      <4> QED
        BY <3>1, <4>1, <4>2, <1>3
    <3>2. CASE j # z /\ k = z
      BY <3>2, <2>4, <1>3 DEF Fits
    <3>3. CASE j # z /\ k # z
      BY <3>3, <3>0, <1>3
    <3> QED
      BY <3>1, <3>2, <3>3
  <2> QED
    BY <2>1, <2>3, <2>4
<1>23. r.root \in M \cup {nil} /\ s[r.root] = M /\ (r.root # nil => r.parent[r.root] = nil)
  BY <1>2, <1>8, <1>11, <1>12, <1>18
<1> HIDE DEF M
<1>24. Shape(r, M, s)
  BY <1>4, <1>15, <1>16, <1>17, <1>19, <1>20, <1>21, <1>22, <1>23 DEF Shape
<1>25. Follows(r, t, N, z, y)
  BY <1>7, <1>8, <1>9 DEF Follows, W
<1> QED
  BY <1>24, <1>25 DEF M, s

\* The gaps, when y replaces z.
MovedGaps(gaps, z, y) == {<<Now(g[1], z, y), g[2]>> : g \in gaps}

\* So do the numbers of black nodes, as y has the color of z.
LEMMA ReplacedColors ==
  ASSUME NEW t, NEW N, NEW sub, Shape(t, N, sub), NEW z \in N, NEW y \in Key, y \notin N,
         NEW r, r \in Trees, Follows(r, t, N, z, y),
         NEW B, NEW gaps \in SUBSET (N \X Dir), Balanced(t, N, B, gaps),
         NEW C, RedsApart(t, N, {}, C), z \notin C
  PROVE  /\ Balanced(r, (N \ {z}) \cup {y}, [B EXCEPT ![y] = B[z]], MovedGaps(gaps, z, y))
         /\ RedsApart(r, (N \ {z}) \cup {y}, {}, C)
         /\ is_black(t, t.root) => is_black(r, r.root)
<1> DEFINE M == (N \ {z}) \cup {y}
           A == [B EXCEPT ![y] = B[z]]
           W(n) == Now(n, z, y)
<1>1. /\ N \subseteq Key /\ nil \notin N /\ nil \in Node /\ N \subseteq Node /\ t \in Trees
      /\ y # nil /\ y \in Node /\ z # y /\ z # nil /\ z \in Node /\ N \in SUBSET Key
  BY NilIs DEF Shape
<1>2. /\ \A n \in M : \E m \in N : n = W(m)
      /\ \A m \in N : W(m) \in M /\ W(m) # nil
      /\ \A m, n \in N \cup {nil} : W(m) = W(n) => m = n
      /\ W(nil) = nil
      /\ \A S \in SUBSET N : NowAll(S, z, y) = {W(m) : m \in S} /\ NowAll(S, z, y) \in SUBSET M
  BY <1>1, NowIs
<1>3. W(z) = y /\ \A n : n # z => W(n) = n
  BY DEF Now
<1>4. MovedGaps(gaps, z, y) = {<<W(g[1]), g[2]>> : g \in gaps}
  BY DEF MovedGaps
<1> HIDE DEF W
<1>5. /\ r.root = W(t.root)
      /\ \A n \in N, d \in Dir : r.child[W(n)][d] = W(t.child[n][d])
      /\ \A n \in N \cup {nil} : r.color[W(n)] = t.color[n]
  BY DEF Follows, W
<1>6. B \in [Node -> Nat] /\ B[nil] = 0
  BY DEF Balanced
<1>7. A \in [Node -> Nat] /\ A[nil] = 0 /\ \A n \in N \cup {nil} : A[W(n)] = B[n]
  BY <1>1, <1>3, <1>6
<1> HIDE DEF A
<1>8. \A n \in N, d \in Dir : Missing(MovedGaps(gaps, z, y), W(n), d) = Missing(gaps, n, d)
  <2> TAKE n \in N, d \in Dir
  <2>1. <<W(n), d>> \in MovedGaps(gaps, z, y) <=> <<n, d>> \in gaps
    <3>1. <<n, d>> \in gaps => <<W(n), d>> \in MovedGaps(gaps, z, y)
      BY <1>4
    <3>2. ASSUME <<W(n), d>> \in MovedGaps(gaps, z, y) PROVE <<n, d>> \in gaps
      <4>1. PICK g \in gaps : <<W(n), d>> = <<W(g[1]), g[2]>>
        BY <1>4, <3>2
      <4>2. g = <<g[1], g[2]>> /\ g[1] \in N
        OBVIOUS
      <4>3. W(n) = W(g[1]) /\ d = g[2]
        BY <4>1
      <4>4. n = g[1]
        BY <4>2, <4>3, <1>2
      <4> QED
        BY <4>2, <4>3, <4>4
    <3> QED
      BY <3>1, <3>2
  <2> QED
    BY <2>1 DEF Missing
<1>9. \A n \in N \cup {nil} : /\ is_black(r, W(n)) <=> is_black(t, n)
                              /\ is_red(r, W(n)) <=> is_red(t, n)
                              /\ Weight(r, W(n)) = Weight(t, n)
  BY <1>5 DEF is_black, is_red, Weight
<1>10. \A n \in N, d \in Dir : t.child[n][d] \in N \cup {nil}
  BY ChildLinks
<1>11. ASSUME NEW n \in M, NEW d \in Dir
       PROVE  A[n] = A[r.child[n][d]] + Missing(MovedGaps(gaps, z, y), n, d) + Weight(r, n)
  <2>1. PICK m \in N : n = W(m)
    BY <1>2
  <2>2. B[m] = B[t.child[m][d]] + Missing(gaps, m, d) + Weight(t, m)
    BY DEF Balanced
  <2>3. A[n] = B[m] /\ A[r.child[n][d]] = B[t.child[m][d]]
    BY <2>1, <1>5, <1>7, <1>10
  <2>4. Missing(MovedGaps(gaps, z, y), n, d) = Missing(gaps, m, d) /\ Weight(r, n) = Weight(t, m)
    BY <2>1, <1>8, <1>9
  <2> QED
    BY <2>2, <2>3, <2>4
<1>12. ASSUME NEW n \in M, NEW d \in Dir, is_red(r, n), is_red(r, r.child[n][d])
       PROVE  r.child[n][d] \in C
  <2>1. PICK m \in N : n = W(m)
    BY <1>2
  <2>2. is_red(t, m) /\ is_red(t, t.child[m][d])
    BY <2>1, <1>5, <1>9, <1>10, <1>12
  <2>3. t.child[m][d] \in C
    BY <2>2 DEF RedsApart
  <2>4. t.child[m][d] # z
    BY <2>3
  <2> QED
    BY <2>1, <2>3, <2>4, <1>3, <1>5
<1>13. is_black(r, nil)
  BY <1>2, <1>9 DEF RedsApart
<1>14. is_black(t, t.root) => is_black(r, r.root)
  <2>1. t.root \in N \cup {nil}
    BY DEF Shape
  <2> QED
    BY <2>1, <1>5, <1>9
<1> QED
  BY <1>7, <1>11, <1>12, <1>13, <1>14 DEF Balanced, RedsApart, A, M

\* A red-black tree.
Sane(t, N, sub, B) ==
  /\ Shape(t, N, sub)
  /\ Balanced(t, N, B, {})
  /\ RedsApart(t, N, {}, {})
  /\ is_black(t, t.root)

\* A black node is missing above x, the node to be fixed.
GapAbove(t, N, B, x) ==
  IF x = t.root THEN Balanced(t, N, B, {})
  ELSE \E p \in N, d \in Dir :
         t.parent[x] = p /\ t.child[p][d] = x /\ Balanced(t, N, B, {<<p, d>>})

\* A search tree in which that is all that is wrong, but that x may be red next to a
\* red node.
GapAt(t, N, sub, B, x) ==
  /\ Shape(t, N, sub)
  /\ x \in N \cup {nil}
  /\ RedsApart(t, N, {x}, {x})
  /\ t.root = x \/ is_black(t, t.root)
  /\ GapAbove(t, N, B, x)

\* The node with datum u was taken out of the tree, v in its place.
LEMMA OuterUnlinked ==
  ASSUME NEW t, NEW N, NEW sub, NEW B, Sane(t, N, sub, B), NEW u \in N, NEW v,
         OuterWith(t, u, v), NEW r, r = rb_transplant(t, u, v)
  PROVE  /\ is_black(t, u) => GapAt(r, N \ {u}, Without(sub, u), B, v)
         /\ ~is_black(t, u) => Sane(r, N \ {u}, Without(sub, u), B)
<1> DEFINE M == N \ {u}
           s == Without(sub, u)
           p == t.parent[u]
           c == child_dir(t, u)
<1>1. Shape(t, N, sub) /\ Balanced(t, N, B, {}) /\ RedsApart(t, N, {}, {}) /\ is_black(t, t.root)
  BY DEF Sane
<1>2. /\ v \in N \cup {nil} /\ v # u /\ Transplanted(r, t, u, v) /\ Shape(r, M, s)
  BY <1>1, OuterShape
<1>3. /\ Balanced(r, M, B, GapFrom(t, u))
      /\ RedsApart(r, M, {}, {v})
      /\ is_red(t, u) => RedsApart(r, M, {}, {})
      /\ r.root = v \/ is_black(r, r.root)
      /\ p = nil => r.root = v
  BY <1>1, OuterColors
<1> HIDE DEF M, s
<1>4. /\ N \subseteq Key /\ nil \notin N /\ nil \in Node /\ N \subseteq Node /\ t \in Trees
      /\ u # nil /\ u \in Node
  BY <1>1, NilIs DEF Shape
<1>5. is_red(t, u) <=> ~is_black(t, u)
  BY <1>4, ColorIs
<1>6. p # nil => /\ p \in M /\ c \in Dir /\ r.parent[v] = p /\ r.child[p][c] = v /\ r.root # v
  <2> SUFFICES ASSUME p # nil
               PROVE  /\ p \in M /\ c \in Dir /\ r.parent[v] = p /\ r.child[p][c] = v
                      /\ r.root # v
    OBVIOUS
  <2>1. u # t.root
    BY <1>1, <1>4 DEF Shape
  <2>2. p \in N /\ c \in Dir /\ p # u
    <3>1. p # u
      BY <1>1, <1>4, Apart DEF Dir
    <3> QED
      BY <3>1, <2>1, <1>1, ChildDirIs
  <2>3. r.parent[v] = p /\ r.child[p][c] = v /\ r.root = t.root
    BY <2>2, <1>2, <1>4 DEF Transplanted
  <2>4. t.root # nil /\ t.parent[t.root] = nil
    BY <1>1, <1>4 DEF Shape
  <2>5. v # nil => t.parent[v] = u
    <3>1. PICK d \in Dir : v = t.child[u][Opposite(d)]
      BY DEF OuterWith
    <3> QED
      BY <3>1, <1>1, OppositeIs, ChildLinks
  <2>6. t.root # v
    BY <2>4, <2>5, <1>4
  <2> QED
    BY <2>2, <2>3, <2>6 DEF M
<1> HIDE DEF p, c
<1>7. GapFrom(t, u) = IF is_black(t, u) /\ p # nil THEN {<<p, c>>} ELSE {}
  BY DEF GapFrom, p, c
<1>8. ASSUME is_black(t, u) PROVE GapAt(r, M, s, B, v)
  <2>1. v \in M \cup {nil}
    BY <1>2 DEF M
  <2>2. RedsApart(r, M, {v}, {v})
    BY <1>3 DEF RedsApart
  <2>3. CASE p = nil
    <3>1. GapAbove(r, M, B, v)
      BY <2>3, <1>3, <1>7 DEF GapAbove
    <3> QED
      BY <3>1, <2>1, <2>2, <1>2, <1>3 DEF GapAt
  <2>4. CASE p # nil
    <3>1. Balanced(r, M, B, {<<p, c>>})
      BY <2>4, <1>3, <1>7, <1>8
    <3>2. GapAbove(r, M, B, v)
      BY <2>4, <3>1, <1>6 DEF GapAbove
    <3> QED
      BY <3>2, <2>1, <2>2, <1>2, <1>3 DEF GapAt
  <2> QED
    BY <2>3, <2>4
<1>9. ASSUME ~is_black(t, u) PROVE Sane(r, M, s, B)
  <2>1. p # nil
    <3>1. u # t.root
      BY <1>1, <1>9
    <3> QED
      BY <3>1, <1>1, <1>4 DEF Shape, p
  <2>2. GapFrom(t, u) = {}
    BY <1>7, <1>9
  <2> QED
    BY <2>1, <2>2, <1>2, <1>3, <1>5, <1>6, <1>9 DEF Sane
<1> QED
  BY <1>8, <1>9 DEF M, s

\* y is in the right subtree of z, and what is there and not below y is greater.
Leftmost(t, sub, z, y) ==
  /\ y \in sub[t.child[z][RB_R]]
  /\ \A m \in sub[t.child[z][RB_R]] : m \in sub[y] \/ Side(RB_R, m, y)

\* y fits in the place of z once it was taken from its own.
LEMMA SuccessorFits ==
  ASSUME NEW t, NEW N, NEW sub, Shape(t, N, sub), NEW z \in N, NEW y \in N,
         Leftmost(t, sub, z, y), t.child[y][RB_L] = nil,
         NEW r, SubtreesKept(r, t, N, sub, y)
  PROVE  /\ z # y /\ y # t.child[z][RB_L]
         /\ Fits(r, N \ {y}, Without(sub, y), z, y)
<1>1. /\ N \subseteq Key /\ nil \notin N /\ nil \in Node /\ N \subseteq Node /\ t \in Trees
      /\ RB_L \in Dir /\ RB_R \in Dir /\ Opposite(RB_L) = RB_R /\ Opposite(RB_R) = RB_L
      /\ \A d \in Dir : d = RB_L \/ d = RB_R
  <2>1. /\ RB_L \in Dir /\ RB_R \in Dir /\ Opposite(RB_L) = RB_R /\ Opposite(RB_R) = RB_L
        /\ \A d \in Dir : d = RB_L \/ d = RB_R
    BY DEF Dir, RB_L, RB_R, Opposite
  <2> QED
    BY <2>1, NilIs DEF Shape
<1>2. y \in sub[t.child[z][RB_R]] /\ \A m \in sub[t.child[z][RB_R]] : m \in sub[y] \/ Side(RB_R, m, y)
  BY DEF Leftmost
<1>3. /\ z \notin sub[t.child[z][RB_R]]
      /\ sub[t.child[z][RB_R]] \cap sub[t.child[z][RB_L]] = {}
      /\ y \in sub[y]
  BY <1>1, Apart
<1>4. z # y /\ y # t.child[z][RB_L]
  BY <1>2, <1>3
<1>5. y \in sub[z]
  BY <1>1, <1>2 DEF Shape
<1>6. \A n \in N \ {y}, e \in Dir : Without(sub, y)[r.child[n][e]] = sub[t.child[n][e]] \ {y}
  BY DEF SubtreesKept
<1>7. \A n \in N, d \in Dir : \A m \in sub[t.child[n][d]] : Side(d, m, n)
  BY DEF Shape
<1>8. ASSUME NEW n \in N \ {y}, NEW d \in Dir, z \in Without(sub, y)[r.child[n][d]]
      PROVE  Side(d, y, n)
  <2>1. z \in sub[t.child[n][d]]
    BY <1>6, <1>8
  <2>2. t.child[n][d] \in N
    <3>1. t.child[n][d] \in N \cup {nil} /\ sub[nil] = {}
      BY DEF Shape
    <3> QED
      BY <3>1, <2>1
  <2>3. sub[z] \subseteq sub[t.child[n][d]]
    BY <2>1, <2>2, Nested
  <2> QED
    BY <2>3, <1>5, <1>7
<1>9. ASSUME NEW d \in Dir, NEW m \in Without(sub, y)[r.child[z][d]]
      PROVE  Side(d, m, y)
  <2>1. m \in sub[t.child[z][d]] /\ m # y
    BY <1>4, <1>6
  <2>0. m \in N
    <3>1. t.child[z][d] \in Node
      BY ChildLinks
    <3> QED
      BY <3>1, <2>1 DEF Shape
  <2>2. CASE d = RB_L
    <3>1. Side(RB_L, m, z)
      BY <2>1, <2>2, <1>7
    <3>2. Side(RB_R, y, z)
      BY <1>1, <1>2, <1>7
    <3>3. m \in Key /\ z \in Key /\ y \in Key
      BY <2>0, <1>1
    <3>4. Side(RB_L, z, y)
      BY <1>1, <3>2, <3>3, SidesDiffer
    <3> QED
      BY <2>2, <3>1, <3>3, <3>4, <1>1, SidesDiffer
  <2>3. CASE d = RB_R
    <3>1. m \in sub[y] \/ Side(RB_R, m, y)
      BY <2>1, <2>3, <1>2
    <3>2. m \in sub[y] => m \in sub[t.child[y][RB_R]]
      <4>1. sub[y] = {y} \cup sub[t.child[y][RB_R]] \cup sub[t.child[y][RB_L]] /\ sub[nil] = {}
        BY <1>1 DEF Shape
      <4> QED
        BY <4>1, <2>1
    <3>3. m \in sub[y] => Side(RB_R, m, y)
      BY <3>2, <1>1, <1>7
    <3> QED
      BY <2>3, <3>1, <3>3
  <2> QED
    BY <2>2, <2>3, <1>1
<1> QED
  BY <1>4, <1>8, <1>9 DEF Fits

\* What z and its successor y are.
SuccessorOf(t, N, sub, z, y) ==
  /\ z \in N /\ y \in N
  /\ t.child[z][RB_L] # nil
  /\ Leftmost(t, sub, z, y)
  /\ t.child[y][RB_L] = nil

\* Where the gap is after y was taken from its place and put in that of z.
GapMoved(r, t, N, z, y, x) ==
  t.parent[y] # nil /\ x # r.root /\ Now(t.parent[y], z, y) \in N \ {z}
  /\ child_dir(t, y) \in Dir
  /\ r.parent[x] = Now(t.parent[y], z, y)
  /\ r.child[Now(t.parent[y], z, y)][child_dir(t, y)] = x

\* x is the right child of y, u is t with x in the place of y, and r the tree
\* that has y in the place of z as well.
Taken(t, z, y, x, u, r) ==
  /\ x = t.child[y][RB_R]
  /\ u = rb_transplant(t, y, x)
  /\ r = Succeeded(t, z, y)

\* x is the only child of y and no other node's.
OnlyChild(t, z, y, x, u) ==
  OuterWith(t, y, x) /\ x # z /\ u.root # x /\ u.color = t.color

\* What DeleteSuccessor does to the links.
LEMMA SuccessorLinks ==
  ASSUME NEW t, NEW N, NEW sub, Shape(t, N, sub), NEW z, NEW y, SuccessorOf(t, N, sub, z, y),
         NEW x, NEW u, NEW r, Taken(t, z, y, x, u, r)
  PROVE  /\ OnlyChild(t, z, y, x, u)
         /\ Shape(u, N \ {y}, Without(sub, y)) /\ z \in N \ {y} /\ y \in Key
         /\ Fits(u, N \ {y}, Without(sub, y), z, y)
         /\ Replaced(r, u, z, y)
         /\ GapMoved(r, t, N, z, y, x)
<1> DEFINE M == N \ {y}
           s == Without(sub, y)
           p == t.parent[y]
           c == child_dir(t, y)
<1>1. /\ z \in N /\ y \in N /\ t.child[z][RB_L] # nil /\ Leftmost(t, sub, z, y)
      /\ t.child[y][RB_L] = nil /\ y \in sub[t.child[z][RB_R]]
  BY DEF SuccessorOf, Leftmost
<1>2. /\ N \subseteq Key /\ nil \notin N /\ nil \in Node /\ N \subseteq Node /\ t \in Trees
  BY NilIs DEF Shape
<1>3. /\ RB_L \in Dir /\ RB_R \in Dir /\ Opposite(RB_L) = RB_R /\ Opposite(RB_R) = RB_L
      /\ \A d \in Dir : d = RB_L \/ d = RB_R
  BY DEF Dir, RB_L, RB_R, Opposite
<1>4. OuterWith(t, y, x)
  BY <1>1, <1>3 DEF OuterWith, Taken
<1>5. /\ x \in N \cup {nil} /\ x # y /\ Transplanted(u, t, y, x) /\ Shape(u, M, s)
      /\ SubtreesKept(u, t, N, sub, y)
  <2>1. u = rb_transplant(t, y, x)
    BY DEF Taken
  <2> QED
    BY <2>1, <1>1, <1>4, OuterShape
<1>6. z # y /\ y # t.child[z][RB_L] /\ Fits(u, M, s, z, y)
  BY <1>1, <1>5, SuccessorFits
<1> HIDE DEF M, s
<1>7. z \in M /\ y \notin M /\ M \subseteq N
  BY <1>1, <1>6 DEF M
<1>8. u.parent[z] \notin {y, z}
  <2>1. u.parent[z] # z
    BY <1>3, <1>5, <1>7, Apart
  <2>2. u.parent[z] \in M \cup {nil}
    BY <1>5, <1>7 DEF Shape
  <2> QED
    BY <2>1, <2>2, <1>1, <1>2, <1>7
<1>9. \A d \in Dir : u.child[z][d] \notin {y, z}
  <2> TAKE d \in Dir
  <2>1. u.child[z][d] # z
    BY <1>5, <1>7, Apart
  <2>2. u.child[z][d] \in M \cup {nil}
    BY <1>5, <1>7 DEF Shape
  <2> QED
    BY <2>1, <2>2, <1>1, <1>2, <1>7
<1>10. Replaced(r, u, z, y)
  <2>1. u \in Trees /\ z \in Node /\ y \in Node
    BY <1>1, <1>2, <1>5 DEF Transplanted
  <2>2. Unlinked(u, t, y)
    BY DEF Unlinked, Taken
  <2>3. Replaced(Succeeded(t, z, y), u, z, y)
    BY <1>2, <1>6, <1>8, <1>9, <2>1, <2>2, SucceededIs
  <2> QED
    BY <2>3 DEF Taken
<1>11. y # t.root
  <2>1. z \notin sub[t.child[z][RB_R]]
    BY <1>1, <1>3, Apart
  <2>2. t.child[z][RB_R] \in N
    <3>1. t.child[z][RB_R] \in N \cup {nil} /\ sub[nil] = {}
      BY <1>1, <1>3 DEF Shape
    <3> QED
      BY <3>1, <1>1
  <2>3. sub[y] \subseteq sub[t.child[z][RB_R]]
    BY <1>1, <2>2, Nested
  <2>4. sub[t.root] = N
    BY DEF Shape
  <2> QED
    BY <2>1, <2>3, <2>4, <1>1
<1>12. p \in N /\ p # y /\ c \in Dir /\ t.child[p][c] = y
  <2>1. p # y
    BY <1>1, <1>3, Apart
  <2> QED
    BY <2>1, <1>1, <1>11, ChildDirIs
<1>13. /\ u.root = t.root /\ u.parent[x] = p /\ u.child[p][c] = x /\ u.color = t.color
       /\ \A n \in Node, e \in Dir : ~(n = p /\ e = c) => u.child[n][e] = t.child[n][e]
  <2>1. p # nil /\ x \in Node /\ p \in Node
    BY <1>2, <1>5, <1>12
  <2> QED
    BY <2>1, <1>5, <1>12 DEF Transplanted
<1>14. x # t.root /\ x # z
  <2>1. t.root # nil /\ t.parent[t.root] = nil
    BY <1>1, <1>2 DEF Shape
  <2>2. x # nil => t.parent[x] = y
    <3>1. t.child[y][RB_R] # nil => t.parent[t.child[y][RB_R]] = y
      BY <1>1, <1>3, ChildLinks
    <3> QED
      BY <3>1 DEF Taken
  <2>3. x # z
    <3>1. x # nil => x \in sub[y]
      <4>1. t.child[y][RB_R] # nil => t.child[y][RB_R] \in sub[y]
        BY <1>1, <1>3, ChildBelow
      <4> QED
        BY <4>1 DEF Taken
    <3>2. sub[y] \subseteq sub[t.child[z][RB_R]] /\ z \notin sub[t.child[z][RB_R]]
      <4>1. t.child[z][RB_R] \in N
        <5>1. t.child[z][RB_R] \in N \cup {nil} /\ sub[nil] = {}
          BY <1>1, <1>3 DEF Shape
        <5> QED
          BY <5>1, <1>1
      <4> QED
        BY <4>1, <1>1, <1>3, Nested, Apart
    <3> QED
      BY <3>1, <3>2, <1>1, <1>2
  <2> QED
    BY <2>1, <2>2, <2>3, <1>1, <1>2
<1> HIDE DEF p, c
<1>24. \A d \in Dir : u.child[z][d] # nil => u.parent[u.child[z][d]] = z
  BY <1>5, <1>7, ChildLinks
<1>15. \A d \in Dir : x = u.child[z][d] => p = z
  <2> SUFFICES ASSUME NEW d \in Dir, x = u.child[z][d], p # z PROVE FALSE
    OBVIOUS
  <2>0. x = u.child[z][d]
    OBVIOUS
  <2>1. u.child[z][d] = t.child[z][d] /\ d # RB_R => x = t.child[z][RB_L]
    BY <1>1, <1>2, <1>3, <1>13
  <2>2. u.child[z][d] = t.child[z][d]
    BY <1>1, <1>2, <1>13
  <2>3. x # nil => u.parent[x] = z
    BY <1>24, <2>0
  <2>4. x = nil
    BY <2>3, <1>13
  <2>5. \A e \in Dir : t.child[z][e] # nil
    <3>1. sub[nil] = {}
      BY DEF Shape
    <3> QED
      BY <3>1, <1>1, <1>3
  <2> QED
    BY <2>2, <2>4, <2>5
<1>16. p = z => \E d \in Dir : x = u.child[z][d]
  BY <1>12, <1>13
<1>17. r.parent[x] = Now(p, z, y)
  <2>1. x \in Node /\ x # y
    BY <1>2, <1>5
  <2>2. r.parent[x] = IF \E d \in Dir : x = u.child[z][d] THEN y ELSE u.parent[x]
    BY <2>1, <1>10 DEF Replaced
  <2> QED
    BY <2>2, <1>13, <1>15, <1>16 DEF Now
<1>18. y \in Key
  BY <1>1, <1>2
<1>19. Follows(r, u, M, z, y)
  BY <1>5, <1>6, <1>7, <1>10, <1>18, ReplacedShape
<1>20. r.child[Now(p, z, y)][c] = x
  <2>1. p \in M
    BY <1>12 DEF M
  <2>2. r.child[Now(p, z, y)][c] = Now(u.child[p][c], z, y)
    BY <2>1, <1>12, <1>19 DEF Follows
  <2> QED
    BY <2>2, <1>13, <1>14 DEF Now
<1>21. r.root # x
  <2>1. r.root = Now(t.root, z, y)
    BY <1>13, <1>19 DEF Follows
  <2> QED
    BY <2>1, <1>5, <1>14 DEF Now
<1>22. Now(p, z, y) \in N \ {z} /\ p # nil
  BY <1>1, <1>2, <1>6, <1>12 DEF Now
<1>23. GapMoved(r, t, N, z, y, x)
  BY <1>12, <1>17, <1>20, <1>21, <1>22 DEF GapMoved, p, c
<1> QED
  BY <1>4, <1>5, <1>6, <1>7, <1>10, <1>13, <1>14, <1>18, <1>23 DEF M, s, OnlyChild

\* z was taken out of the tree, its successor y in its place.
LEMMA SuccessorUnlinked ==
  ASSUME NEW t, NEW N, NEW sub, NEW B, Sane(t, N, sub, B), NEW z, NEW y,
         SuccessorOf(t, N, sub, z, y),
         NEW x, NEW u, NEW r, Taken(t, z, y, x, u, r)
  PROVE  \E sub1, B1 :
           /\ is_black(t, y) => GapAt(r, N \ {z}, sub1, B1, x)
           /\ ~is_black(t, y) => Sane(r, N \ {z}, sub1, B1)
<1> DEFINE M  == N \ {y}
           s  == Without(sub, y)
           s1 == Renamed(s, z, y)
           B1 == [B EXCEPT ![y] = B[z]]
           p  == t.parent[y]
           c  == child_dir(t, y)
           q  == Now(p, z, y)
<1>1. Shape(t, N, sub) /\ Balanced(t, N, B, {}) /\ RedsApart(t, N, {}, {}) /\ is_black(t, t.root)
  BY DEF Sane
<1>2. /\ OuterWith(t, y, x) /\ x # z
      /\ Shape(u, M, s) /\ z \in M /\ y \in Key
      /\ Fits(u, M, s, z, y)
      /\ Replaced(r, u, z, y)
      /\ GapMoved(r, t, N, z, y, x)
      /\ u.root # x /\ u.color = t.color
  <2>0. Shape(t, N, sub) /\ SuccessorOf(t, N, sub, z, y) /\ Taken(t, z, y, x, u, r)
    BY <1>1
  <2> HIDE DEF M, s
  <2>1. OnlyChild(t, z, y, x, u)
    BY <2>0, SuccessorLinks
  <2>2. Shape(u, N \ {y}, Without(sub, y)) /\ z \in N \ {y} /\ y \in Key
    BY <2>0, SuccessorLinks
  <2>3. Fits(u, N \ {y}, Without(sub, y), z, y)
    BY <2>0, SuccessorLinks
  <2>4. Replaced(r, u, z, y)
    BY <2>0, SuccessorLinks
  <2>5. GapMoved(r, t, N, z, y, x)
    BY <2>0, SuccessorLinks
  <2> QED
    BY <2>1, <2>2, <2>3, <2>4, <2>5 DEF M, s, OnlyChild
<1>3. y \in N /\ z \in N /\ z # y
  BY <1>2 DEF SuccessorOf
<1>4. /\ Balanced(u, M, B, GapFrom(t, y))
      /\ RedsApart(u, M, {}, {x})
      /\ is_red(t, y) => RedsApart(u, M, {}, {})
      /\ is_black(u, u.root)
      /\ x \in N \cup {nil} /\ x # y
  <2>0. u = rb_transplant(t, y, x)
    BY DEF Taken
  <2>1. x \in N \cup {nil} /\ x # y
    BY <2>0, <1>1, <1>2, <1>3, OuterShape
  <2> QED
    BY <2>0, <2>1, <1>1, <1>2, <1>3, OuterColors, Zenon
<1>5. y \notin M /\ (M \ {z}) \cup {y} = N \ {z}
  BY <1>3
<1> HIDE DEF M, s
<1>6. Shape(r, N \ {z}, s1) /\ Follows(r, u, M, z, y)
  <2>1. Shape(r, (M \ {z}) \cup {y}, s1) /\ Follows(r, u, M, z, y)
    BY <1>2, <1>5, ReplacedShape
  <2> QED
    BY <2>1, <1>5
<1>7. /\ p # nil /\ x # r.root /\ q \in N \ {z} /\ c \in Dir
      /\ r.parent[x] = q /\ r.child[q][c] = x
  BY <1>2 DEF GapMoved
<1>8. GapFrom(t, y) = IF is_black(t, y) THEN {<<p, c>>} ELSE {}
  BY <1>7 DEF GapFrom
<1>9. p \in M
  <2>1. y # t.root
    BY <1>1, <1>3, <1>7 DEF Shape
  <2>2. p \in N
    BY <1>1, <1>3, <2>1 DEF Shape
  <2>3. p # y
    <3>1. RB_L \in Dir
      BY DEF Dir
    <3> QED
      BY <3>1, <1>1, <1>3, Apart
  <2> QED
    BY <2>2, <2>3 DEF M
<1> HIDE DEF p, c
<1>10. GapFrom(t, y) \in SUBSET (M \X Dir)
  BY <1>7, <1>8, <1>9
<1>11. MovedGaps(GapFrom(t, y), z, y) = IF is_black(t, y) THEN {<<q, c>>} ELSE {}
  <2>1. \A a, b : {<<Now(g[1], z, y), g[2]>> : g \in {<<a, b>>}} = {<<Now(a, z, y), b>>}
    OBVIOUS
  <2>2. {<<Now(g[1], z, y), g[2]>> : g \in {}} = {}
    OBVIOUS
  <2> QED
    BY <2>1, <2>2, <1>8 DEF MovedGaps
<1>12. r \in Trees
  BY <1>6 DEF Shape
<1> HIDE DEF q
<1>13. ASSUME is_black(t, y) PROVE GapAt(r, N \ {z}, s1, B1, x)
  <2>1. z \notin {x}
    BY <1>2
  <2>2. /\ Balanced(r, (M \ {z}) \cup {y}, B1, MovedGaps(GapFrom(t, y), z, y))
        /\ RedsApart(r, (M \ {z}) \cup {y}, {}, {x})
        /\ is_black(u, u.root) => is_black(r, r.root)
    BY <2>1, <1>2, <1>4, <1>5, <1>6, <1>10, <1>12, ReplacedColors
  <2>3. Balanced(r, N \ {z}, B1, {<<q, c>>}) /\ RedsApart(r, N \ {z}, {}, {x}) /\ is_black(r, r.root)
    BY <2>2, <1>4, <1>5, <1>11, <1>13
  <2>4. GapAbove(r, N \ {z}, B1, x)
    BY <2>3, <1>7 DEF GapAbove
  <2>5. RedsApart(r, N \ {z}, {x}, {x})
    BY <2>3 DEF RedsApart
  <2>6. x \in (N \ {z}) \cup {nil}
    BY <1>2, <1>4
  <2> QED
    BY <2>3, <2>4, <2>5, <2>6, <1>6 DEF GapAt
<1>14. ASSUME ~is_black(t, y) PROVE Sane(r, N \ {z}, s1, B1)
  <2>0. is_red(t, y)
    <3>1. t \in Trees /\ y \in Node
      BY <1>1, <1>3, NilIs DEF Shape
    <3> QED
      BY <3>1, <1>14, ColorIs
  <2>1. PICK C : C = {} /\ z \notin C /\ RedsApart(u, M, {}, C)
    BY <2>0, <1>4
  <2>2. /\ Balanced(r, (M \ {z}) \cup {y}, B1, MovedGaps(GapFrom(t, y), z, y))
        /\ RedsApart(r, (M \ {z}) \cup {y}, {}, C)
        /\ is_black(u, u.root) => is_black(r, r.root)
    BY <2>1, <1>2, <1>4, <1>5, <1>6, <1>10, <1>12, ReplacedColors
  <2> QED
    BY <2>1, <2>2, <1>4, <1>5, <1>6, <1>11, <1>14 DEF Sane
<1> QED
  BY <1>13, <1>14

-----------------------------------------------------------------------------
(* Deletion: rb_delete_fixup(). *)

\* The black node that is missing is missing above x, a black node that is the
\* child of p on side d.
BlackGap(t, N, sub, B, x, p, d) ==
  /\ Shape(t, N, sub)
  /\ x \in N \cup {nil} /\ x # t.root /\ is_black(t, x)
  /\ RedsApart(t, N, {}, {})
  /\ is_black(t, t.root)
  /\ p \in N /\ d \in Dir
  /\ t.parent[x] = p /\ t.child[p][d] = x
  /\ Balanced(t, N, B, {<<p, d>>})

\* There is a sibling then.
LEMMA GapSide ==
  ASSUME NEW t, NEW N, NEW sub, NEW B, NEW x, NEW p, NEW d, BlackGap(t, N, sub, B, x, p, d)
  PROVE  /\ t.child[p][Opposite(d)] \in N
         /\ t.child[p][Opposite(d)] \notin {x, p} /\ x # p
         /\ B[t.child[p][Opposite(d)]] > 0
         /\ B[p] > 0
         /\ child_dir(t, x) = d
         /\ t.parent[t.child[p][Opposite(d)]] = p
         /\ t.child[p][Opposite(d)] # t.root
         /\ child_dir(t, t.child[p][Opposite(d)]) = Opposite(d)
<1> DEFINE o == Opposite(d)
           w == t.child[p][o]
<1>1. /\ Shape(t, N, sub) /\ x \in N \cup {nil} /\ p \in N /\ d \in Dir
      /\ t.parent[x] = p /\ t.child[p][d] = x /\ Balanced(t, N, B, {<<p, d>>})
  BY DEF BlackGap
<1>2. /\ o \in Dir /\ o # d /\ Opposite(o) = d /\ \A e \in Dir : e = d \/ e = o
  BY <1>1, OppositeIs
<1>3. /\ N \subseteq Key /\ nil \notin N /\ nil \in Node /\ N \subseteq Node /\ t \in Trees
  BY <1>1, NilIs DEF Shape
<1>4. w \in N \cup {nil} /\ x # p /\ w # p /\ (x # nil => x # w)
      /\ (w # nil => t.parent[w] = p)
  <2>1. x # nil => t.child[p][d] # t.child[p][Opposite(d)]
    BY <1>1, <1>3, Apart
  <2>2. p # t.child[p][d] /\ p # t.child[p][o]
    BY <1>1, <1>2, Apart
  <2> QED
    BY <2>1, <2>2, <1>1, <1>2, ChildLinks
<1>5. B[p] = B[x] + 1 + Weight(t, p) /\ B[p] = B[w] + 0 + Weight(t, p)
  <2>1. /\ B[p] = B[t.child[p][d]] + Missing({<<p, d>>}, p, d) + Weight(t, p)
        /\ B[p] = B[t.child[p][o]] + Missing({<<p, d>>}, p, o) + Weight(t, p)
    BY <1>1, <1>2 DEF Balanced
  <2>2. Missing({<<p, d>>}, p, d) = 1 /\ Missing({<<p, d>>}, p, o) = 0
    BY <1>2 DEF Missing
  <2> QED
    BY <2>1, <2>2, <1>1
<1>6. B[p] \in Nat /\ B[x] \in Nat /\ B[w] \in Nat /\ B[nil] = 0 /\ Weight(t, p) \in {0, 1}
  BY <1>1, <1>3, <1>4, ColorIs DEF Balanced
<1> HIDE DEF w
<1>7. B[w] > 0 /\ B[p] > 0
  BY <1>5, <1>6
<1>8. w # nil /\ w \in N /\ w # x
  BY <1>4, <1>6, <1>7
<1>9. child_dir(t, x) = d
  <2>1. \A e \in Dir : t.child[p][e] = x <=> e = d
    BY <1>1, <1>2, <1>8 DEF w
  <2> QED
    BY <2>1, <1>1, <1>2 DEF child_dir, is_dir_child, Dir
<1>10. child_dir(t, w) = o
  <2>1. \A e \in Dir : t.child[p][e] = w <=> e = o
    BY <1>1, <1>2, <1>8 DEF w
  <2> QED
    BY <2>1, <1>2, <1>4, <1>8 DEF child_dir, is_dir_child, Dir
<1>11. w # t.root
  BY <1>1, <1>3, <1>4, <1>8 DEF Shape
<1> QED
  BY <1>4, <1>7, <1>8, <1>9, <1>10, <1>11 DEF w

\* The loop of rb_delete_fixup() runs: the gap is above a black node that is not the
\* root.
LEMMA ToBlackGap ==
  ASSUME NEW t, NEW N, NEW sub, NEW B, NEW x, GapAt(t, N, sub, B, x), x # t.root,
         is_black(t, x)
  PROVE  BlackGap(t, N, sub, B, x, t.parent[x], child_dir(t, x))
<1>1. Shape(t, N, sub) /\ x \in N \cup {nil} /\ is_black(t, t.root)
  BY DEF GapAt
<1>2. ~is_red(t, x)
  BY DEF is_red, is_black
<1>3. RedsApart(t, N, {}, {})
  BY <1>2 DEF GapAt, RedsApart
<1>4. PICK p \in N, d \in Dir :
        t.parent[x] = p /\ t.child[p][d] = x /\ Balanced(t, N, B, {<<p, d>>})
  BY DEF GapAt, GapAbove
<1>5. BlackGap(t, N, sub, B, x, p, d)
  BY <1>1, <1>3, <1>4 DEF BlackGap
<1>6. child_dir(t, x) = d
  BY <1>5, GapSide
<1> QED
  BY <1>4, <1>5, <1>6

\* The first rotation of rb_delete_fixup() makes the sibling black.
LEMMA LiftKeeps ==
  ASSUME NEW t, NEW N, NEW sub, NEW B, NEW x, NEW p, NEW d, BlackGap(t, N, sub, B, x, p, d),
         NEW r, r = lift_sibling(t, x, d)
  PROVE  \E sub1, B1 : /\ BlackGap(r, N, sub1, B1, x, p, d)
                       /\ is_black(r, r.child[p][Opposite(d)])
<1>1. /\ Shape(t, N, sub) /\ x \in N \cup {nil} /\ p \in N /\ d \in Dir
      /\ t.parent[x] = p /\ t.child[p][d] = x /\ Balanced(t, N, B, {<<p, d>>})
      /\ RedsApart(t, N, {}, {}) /\ is_black(t, t.root) /\ is_black(t, x) /\ x # t.root
  BY DEF BlackGap
<1>2. PICK o : o = Opposite(d)
  OBVIOUS
<1>3. /\ o \in Dir /\ o # d /\ Opposite(o) = d /\ \A e \in Dir : e = d \/ e = o
  BY <1>1, <1>2, OppositeIs
<1>4. PICK w : w = t.child[p][o]
  OBVIOUS
<1>5. /\ w \in N /\ w # x /\ w # p /\ x # p
  BY <1>2, <1>4, GapSide
<1>6. /\ N \subseteq Key /\ nil \notin N /\ nil \in Node /\ N \subseteq Node /\ t \in Trees
      /\ "RB_BLACK" \in Color /\ "RB_RED" \in Color
  BY <1>1, NilIs DEF Shape, Color
<1>7. r = IF is_red(t, w)
          THEN rb_node_rotate([t EXCEPT !.color[w] = "RB_BLACK", !.color[p] = "RB_RED"], p, d)
          ELSE t
  BY <1>1, <1>2, <1>4 DEF lift_sibling
<1>8. CASE ~is_red(t, w)
  <2>1. r = t /\ is_black(t, w)
    BY <1>5, <1>6, <1>7, <1>8, ColorIs
  <2>2. BlackGap(r, N, sub, B, x, p, d) /\ is_black(r, r.child[p][Opposite(d)])
    BY <2>1, <1>2, <1>4
  <2> QED
    BY <2>2
<1>9. CASE is_red(t, w)
  <2>1. PICK t1 : t1 = [t EXCEPT !.color[w] = "RB_BLACK", !.color[p] = "RB_RED"]
    OBVIOUS
  <2>2. r = rb_node_rotate(t1, p, d)
    BY <2>1, <1>7, <1>9
  <2>3. /\ Recolored(t1, t)
        /\ \A n \in Node : t1.color[n] = IF n = p THEN "RB_RED"
                                   ELSE IF n = w THEN "RB_BLACK" ELSE t.color[n]
    BY <2>1, <1>5, <1>6 DEF Recolored, Trees
  <2>4. PICK i : i = t.child[w][d]
    OBVIOUS
  <2>5. \A n \in N, e \in Dir : ~(is_red(t, n) /\ is_red(t, t.child[n][e]))
    BY <1>1 DEF RedsApart
  <2>6. /\ is_black(t, p) /\ is_black(t, i) /\ i \in N \cup {nil}
        /\ (i # nil => t.parent[i] = w)
    <3>1. ~is_red(t, p)
      BY <2>5, <1>1, <1>3, <1>4, <1>9
    <3>2. ~is_red(t, i)
      BY <2>4, <2>5, <1>1, <1>5, <1>9
    <3>3. i \in N \cup {nil} /\ (i # nil => t.parent[i] = w)
      BY <2>4, <1>1, <1>5, ChildLinks
    <3> QED
      BY <3>1, <3>2, <3>3, <1>1, <1>6, ColorIs
  <2>7. Swapped(t1, t, p, w)
    BY <2>3, <2>6, <1>9 DEF Swapped
  <2>8. NoGapThere({<<p, d>>}, p, w, d)
    BY <1>2, <1>3, <1>5 DEF NoGapThere
  <2>9. PICK s, A : s = Turned(sub, t, p, d, w, i) /\ A = Exchanged(B, p, w)
    OBVIOUS
  <2>10. /\ Shape(r, N, s)
         /\ Rotated(r, t1, p, d, w, i)
         /\ Balanced(r, N, A, {<<p, d>>})
         /\ NoNewReds(r, t, N)
         /\ r.color = t1.color
    <3>1. is_black(t, t.child[p][d]) /\ w # nil /\ w = t.child[p][Opposite(d)] /\ i = t.child[w][d]
      BY <2>4, <1>1, <1>2, <1>4, <1>5, <1>6
    <3> QED
      BY <2>2, <2>6, <2>7, <2>8, <2>9, <3>1, <1>1, SwapAndTurn
  <2>11. /\ r.root = IF t.parent[p] = nil THEN w ELSE t.root
         /\ r.parent[x] = IF x = i THEN p ELSE t.parent[x]
         /\ r.child[p][d] = x /\ r.child[p][o] = i
    <3>1. t1.root = t.root /\ t1.parent = t.parent /\ t1.child = t.child
      BY <2>3 DEF Recolored
    <3>2. x \in Node /\ p \in Node
      BY <1>1, <1>6
    <3> QED
      BY <2>10, <3>1, <3>2, <1>1, <1>3, <1>5 DEF Rotated
  <2>12. \A n \in Node : /\ n # p /\ is_black(t, n) => is_black(r, n)
                         /\ is_black(r, w)
    BY <2>3, <2>10, <1>5, <1>6 DEF is_black
  <2>13. is_black(r, r.root) /\ x # r.root
    <3>1. t.parent[p] # nil => p # t.root
      BY <1>1, <1>6 DEF Shape
    <3>2. t.root \in Node
      BY <1>1, <1>6 DEF Shape
    <3> QED
      BY <2>11, <2>12, <3>1, <3>2, <1>1, <1>5, <1>6
  <2>14. RedsApart(r, N, {}, {})
    BY <2>5, <2>10, <1>1 DEF RedsApart, NoNewReds
  <2>15. is_black(r, x) /\ is_black(r, i)
    <3>1. i # p
      <4>1. i = p => t.parent[p] = w
        BY <2>6, <1>1, <1>6
      <4>2. w \in sub[p] /\ p \notin sub[w] /\ i # nil => i \in sub[w]
        BY <2>4, <1>1, <1>3, <1>4, <1>5, <1>6, ChildBelow
      <4>3. w \in sub[p] /\ p \notin sub[w]
        BY <1>1, <1>3, <1>4, <1>5, <1>6, ChildBelow
      <4>4. p \in sub[p] /\ p # nil
        BY <1>1, <1>6, Apart
      <4>5. i # nil => i \in sub[w]
        BY <2>4, <1>1, <1>5, ChildBelow
      <4> QED
        BY <4>3, <4>4, <4>5
    <3> QED
      BY <2>6, <2>12, <3>1, <1>1, <1>5, <1>6
  <2>16. r.parent[x] = p
    BY <2>11, <1>1
  <2>17. BlackGap(r, N, s, A, x, p, d)
    BY <2>10, <2>11, <2>13, <2>14, <2>15, <2>16, <1>1 DEF BlackGap
  <2> QED
    BY <2>11, <2>15, <2>17, <1>2
<1> QED
  BY <1>8, <1>9

\* w is the sibling of the child of p at side d.
SiblingIs(t, p, d, w) == w = t.child[p][Opposite(d)]

\* A sibling w with black children: it becomes red, and the gap is above p.
LEMMA RecolorLifts ==
  ASSUME NEW t, NEW N, NEW sub, NEW B, NEW x, NEW p, NEW d, BlackGap(t, N, sub, B, x, p, d),
         NEW w, SiblingIs(t, p, d, w), is_black(t, w),
         \A e \in Dir : is_black(t, t.child[w][e]),
         NEW r, r = Paint(t, w, "RB_RED")
  PROVE  \E B1 : GapAt(r, N, sub, B1, p)
<1>1. /\ Shape(t, N, sub) /\ x \in N \cup {nil} /\ p \in N /\ d \in Dir
      /\ t.parent[x] = p /\ t.child[p][d] = x /\ Balanced(t, N, B, {<<p, d>>})
      /\ RedsApart(t, N, {}, {}) /\ is_black(t, t.root) /\ is_black(t, x) /\ x # t.root
  BY DEF BlackGap
<1>2. PICK o : o = Opposite(d)
  OBVIOUS
<1>3. /\ o \in Dir /\ o # d /\ Opposite(o) = d /\ \A e \in Dir : e = d \/ e = o
  BY <1>1, <1>2, OppositeIs
<1>4. w = t.child[p][o]
  BY <1>2 DEF SiblingIs
<1>5. /\ w \in N /\ w # x /\ w # p /\ x # p /\ B[w] > 0 /\ B[p] > 0 /\ t.parent[w] = p
      /\ w # t.root
  BY GapSide DEF SiblingIs
<1>6. /\ N \subseteq Key /\ nil \notin N /\ nil \in Node /\ N \subseteq Node /\ t \in Trees
      /\ "RB_BLACK" \in Color /\ "RB_RED" \in Color
  BY <1>1, NilIs DEF Shape, Color
<1>7. /\ Recolored(r, t)
      /\ \A n \in Node : r.color[n] = IF n = w THEN "RB_RED" ELSE t.color[n]
  BY <1>5, <1>6, PaintIs
<1>8. /\ Shape(r, N, sub) /\ r.root = t.root /\ r.child = t.child /\ r.parent = t.parent
  BY <1>1, <1>7, RecoloredShape DEF Recolored
<1>9. \A n \in Node : /\ n # w => (is_red(r, n) <=> is_red(t, n))
                      /\ n # w => (is_black(r, n) <=> is_black(t, n))
                      /\ Weight(r, n) = IF n = w THEN 0 ELSE Weight(t, n)
  BY <1>7 DEF is_red, is_black, Weight
<1>10. \A n \in N, e \in Dir :
         /\ t.child[n][e] \in N \cup {nil} /\ t.child[n][e] \in Node /\ t.child[n][e] # n
         /\ t.child[n][e] # nil => t.parent[t.child[n][e]] = n
  BY <1>1, ChildLinks, Apart
<1>11. PICK g, c, gaps : /\ g = t.parent[p] /\ c = child_dir(t, p)
                         /\ gaps = IF p = t.root THEN {} ELSE {<<g, c>>}
  OBVIOUS
<1>12. p # t.root => g \in N /\ c \in Dir /\ t.child[g][c] = p /\ t.child[g][Opposite(c)] # p
  BY <1>1, <1>11, ChildDirIs
<1>13. B \in [Node -> Nat] /\ B[nil] = 0
       /\ \A n \in N, e \in Dir :
            B[n] = B[t.child[n][e]] + Missing({<<p, d>>}, n, e) + Weight(t, n)
  BY <1>1 DEF Balanced
<1>14. PICK A : A = [B EXCEPT ![p] = B[p] - 1, ![w] = B[w] - 1]
  OBVIOUS
<1>15. /\ A \in [Node -> Nat] /\ A[nil] = 0
       /\ A[p] = B[p] - 1 /\ A[w] = B[w] - 1
       /\ \A n \in Node : n \notin {p, w} => A[n] = B[n]
  <2>1. B[p] - 1 \in Nat /\ B[w] - 1 \in Nat
    BY <1>1, <1>5, <1>6, <1>13
  <2> QED
    BY <2>1, <1>1, <1>5, <1>6, <1>13, <1>14
<1>16. ASSUME NEW n \in N, NEW e \in Dir
       PROVE  A[n] = A[t.child[n][e]] + Missing(gaps, n, e) + Weight(r, n)
  <2>0. /\ B[n] = B[t.child[n][e]] + Missing({<<p, d>>}, n, e) + Weight(t, n)
        /\ t.child[n][e] \in N \cup {nil} /\ t.child[n][e] \in Node /\ t.child[n][e] # n
        /\ B[n] \in Nat /\ B[t.child[n][e]] \in Nat
        /\ Weight(t, n) \in {0, 1} /\ Weight(t, w) = 1
    <3>1. Weight(t, w) = 1
      BY DEF Weight
    <3> QED
      BY <3>1, <1>6, <1>10, <1>13, ColorIs
  <2>1. n = p => ~(<<n, e>> \in gaps)
    BY <1>1, <1>10, <1>11, <1>12
  <2>2. CASE n = p /\ e = d
    <3>1. Missing({<<p, d>>}, n, e) = 1 /\ Missing(gaps, n, e) = 0
      BY <2>1, <2>2 DEF Missing
    <3>2. A[n] = B[n] - 1 /\ A[t.child[n][e]] = B[t.child[n][e]] /\ Weight(r, n) = Weight(t, n)
      BY <2>2, <1>1, <1>5, <1>6, <1>9, <1>15
    <3> QED
      BY <2>0, <3>1, <3>2
  <2>3. CASE n = p /\ e = o
    <3>1. Missing({<<p, d>>}, n, e) = 0 /\ Missing(gaps, n, e) = 0
      BY <2>1, <2>3, <1>3 DEF Missing
    <3>2. A[n] = B[n] - 1 /\ A[t.child[n][e]] = B[t.child[n][e]] - 1 /\ Weight(r, n) = Weight(t, n)
      BY <2>3, <1>4, <1>5, <1>6, <1>9, <1>15
    <3> QED
      BY <2>0, <3>1, <3>2
  <2>4. CASE n = w
    <3>1. Missing({<<p, d>>}, n, e) = 0
      BY <2>4, <1>5 DEF Missing
    <3>2. t.child[n][e] # p
      <4>1. w \in sub[p] /\ p \notin sub[w]
        BY <1>1, <1>3, <1>4, <1>5, <1>6, ChildBelow
      <4>2. t.child[w][e] # nil => t.child[w][e] \in sub[w]
        BY <1>1, <1>5, ChildBelow
      <4> QED
        BY <2>4, <4>1, <4>2, <1>1, <1>6
    <3>3. <<n, e>> \notin gaps
      <4>1. <<n, e>> \in gaps => t.child[n][e] = p
        BY <1>11, <1>12
      <4> QED
        BY <4>1, <3>2
    <3>4. A[n] = B[n] - 1 /\ A[t.child[n][e]] = B[t.child[n][e]] /\ Weight(r, n) = 0
      BY <2>0, <2>4, <3>2, <1>5, <1>6, <1>9, <1>15
    <3>5. Missing(gaps, n, e) = 0
      BY <3>3 DEF Missing
    <3>6. Weight(t, n) = 1 /\ B[n] \in Nat /\ B[t.child[n][e]] \in Nat
      BY <2>0, <2>4
    <3>7. B[n] = B[t.child[n][e]] + 1
      <4>1. B[n] = B[t.child[n][e]] + 0 + 1
        BY <2>0, <3>1, <3>6
      <4> QED
        BY <4>1, <3>6
    <3> QED
      BY <3>4, <3>5, <3>6, <3>7
  <2>5. CASE n \notin {p, w} /\ t.child[n][e] = p
    <3>1. n = g /\ p # t.root
      <4>1. t.parent[p] = n
        BY <2>5, <1>1, <1>6, <1>10
      <4> QED
        BY <4>1, <1>1, <1>6, <1>11 DEF Shape
    <3>2. e = c
      BY <2>5, <3>1, <1>12, OppositeIs
    <3>3. Missing({<<p, d>>}, n, e) = 0 /\ Missing(gaps, n, e) = 1
      BY <2>5, <3>1, <3>2, <1>11 DEF Missing
    <3>4. A[n] = B[n] /\ A[t.child[n][e]] = B[t.child[n][e]] - 1 /\ Weight(r, n) = Weight(t, n)
      BY <2>5, <1>6, <1>9, <1>15
    <3> QED
      BY <2>0, <3>3, <3>4
  <2>6. CASE n \notin {p, w} /\ t.child[n][e] # p
    <3>1. t.child[n][e] # w
      BY <2>6, <1>5, <1>6, <1>10
    <3>2. Missing({<<p, d>>}, n, e) = 0 /\ Missing(gaps, n, e) = 0
      <4>1. <<n, e>> \in gaps => t.child[n][e] = p
        BY <1>11, <1>12
      <4> QED
        BY <2>6, <4>1 DEF Missing
    <3>3. A[n] = B[n] /\ A[t.child[n][e]] = B[t.child[n][e]] /\ Weight(r, n) = Weight(t, n)
      BY <2>0, <2>6, <3>1, <1>6, <1>9, <1>15
    <3> QED
      BY <2>0, <3>2, <3>3
  <2> QED
    BY <2>2, <2>3, <2>4, <2>5, <2>6, <1>3
<1>17. Balanced(r, N, A, gaps)
  BY <1>8, <1>15, <1>16 DEF Balanced
<1>18. GapAbove(r, N, A, p)
  <2>1. CASE p = t.root
    BY <2>1, <1>8, <1>11, <1>17 DEF GapAbove
  <2>2. CASE p # t.root
    BY <2>2, <1>8, <1>11, <1>12, <1>17 DEF GapAbove
  <2> QED
    BY <2>1, <2>2
<1>19. RedsApart(r, N, {p}, {p})
  <2>1. is_black(r, nil)
    <3>1. is_black(t, nil)
      BY <1>1 DEF RedsApart
    <3> QED
      BY <3>1, <1>5, <1>6, <1>9
  <2>2. ASSUME NEW n \in N, NEW e \in Dir, is_red(r, n), is_red(r, r.child[n][e])
        PROVE  n = p
    <3>1. CASE n = w
      <4>1. is_black(t, t.child[w][e]) /\ t.child[w][e] # w /\ t.child[w][e] \in Node
        BY <1>5, <1>10
      <4>2. is_black(r, t.child[w][e])
        BY <4>1, <1>9
      <4> QED
        BY <3>1, <4>2, <2>2, <1>8 DEF is_red, is_black
    <3>2. CASE n # w /\ t.child[n][e] = w
      BY <3>2, <1>5, <1>6, <1>10
    <3>3. CASE n # w /\ t.child[n][e] # w
      <4>1. is_red(t, n) /\ is_red(t, t.child[n][e])
        BY <3>3, <2>2, <1>6, <1>8, <1>9, <1>10
      <4> QED
        BY <4>1, <1>1 DEF RedsApart
    <3> QED
      BY <3>1, <3>2, <3>3
  <2> QED
    BY <2>1, <2>2 DEF RedsApart
<1>20. is_black(r, r.root)
  <2>1. t.root \in Node
    BY <1>1, <1>6 DEF Shape
  <2> QED
    BY <2>1, <1>1, <1>5, <1>8, <1>9
<1>21. GapAt(r, N, sub, A, p)
  BY <1>1, <1>8, <1>18, <1>19, <1>20 DEF GapAt
<1> QED
  BY <1>21

\* redden_outer() was done, and x has the parent it had.
Reddened(r, t, w, d, x) == r = redden_outer(t, w, d) /\ r.parent[x] = t.parent[x]

\* The sibling's outer child is red, or becomes so by a rotation, after which x
\* still has its parent.
LEMMA ReddenKeeps ==
  ASSUME NEW t, NEW N, NEW sub, NEW B, NEW x, NEW p, NEW d, BlackGap(t, N, sub, B, x, p, d),
         NEW w, SiblingIs(t, p, d, w), is_black(t, w),
         NEW k \in Dir, is_red(t, t.child[w][k]),
         NEW r, Reddened(r, t, w, d, x)
  PROVE  \E sub1, B1 : /\ BlackGap(r, N, sub1, B1, x, p, d)
                       /\ is_black(r, r.child[p][Opposite(d)])
                       /\ is_red(r, r.child[r.child[p][Opposite(d)]][Opposite(d)])
<1>1. /\ Shape(t, N, sub) /\ x \in N \cup {nil} /\ p \in N /\ d \in Dir
      /\ t.parent[x] = p /\ t.child[p][d] = x /\ Balanced(t, N, B, {<<p, d>>})
      /\ RedsApart(t, N, {}, {}) /\ is_black(t, t.root) /\ is_black(t, x) /\ x # t.root
  BY DEF BlackGap
<1>2. PICK o : o = Opposite(d)
  OBVIOUS
<1>3. /\ o \in Dir /\ o # d /\ Opposite(o) = d /\ \A e \in Dir : e = d \/ e = o
  BY <1>1, <1>2, OppositeIs
<1>4. w = t.child[p][o]
  BY <1>2 DEF SiblingIs
<1>5. /\ w \in N /\ w # x /\ w # p /\ x # p /\ t.parent[w] = p
      /\ w # t.root /\ child_dir(t, w) = o
  BY <1>2, GapSide DEF SiblingIs
<1>6. /\ N \subseteq Key /\ nil \notin N /\ nil \in Node /\ N \subseteq Node /\ t \in Trees
      /\ "RB_BLACK" \in Color /\ "RB_RED" \in Color
  BY <1>1, NilIs DEF Shape, Color
<1>7. r = IF is_black(t, t.child[w][o])
          THEN rb_node_rotate(Paint(Paint(t, t.child[w][d], "RB_BLACK"), w, "RB_RED"), w, o)
          ELSE t
  BY <1>2 DEF redden_outer, Reddened
<1>8. \A e \in Dir : t.child[w][e] \in N \cup {nil} /\ t.child[w][e] \in Node
                     /\ (t.child[w][e] # nil => t.parent[t.child[w][e]] = w)
                     /\ t.child[w][e] # w
  BY <1>1, <1>5, ChildLinks, Apart
<1>9. CASE ~is_black(t, t.child[w][o])
  <2>1. r = t /\ is_red(t, t.child[w][o])
    BY <1>3, <1>6, <1>7, <1>8, <1>9, ColorIs
  <2>2. /\ BlackGap(r, N, sub, B, x, p, d) /\ is_black(r, r.child[p][Opposite(d)])
        /\ is_red(r, r.child[r.child[p][Opposite(d)]][Opposite(d)])
    BY <2>1, <1>2, <1>4
  <2> QED
    BY <2>2
<1>10. CASE is_black(t, t.child[w][o])
  <2>1. PICK v : v = t.child[w][d]
    OBVIOUS
  <2>2. is_red(t, v)
    <3>1. ~is_red(t, t.child[w][o])
      BY <1>10 DEF is_red, is_black
    <3> QED
      BY <2>1, <3>1, <1>3
  <2>3. is_black(t, nil) /\ \A n \in N, e \in Dir : ~(is_red(t, n) /\ is_red(t, t.child[n][e]))
    BY <1>1 DEF RedsApart
  <2>4. v # nil /\ v \in N /\ v # w /\ t.parent[v] = w
    <3>1. v # nil
      BY <2>2, <2>3 DEF is_red, is_black
    <3> QED
      BY <2>1, <3>1, <1>1, <1>8
  <2>5. v # p
    <3>1. w \in sub[p] /\ p \notin sub[w]
      BY <1>1, <1>3, <1>4, <1>5, <1>6, ChildBelow
    <3>2. t.child[w][d] # nil => t.child[w][d] \in sub[w]
      BY <1>1, <1>5, ChildBelow
    <3> QED
      BY <2>1, <2>4, <3>1, <3>2
  <2>6. PICK i : i = t.child[v][o]
    OBVIOUS
  <2>7. is_black(t, i)
    <3>1. i \in Node
      BY <2>4, <2>6, <1>1, <1>3, ChildLinks
    <3> QED
      BY <3>1, <2>2, <2>3, <2>4, <2>6, <1>3, <1>6, ColorIs
  <2>8. PICK t0, t1 : t0 = Paint(t, v, "RB_BLACK") /\ t1 = Paint(t0, w, "RB_RED")
    OBVIOUS
  <2>9. /\ Recolored(t1, t)
        /\ \A n \in Node : t1.color[n] = IF n = w THEN "RB_RED"
                                         ELSE IF n = v THEN "RB_BLACK" ELSE t.color[n]
    <3>1. v \in Node /\ w \in Node
      BY <2>4, <1>5, <1>6
    <3>2. /\ Recolored(t0, t)
          /\ \A n \in Node : t0.color[n] = IF n = v THEN "RB_BLACK" ELSE t.color[n]
      BY <2>8, <3>1, <1>6, PaintIs
    <3>3. t0 \in Trees
      BY <3>2 DEF Recolored
    <3>4. /\ Recolored(t1, t0)
          /\ \A n \in Node : t1.color[n] = IF n = w THEN "RB_RED" ELSE t0.color[n]
      BY <2>8, <3>1, <3>3, <1>6, PaintIs
    <3> QED
      BY <3>2, <3>4 DEF Recolored
  <2>10. r = rb_node_rotate(t1, w, o)
    BY <2>1, <2>8, <1>7, <1>10
  <2>11. Swapped(t1, t, w, v)
    BY <2>2, <2>9 DEF Swapped
  <2>12. NoGapThere({<<p, d>>}, w, v, o)
    BY <2>5, <1>5 DEF NoGapThere
  <2>13. PICK s, A : s = Turned(sub, t, w, o, v, i) /\ A = Exchanged(B, w, v)
    OBVIOUS
  <2>14. /\ Shape(r, N, s)
         /\ Rotated(r, t1, w, o, v, i)
         /\ Balanced(r, N, A, {<<p, d>>})
         /\ NoNewReds(r, t, N)
         /\ r.color = t1.color
    <3>1. v = t.child[w][Opposite(o)] /\ v # nil /\ i = t.child[v][o]
      BY <2>1, <2>4, <2>6, <1>3
    <3> QED
      BY <2>7, <2>10, <2>11, <2>12, <2>13, <3>1, <1>1, <1>3, <1>5, <1>10, SwapAndTurn
  <2>15. /\ r.root = t.root
         /\ r.child[p][o] = v /\ r.child[p][d] = x /\ r.child[v][o] = w
    <3>1. t1.root = t.root /\ t1.parent = t.parent /\ t1.child = t.child
      BY <2>9 DEF Recolored
    <3>2. t1.parent[w] = p /\ child_dir(t1, w) = o
      BY <3>1, <1>5 DEF child_dir, is_dir_child
    <3>3. p # nil /\ p \in Node /\ v \in Node
      BY <2>4, <1>1, <1>6
    <3> QED
      BY <2>4, <2>5, <2>14, <3>1, <3>2, <3>3, <1>1, <1>3, <1>5 DEF Rotated
  <2>16. /\ \A n \in Node : n # w /\ is_black(t, n) => is_black(r, n)
         /\ is_black(r, v) /\ is_red(r, w)
    <3>1. \A n \in Node : r.color[n] = IF n = w THEN "RB_RED"
                                       ELSE IF n = v THEN "RB_BLACK" ELSE t.color[n]
      BY <2>9, <2>14
    <3>2. v \in Node /\ w \in Node
      BY <2>4, <1>5, <1>6
    <3> QED
      BY <2>4, <3>1, <3>2 DEF is_black, is_red
  <2>17. is_black(r, r.root) /\ is_black(r, x)
    <3>1. t.root \in Node /\ x \in Node
      BY <1>1, <1>6 DEF Shape
    <3> QED
      BY <2>15, <2>16, <3>1, <1>1, <1>5
  <2>18. RedsApart(r, N, {}, {})
    BY <2>3, <2>14 DEF RedsApart, NoNewReds
  <2>19. r.parent[x] = p
    BY <1>1 DEF Reddened
  <2>20. BlackGap(r, N, s, A, x, p, d)
    BY <2>14, <2>15, <2>17, <2>18, <2>19, <1>1 DEF BlackGap
  <2> QED
    BY <2>15, <2>16, <2>20, <1>2
<1> QED
  BY <1>9, <1>10

\* The last rotation, with a red outer child: the tree is a red-black tree.
LEMMA SettleRestores ==
  ASSUME NEW t, NEW N, NEW sub, NEW B, NEW x, NEW p, NEW d, BlackGap(t, N, sub, B, x, p, d),
         is_black(t, t.child[p][Opposite(d)]),
         is_red(t, t.child[t.child[p][Opposite(d)]][Opposite(d)]),
         NEW r, r = settle(t, x, d)
  PROVE  \E sub1, B1 : Sane(r, N, sub1, B1)
<1>1. /\ Shape(t, N, sub) /\ x \in N \cup {nil} /\ p \in N /\ d \in Dir
      /\ t.parent[x] = p /\ t.child[p][d] = x /\ Balanced(t, N, B, {<<p, d>>})
      /\ RedsApart(t, N, {}, {}) /\ is_black(t, t.root) /\ is_black(t, x) /\ x # t.root
  BY DEF BlackGap
<1>2. PICK o : o = Opposite(d)
  OBVIOUS
<1>3. /\ o \in Dir /\ o # d /\ Opposite(o) = d /\ \A e \in Dir : e = d \/ e = o
  BY <1>1, <1>2, OppositeIs
<1>4. PICK w : w = t.child[p][o]
  OBVIOUS
<1>5. w \in N /\ w # x /\ w # p
  BY <1>2, <1>4, GapSide
<1>6. /\ N \subseteq Key /\ nil \notin N /\ nil \in Node /\ N \subseteq Node /\ t \in Trees
      /\ "RB_BLACK" \in Color /\ "RB_RED" \in Color
  BY <1>1, NilIs DEF Shape, Color
<1>7. PICK q : q = t.child[w][o]
  OBVIOUS
<1>8. is_black(t, w) /\ is_red(t, q)
  BY <1>2, <1>4, <1>7
<1>9. q \in N \cup {nil} /\ q \in Node
  BY <1>1, <1>3, <1>5, <1>7, ChildLinks
<1>10. PICK ta : ta = Paint(t, w, t.color[p])
  OBVIOUS
<1>20. PICK tb : tb = Paint(ta, p, "RB_BLACK")
  OBVIOUS
<1>21. PICK tc : tc = Paint(tb, q, "RB_BLACK")
  OBVIOUS
<1>11. w \in Node /\ p \in Node /\ t.color[p] \in Color
  BY <1>1, <1>5, <1>6 DEF Trees
<1>12. /\ Recolored(ta, t) /\ ta \in Trees
       /\ \A n \in Node : ta.color[n] = IF n = w THEN t.color[p] ELSE t.color[n]
  <2>1. /\ Recolored(Paint(t, w, t.color[p]), t)
        /\ \A n \in Node : Paint(t, w, t.color[p]).color[n] = IF n = w THEN t.color[p] ELSE t.color[n]
    BY <1>6, <1>11, PaintIs
  <2> QED
    BY <2>1, <1>10 DEF Recolored
<1>13. /\ Recolored(tb, ta) /\ tb \in Trees
       /\ \A n \in Node : tb.color[n] = IF n = p THEN "RB_BLACK" ELSE ta.color[n]
  <2>1. /\ Recolored(Paint(ta, p, "RB_BLACK"), ta)
        /\ \A n \in Node : Paint(ta, p, "RB_BLACK").color[n] = IF n = p THEN "RB_BLACK" ELSE ta.color[n]
    BY <1>6, <1>11, <1>12, PaintIs
  <2> QED
    BY <2>1, <1>20 DEF Recolored
<1>14. /\ Recolored(tc, tb) /\ tc \in Trees
       /\ \A n \in Node : tc.color[n] = IF n = q THEN "RB_BLACK" ELSE tb.color[n]
  <2>1. /\ Recolored(Paint(tb, q, "RB_BLACK"), tb)
        /\ \A n \in Node : Paint(tb, q, "RB_BLACK").color[n] = IF n = q THEN "RB_BLACK" ELSE tb.color[n]
    BY <1>6, <1>9, <1>13, PaintIs
  <2> QED
    BY <2>1, <1>21 DEF Recolored
<1>15. r = rb_node_rotate(tc, p, d)
  <2>1. w = Sibling(t, x, d)
    BY <1>1, <1>2, <1>4 DEF Sibling
  <2>2. tb.child[w][Opposite(d)] = q
    BY <1>2, <1>7, <1>12, <1>13 DEF Recolored
  <2> QED
    BY <2>1, <2>2, <1>1, <1>10, <1>20, <1>21 DEF settle
<1>16. w # q
  BY <1>1, <1>3, <1>5, <1>7, Apart
<1>17. Settled(tc, t, p, w, q)
  BY <1>5, <1>12, <1>13, <1>14, <1>16 DEF Settled, Recolored
<1>18. PICK i, s : i = t.child[w][d] /\ s = Turned(sub, t, p, d, w, i)
  OBVIOUS
<1>19. /\ Shape(r, N, s)
       /\ \E A : Balanced(r, N, A, {})
       /\ RedsApart(r, N, {}, {})
       /\ is_black(r, r.root)
  <2>1. /\ w = t.child[p][Opposite(d)] /\ w # nil /\ q = t.child[w][Opposite(d)]
        /\ is_black(t, t.child[p][d]) /\ i = t.child[w][d]
    BY <1>1, <1>2, <1>4, <1>5, <1>6, <1>7, <1>18
  <2> QED
    BY <2>1, <1>1, <1>8, <1>15, <1>17, <1>18, SettleCloses, Zenon
<1> QED
  BY <1>19 DEF Sane

\* A red-black tree has no gap, as if it were above the root.
LEMMA SaneGap ==
  ASSUME NEW t, NEW N, NEW sub, NEW B, Sane(t, N, sub, B)
  PROVE  GapAt(t, N, sub, B, t.root)
  BY DEF Sane, GapAt, GapAbove, Shape, RedsApart

\* The end of rb_delete_fixup(): the root, or a red node, is painted black.
LEMMA DoneRestores ==
  ASSUME NEW t, NEW N, NEW sub, NEW B, NEW x, GapAt(t, N, sub, B, x),
         x = t.root \/ is_red(t, x),
         NEW r, r = Paint(t, x, "RB_BLACK")
  PROVE  \E B1 : Sane(r, N, sub, B1)
<1>1. /\ Shape(t, N, sub) /\ x \in N \cup {nil} /\ RedsApart(t, N, {x}, {x})
      /\ t.root = x \/ is_black(t, t.root)
  BY DEF GapAt
<1>2. /\ N \subseteq Key /\ nil \notin N /\ nil \in Node /\ N \subseteq Node /\ t \in Trees
      /\ x \in Node /\ "RB_BLACK" \in Color
  BY <1>1, NilIs DEF Shape, Color
<1>3. /\ Recolored(r, t)
      /\ \A n \in Node : r.color[n] = IF n = x THEN "RB_BLACK" ELSE t.color[n]
  BY <1>2, PaintIs
<1>4. /\ Shape(r, N, sub) /\ r.root = t.root /\ r.child = t.child /\ r.parent = t.parent
  BY <1>1, <1>3, RecoloredShape DEF Recolored
<1>5. \A n \in Node : /\ n # x => (is_red(r, n) <=> is_red(t, n))
                      /\ n # x => (is_black(r, n) <=> is_black(t, n))
                      /\ is_black(r, x) /\ ~is_red(r, x)
                      /\ Weight(r, n) = IF n = x THEN 1 ELSE Weight(t, n)
  BY <1>2, <1>3 DEF is_red, is_black, Weight
<1>6. \A n \in N, e \in Dir :
         /\ t.child[n][e] \in N \cup {nil} /\ t.child[n][e] \in Node /\ t.child[n][e] # n
         /\ t.child[n][e] # nil => t.parent[t.child[n][e]] = n
  BY <1>1, ChildLinks, Apart
<1>7. is_black(t, nil)
  BY <1>1 DEF RedsApart
<1>8. RedsApart(r, N, {}, {})
  <2>1. is_black(r, nil)
    BY <1>2, <1>5, <1>7
  <2>2. ASSUME NEW n \in N, NEW e \in Dir, is_red(r, n), is_red(r, r.child[n][e])
        PROVE FALSE
    <3>1. n # x /\ t.child[n][e] # x
      BY <2>2, <1>4, <1>5, <1>2
    <3>2. is_red(t, n) /\ is_red(t, t.child[n][e])
      BY <2>2, <3>1, <1>2, <1>4, <1>5, <1>6
    <3> QED
      BY <3>1, <3>2, <1>1 DEF RedsApart
  <2> QED
    BY <2>1, <2>2 DEF RedsApart
<1>9. is_black(r, r.root)
  <2>1. t.root \in Node
    BY <1>1, <1>2 DEF Shape
  <2> QED
    BY <2>1, <1>1, <1>4, <1>5
<1>10. CASE is_black(t, x)
  <2>1. x = t.root
    BY <1>2, <1>10, ColorIs
  <2>2. Balanced(t, N, B, {})
    BY <2>1 DEF GapAt, GapAbove
  <2>3. \A n \in Node : Weight(r, n) = Weight(t, n)
    BY <1>5, <1>10 DEF Weight
  <2>4. Balanced(r, N, B, {})
    BY <2>2, <2>3, <1>2, <1>4 DEF Balanced
  <2> QED
    BY <2>4, <1>4, <1>8, <1>9 DEF Sane
<1>11. CASE ~is_black(t, x)
  <2>1. x \in N /\ Weight(t, x) = 0
    BY <1>1, <1>7, <1>11 DEF Weight
  <2>2. PICK gaps : /\ Balanced(t, N, B, gaps)
                    /\ \A n \in N, e \in Dir : <<n, e>> \in gaps <=> t.child[n][e] = x
    <3>1. CASE x = t.root
      <4>1. \A n \in N, e \in Dir : t.child[n][e] # x
        <5>1. t.parent[x] = nil
          BY <2>1, <3>1, <1>1, <1>2 DEF Shape
        <5> QED
          BY <5>1, <2>1, <1>2, <1>6
      <4>2. Balanced(t, N, B, {})
        BY <3>1 DEF GapAt, GapAbove
      <4> QED
        BY <4>1, <4>2
    <3>2. CASE x # t.root
      <4>1. PICK p \in N, d \in Dir :
               t.parent[x] = p /\ t.child[p][d] = x /\ Balanced(t, N, B, {<<p, d>>})
        BY <3>2 DEF GapAt, GapAbove
      <4>2. t.child[p][Opposite(d)] # x
        BY <4>1, <2>1, <1>1, <1>2, Apart
      <4>3. \A n \in N, e \in Dir : <<n, e>> \in {<<p, d>>} <=> t.child[n][e] = x
        <5> TAKE n \in N, e \in Dir
        <5>1. t.child[n][e] = x => n = p
          BY <4>1, <2>1, <1>2, <1>6
        <5>2. t.child[n][e] = x => e = d
          BY <5>1, <4>2, OppositeIs
        <5> QED
          BY <5>1, <5>2, <4>1
      <4> QED
        BY <4>1, <4>3
    <3> QED
      BY <3>1, <3>2
  <2>3. B \in [Node -> Nat] /\ B[nil] = 0
       /\ \A n \in N, e \in Dir :
            B[n] = B[t.child[n][e]] + Missing(gaps, n, e) + Weight(t, n)
    BY <2>2 DEF Balanced
  <2>4. PICK A : A = [B EXCEPT ![x] = B[x] + 1]
    OBVIOUS
  <2>5. /\ A \in [Node -> Nat] /\ A[nil] = 0 /\ A[x] = B[x] + 1
        /\ \A n \in Node : n # x => A[n] = B[n]
    BY <2>1, <2>3, <2>4, <1>2
  <2>6. ASSUME NEW n \in N, NEW e \in Dir
        PROVE  A[n] = A[t.child[n][e]] + Missing({}, n, e) + Weight(r, n)
    <3>1. /\ B[n] = B[t.child[n][e]] + Missing(gaps, n, e) + Weight(t, n)
          /\ B[n] \in Nat /\ B[t.child[n][e]] \in Nat /\ Weight(t, n) \in {0, 1}
      BY <2>3, <1>2, <1>6, ColorIs
    <3>2. Missing({}, n, e) = 0
      BY DEF Missing
    <3>3. CASE n = x
      <4>1. Missing(gaps, n, e) = 0
        BY <3>3, <2>2, <1>6 DEF Missing
      <4>2. A[n] = B[n] + 1 /\ A[t.child[n][e]] = B[t.child[n][e]] /\ Weight(t, n) = 0
            /\ Weight(r, n) = 1
        BY <3>3, <2>1, <2>5, <1>2, <1>5, <1>6
      <4>3. B[n] = B[t.child[n][e]]
        <5>1. B[n] = B[t.child[n][e]] + 0 + 0
          BY <3>1, <4>1, <4>2
        <5> QED
          BY <5>1, <3>1
      <4> QED
        BY <4>2, <4>3, <3>1, <3>2
    <3>4. CASE n # x /\ t.child[n][e] = x
      <4>1. Missing(gaps, n, e) = 1
        BY <3>4, <2>2 DEF Missing
      <4>2. A[n] = B[n] /\ A[t.child[n][e]] = B[t.child[n][e]] + 1 /\ Weight(r, n) = Weight(t, n)
        BY <3>4, <2>5, <1>2, <1>5
      <4> QED
        BY <4>1, <4>2, <3>1, <3>2
    <3>5. CASE n # x /\ t.child[n][e] # x
      <4>1. Missing(gaps, n, e) = 0
        BY <3>5, <2>2 DEF Missing
      <4>2. A[n] = B[n] /\ A[t.child[n][e]] = B[t.child[n][e]] /\ Weight(r, n) = Weight(t, n)
        BY <3>5, <2>5, <1>2, <1>5, <1>6
      <4> QED
        BY <4>1, <4>2, <3>1, <3>2
    <3> QED
      BY <3>3, <3>4, <3>5
  <2>7. Balanced(r, N, A, {})
    BY <2>5, <2>6, <1>4 DEF Balanced
  <2> QED
    BY <2>7, <1>4, <1>8, <1>9 DEF Sane
<1> QED
  BY <1>10, <1>11

-----------------------------------------------------------------------------
(* Below(), the recursion over the links. *)

\* The children of nodes.
Kids(t, nodes) == UNION {{t.child[m][RB_L], t.child[m][RB_R]} : m \in nodes}

\* One turn of Below().
More(t, nodes) == nodes \cup (Kids(t, nodes) \ {nil})

\* f satisfies the definition in Below().
Descends(t, f) ==
  f = [nodes \in SUBSET Key |-> IF More(t, nodes) = nodes THEN nodes ELSE f[More(t, nodes)]]

\* Below() is such a function, at {n}.
LEMMA BelowIs ==
  ASSUME NEW t, NEW n
  PROVE  Below(t, n) = (CHOOSE f : Descends(t, f))[{n} \ {nil}]
  BY DEF Below, Descends, More, Kids

\* The nodes that can be reached from n are those of its subtree.
LEMMA BelowIsSubtree ==
  ASSUME NEW t, NEW N, NEW sub, Shape(t, N, sub), NEW n \in N \cup {nil}
  PROVE  Below(t, n) = sub[n]
<1>1. /\ N \subseteq Key /\ nil \notin N /\ nil \in Node /\ nil \notin Key /\ t \in Trees /\ IsFiniteSet(N)
      /\ RB_L \in Dir /\ RB_R \in Dir /\ Opposite(RB_L) = RB_R
  <2>1. RB_L \in Dir /\ RB_R \in Dir /\ Opposite(RB_L) = RB_R
    BY DEF Dir, RB_L, RB_R, Opposite
  <2> QED
    BY <2>1, NilIs DEF Shape
<1>2. ASSUME NEW S \in SUBSET Key
      PROVE  /\ More(t, S) \in SUBSET Key /\ S \subseteq More(t, S)
             /\ \A k : k \in More(t, S) <=>
                         \/ k \in S
                         \/ k # nil /\ \E m \in S : k = t.child[m][RB_L] \/ k = t.child[m][RB_R]
  <2>1. \A m \in S, d \in Dir : t.child[m][d] \in Node
    BY NilIs DEF Trees, Shape
  <2>2. \A k : k \in More(t, S) <=>
                  \/ k \in S
                  \/ k # nil /\ \E m \in S : k = t.child[m][RB_L] \/ k = t.child[m][RB_R]
    <3>1. \A k : k \in Kids(t, S) <=> \E m \in S : k = t.child[m][RB_L] \/ k = t.child[m][RB_R]
      BY DEF Kids
    <3>2. \A k : k \in More(t, S) <=> k \in S \/ (k # nil /\ k \in Kids(t, S))
      BY DEF More
    <3> QED
      BY <3>1, <3>2
  <2>3. More(t, S) \subseteq Key
    BY <2>1, <2>2, <1>1 DEF Node
  <2> QED
    BY <2>2, <2>3
<1>3. \E f : Descends(t, f)
  <2> DEFINE Closed(C) == More(t, C) = C
             f == [S \in SUBSET Key |->
                     {k \in Key : \A C \in SUBSET Key : S \subseteq C /\ Closed(C) => k \in C}]
  <2>1. ASSUME NEW S \in SUBSET Key
        PROVE f[S] = IF More(t, S) = S THEN S ELSE f[More(t, S)]
    <3>1. CASE More(t, S) = S
      BY <3>1
    <3>2. CASE More(t, S) # S
      <4>1. \A C \in SUBSET Key : Closed(C) => (S \subseteq C <=> More(t, S) \subseteq C)
        <5> SUFFICES ASSUME NEW C \in SUBSET Key, More(t, C) = C
                     PROVE  S \subseteq C <=> More(t, S) \subseteq C
          OBVIOUS
        <5>1. S \subseteq More(t, S)
          BY <1>2
        <5>2. ASSUME S \subseteq C PROVE More(t, S) \subseteq C
          <6>1. \A k \in More(t, S) : k \in More(t, C)
            BY <5>2, <1>2
          <6> QED
            BY <6>1
        <5> QED
          BY <5>1, <5>2
      <4>2. More(t, S) \in SUBSET Key
        BY <1>2
      <4> HIDE DEF Closed
      <4>3. f[S] = f[More(t, S)]
        BY <4>1, <4>2
      <4> QED
        BY <3>2, <4>3
    <3> QED
      BY <3>1, <3>2
  <2>2. f = [S \in SUBSET Key |-> f[S]]
    OBVIOUS
  <2> HIDE DEF f
  <2>3. f = [S \in SUBSET Key |-> IF More(t, S) = S THEN S ELSE f[More(t, S)]]
    BY <2>1, <2>2
  <2> QED
    BY <2>3 DEF Descends
<1>4. PICK f : f = (CHOOSE g : Descends(t, g))
  OBVIOUS
<1>5. Descends(t, f)
  BY <1>3, <1>4
<1>6. \A S \in SUBSET Key : f[S] = IF More(t, S) = S THEN S ELSE f[More(t, S)]
  BY <1>5 DEF Descends
<1>7. /\ \A m \in N : /\ t.child[m][RB_L] \in N \cup {nil} /\ t.child[m][RB_R] \in N \cup {nil}
                      /\ sub[m] = {m} \cup sub[t.child[m][RB_L]] \cup sub[t.child[m][RB_R]]
                      /\ m \in sub[m] /\ sub[m] \subseteq N
      /\ sub[nil] = {}
  <2>1. \A m \in N, d \in Dir : /\ t.child[m][d] \in N \cup {nil}
                                /\ sub[m] = {m} \cup sub[t.child[m][d]] \cup sub[t.child[m][Opposite(d)]]
                                /\ m \in sub[m] /\ m \in Node
    <3> TAKE m \in N, d \in Dir
    <3>1. m \in sub[m]
      BY Apart
    <3>2. /\ t.child[m][d] \in N \cup {nil} /\ m \in Node
          /\ sub[m] = {m} \cup sub[t.child[m][d]] \cup sub[t.child[m][Opposite(d)]]
      BY NilIs DEF Shape
    <3> QED
      BY <3>1, <3>2, Zenon
  <2>2. \A m \in Node : sub[m] \subseteq N
    BY DEF Shape
  <2>3. sub[nil] = {}
    BY DEF Shape
  <2> QED
    BY <2>1, <2>2, <2>3, <1>1
<1>8. ASSUME NEW S \in SUBSET N, More(t, S) = S, NEW m \in S
      PROVE sub[m] \subseteq S
  <2> DEFINE bad == {k \in S : ~(sub[k] \subseteq S)}
             sizes == {Cardinality(sub[k]) : k \in bad}
  <2>1. \A k \in S : /\ Cardinality(sub[k]) \in Nat
                     /\ \A c \in N : c \in sub[k] /\ k \notin sub[c] /\ sub[c] \subseteq sub[k]
                                       => Cardinality(sub[c]) < Cardinality(sub[k])
    <3> TAKE k \in S
    <3>1. IsFiniteSet(sub[k])
      BY <1>1, <1>7, FS_Subset
    <3>2. Cardinality(sub[k]) \in Nat
      BY <3>1, FS_CardinalityType
    <3>3. ASSUME NEW c \in N, c \in sub[k], k \notin sub[c], sub[c] \subseteq sub[k]
          PROVE Cardinality(sub[c]) < Cardinality(sub[k])
      <4>1. sub[c] # sub[k]
        BY <3>3, <1>7
      <4>2. Cardinality(sub[c]) <= Cardinality(sub[k]) /\ Cardinality(sub[c]) # Cardinality(sub[k])
        BY <3>1, <3>3, <4>1, FS_Subset
      <4>3. Cardinality(sub[c]) \in Nat
        BY <3>1, <3>3, FS_Subset, FS_CardinalityType
      <4> QED
        BY <3>2, <4>2, <4>3
    <3> QED
      BY <3>2, <3>3
  <2>2. bad = {}
    <3> SUFFICES ASSUME bad # {} PROVE FALSE
      OBVIOUS
    <3>1. sizes \in SUBSET Nat /\ sizes # {}
      BY <2>1
    <3>2. PICK s \in sizes : \A q \in sizes : s <= q
      BY <3>1, LeastNatural
    <3>3. PICK k \in bad : s = Cardinality(sub[k])
      OBVIOUS
    <3>4. ASSUME NEW d \in {RB_L, RB_R}, t.child[k][d] # nil PROVE sub[t.child[k][d]] \subseteq S
      <4>1. t.child[k][d] \in S
        BY <3>4, <1>2, <1>8, <1>1
      <4>2. d \in Dir /\ k \in N
        BY <1>1
      <4>3. t.child[k][d] \in sub[k] /\ k \notin sub[t.child[k][d]] /\ sub[t.child[k][d]] \subseteq sub[k]
            /\ t.child[k][d] \in N
        BY <3>4, <4>2, ChildBelow
      <4>4. Cardinality(sub[t.child[k][d]]) < Cardinality(sub[k])
        BY <2>1, <4>3
      <4>5. ~(Cardinality(sub[t.child[k][d]]) \in sizes)
        <5>1. Cardinality(sub[t.child[k][d]]) \in sizes => s <= Cardinality(sub[t.child[k][d]])
          BY <3>2
        <5>2. Cardinality(sub[t.child[k][d]]) \in Nat /\ Cardinality(sub[k]) \in Nat
          BY <2>1, <4>1
        <5> QED
          BY <5>1, <5>2, <3>3, <4>4
      <4>6. t.child[k][d] \notin bad
        BY <4>5
      <4> QED
        BY <4>1, <4>6
    <3>5. sub[k] \subseteq S
      <4>1. /\ sub[k] = {k} \cup sub[t.child[k][RB_L]] \cup sub[t.child[k][RB_R]]
            /\ sub[nil] = {} /\ k \in S
        BY <1>7
      <4> QED
        BY <3>4, <4>1
    <3> QED
      BY <3>5
  <2> QED
    BY <2>2
<1> DEFINE All(S) == UNION {sub[m] : m \in S}
           wrong == {S \in SUBSET N : f[S] # All(S)}
           left == {Cardinality(N \ S) : S \in wrong}
<1>9. wrong = {}
  <2> SUFFICES ASSUME wrong # {} PROVE FALSE
    OBVIOUS
  <2>1. \A S \in SUBSET N : IsFiniteSet(N \ S) /\ Cardinality(N \ S) \in Nat
    BY <1>1, FS_Subset, FS_CardinalityType
  <2>2. left \in SUBSET Nat /\ left # {}
    BY <2>1
  <2>3. PICK s \in left : \A q \in left : s <= q
    BY <2>2, LeastNatural
  <2>4. PICK S \in wrong : s = Cardinality(N \ S)
    OBVIOUS
  <2>5. S \in SUBSET N /\ f[S] # All(S) /\ S \in SUBSET Key
    BY <1>1
  <2>6. CASE More(t, S) = S
    <3>1. f[S] = S
      BY <2>5, <2>6, <1>6
    <3>2. All(S) = S
      <4>1. \A m \in S : sub[m] \subseteq S /\ m \in sub[m]
        BY <2>5, <2>6, <1>7, <1>8
      <4> QED
        BY <4>1
    <3> QED
      BY <3>1, <3>2, <2>5
  <2>7. CASE More(t, S) # S
    <3>1. PICK M : M = More(t, S)
      OBVIOUS
    <3>2. f[S] = f[M]
      BY <2>5, <2>7, <3>1, <1>6
    <3>3. M \in SUBSET N /\ S \subseteq M /\ S # M
      <4>1. \A k \in M : k \in N
        BY <2>5, <3>1, <1>2, <1>7
      <4> QED
        BY <4>1, <2>5, <2>7, <3>1, <1>2
    <3>4. All(M) = All(S)
      <4>1. ASSUME NEW k \in M PROVE sub[k] \subseteq All(S)
        <5>1. k \in S \/ \E m \in S : k = t.child[m][RB_L] \/ k = t.child[m][RB_R]
          BY <2>5, <3>1, <1>2
        <5>2. \A m \in S : sub[t.child[m][RB_L]] \subseteq sub[m] /\ sub[t.child[m][RB_R]] \subseteq sub[m]
          BY <2>5, <1>7
        <5> QED
          BY <5>1, <5>2
      <4> QED
        BY <4>1, <3>3
    <3>5. M \in wrong
      BY <2>5, <3>2, <3>3, <3>4
    <3>6. Cardinality(N \ M) \in left
      BY <3>5
    <3>7. s <= Cardinality(N \ M)
      BY <2>3, <3>6
    <3>8. Cardinality(N \ M) < Cardinality(N \ S)
      <4>1. N \ M \subseteq N \ S /\ N \ M # N \ S
        BY <3>3
      <4>2. Cardinality(N \ M) <= Cardinality(N \ S) /\ Cardinality(N \ M) # Cardinality(N \ S)
        BY <4>1, <2>1, <2>5, FS_Subset
      <4>3. Cardinality(N \ M) \in Nat /\ Cardinality(N \ S) \in Nat
        BY <2>1, <2>5, <3>3
      <4> QED
        BY <4>2, <4>3
    <3>9. Cardinality(N \ M) \in Nat /\ Cardinality(N \ S) \in Nat
      BY <2>1, <2>5, <3>3
    <3> QED
      BY <3>7, <3>8, <3>9, <2>4
  <2> QED
    BY <2>6, <2>7
<1>10. {n} \ {nil} \in SUBSET N
  BY <1>1
<1>11. f[{n} \ {nil}] = All({n} \ {nil})
  BY <1>9, <1>10
<1>12. All({n} \ {nil}) = sub[n]
  <2>1. CASE n = nil
    BY <2>1, <1>7
  <2>2. CASE n # nil
    BY <2>2
  <2> QED
    BY <2>1, <2>2
<1> QED
  BY <1>4, <1>11, <1>12, BelowIs

-----------------------------------------------------------------------------
(* Types. *)

\* The operators build trees, whatever the tree is like.
LEMMA RotateTypes ==
  ASSUME NEW t \in Trees, NEW x \in Node, NEW d \in Dir
  PROVE  rb_node_rotate(t, x, d) \in Trees
<1> DEFINE y  == t.child[x][Opposite(d)]
           i  == t.child[y][d]
           t1 == [t EXCEPT !.child[x][Opposite(d)] = i, !.parent[i] = x]
           t2 == [t1 EXCEPT !.parent[y] = t1.parent[x]]
           p  == PointTo(t2, x, y)
<1>1. y \in Node /\ Opposite(d) \in Dir /\ i \in Node
  BY OppositeIs DEF Trees
<1>2. rb_node_rotate(t, x, d) = [p EXCEPT !.child[y][d] = x, !.parent[x] = y]
  BY DEF rb_node_rotate
<1> HIDE DEF y, i
<1>3. t1 \in Trees
  BY <1>1 DEF Trees
<1> HIDE DEF t1
<1>4. t2 \in Trees
  BY <1>1, <1>3 DEF Trees
<1> HIDE DEF t2
<1>5. p \in Trees
  <2>1. Points(p, t2, x, y)
    BY <1>1, <1>4, PointToIs
  <2> QED
    BY <2>1 DEF Points
<1> HIDE DEF p
<1>6. [p EXCEPT !.child[y][d] = x, !.parent[x] = y] \in Trees
  BY <1>1, <1>5 DEF Trees
<1> QED
  BY <1>2, <1>6

\* rb_transplant() does,
LEMMA TransplantTypes ==
  ASSUME NEW t \in Trees, NEW u \in Node, NEW v \in Node
  PROVE  rb_transplant(t, u, v) \in Trees
  BY TransplantIs DEF Transplanted

\* Paint() does,
LEMMA PaintTypes ==
  ASSUME NEW t \in Trees, NEW n \in Node, NEW c \in Color
  PROVE  Paint(t, n, c) \in Trees
  BY PaintIs DEF Recolored

\* a new leaf does,
LEMMA LeafTypes ==
  ASSUME NEW t \in Trees, NEW k \in Key, NEW m \in Node
  PROVE  WithLeaf(t, k, m) \in Trees
<1> DEFINE t1 == [t EXCEPT !.child[k] = [d \in Dir |-> nil], !.parent[k] = m,
                           !.color[k] = "RB_RED"]
<1>1. k \in Node /\ nil \in Node /\ Toward(k, m) \in Dir /\ "RB_RED" \in Color
  BY NilIs DEF Toward, Dir, Color
<1>2. t1 \in Trees
  BY <1>1 DEF Trees
<1>3. WithLeaf(t, k, m) = IF m = nil THEN [t1 EXCEPT !.root = k]
                          ELSE [t1 EXCEPT !.child[m][Toward(k, m)] = k]
  BY DEF WithLeaf
<1> HIDE DEF t1
<1>4. [t1 EXCEPT !.root = k] \in Trees
  BY <1>1, <1>2 DEF Trees
<1>5. [t1 EXCEPT !.child[m][Toward(k, m)] = k] \in Trees
  BY <1>1, <1>2 DEF Trees
<1> QED
  BY <1>3, <1>4, <1>5

\* and DeleteSuccessor does.
LEMMA SucceededTypes ==
  ASSUME NEW t \in Trees, NEW z \in Node, NEW y \in Node
  PROVE  Succeeded(t, z, y) \in Trees
<1>1. RB_L \in Dir /\ RB_R \in Dir /\ \A s \in Trees, n \in Node, d \in Dir : s.child[n][d] \in Node
  BY DEF Dir, Trees
<1>2. \A s \in Trees, n, m \in Node, d \in Dir : [s EXCEPT !.child[n][d] = m, !.parent[m] = n] \in Trees
  BY DEF Trees
<1>3. \A s \in Trees, n, m \in Node : [s EXCEPT !.parent[n] = m] \in Trees
  BY DEF Trees
<1>4. \A s \in Trees, n \in Node, c \in Color : [s EXCEPT !.color[n] = c] \in Trees
  BY DEF Trees
<1>5. successor_unlinked(t, z, y) \in Trees
  <2>1. PICK x : x = t.child[y][RB_R]
    OBVIOUS
  <2>2. PICK t1 : t1 = rb_transplant(t, y, x)
    OBVIOUS
  <2>3. x \in Node /\ t1 \in Trees
    BY <1>1, <2>1, <2>2, TransplantTypes
  <2>4. PICK r : r = t1.child[z][RB_R]
    OBVIOUS
  <2>5. r \in Node
    BY <1>1, <2>3, <2>4
  <2>6. successor_unlinked(t, z, y) = IF y # t.child[z][RB_L]
                                      THEN [t1 EXCEPT !.child[y][RB_R] = r, !.parent[r] = y]
                                      ELSE [t EXCEPT !.parent[x] = y]
    BY <2>1, <2>2, <2>4 DEF successor_unlinked
  <2>7. [t1 EXCEPT !.child[y][RB_R] = r, !.parent[r] = y] \in Trees
    BY <1>1, <1>2, <2>3, <2>5
  <2>8. [t EXCEPT !.parent[x] = y] \in Trees
    BY <1>3, <2>3
  <2> QED
    BY <2>6, <2>7, <2>8
<1>6. PICK t3 : t3 = rb_transplant(successor_unlinked(t, z, y), z, y)
  OBVIOUS
<1>7. t3 \in Trees
  BY <1>5, <1>6, TransplantTypes
<1>8. PICK l, c : l = t3.child[z][RB_L] /\ c = t3.color[z]
  OBVIOUS
<1>9. l \in Node /\ c \in Color
  BY <1>1, <1>7, <1>8 DEF Trees
<1>10. Succeeded(t, z, y) = [t3 EXCEPT !.child[y][RB_L] = l, !.parent[l] = y, !.color[y] = c]
  BY <1>6, <1>8 DEF Succeeded
<1>11. [t3 EXCEPT !.child[y][RB_L] = l, !.parent[l] = y, !.color[y] = c] \in Trees
  BY <1>1, <1>7, <1>9 DEF Trees
<1> QED
  BY <1>10, <1>11

\* The steps of the fix-ups do as well.
LEMMA FixupTypes ==
  ASSUME NEW t \in Trees, NEW x \in Node, NEW d \in Dir
  PROVE  /\ lift_sibling(t, x, d) \in Trees
         /\ redden_outer(t, x, d) \in Trees
         /\ settle(t, x, d) \in Trees
         /\ straighten(t, x, d).tree \in Trees /\ straighten(t, x, d).node \in Node
         /\ Sibling(t, x, d) \in Node
<1>1. /\ Opposite(d) \in Dir /\ \A s \in Trees, n \in Node, e \in Dir : s.child[n][e] \in Node
      /\ \A s \in Trees, n \in Node : s.parent[n] \in Node /\ s.color[n] \in Color
      /\ "RB_RED" \in Color /\ "RB_BLACK" \in Color
  BY OppositeIs DEF Trees, Color
<1>2. PICK p, w : p = t.parent[x] /\ w = t.child[p][Opposite(d)]
  OBVIOUS
<1>3. p \in Node /\ w \in Node
  BY <1>1, <1>2
<1>4. lift_sibling(t, x, d) \in Trees
  <2>1. PICK t1 : t1 = [t EXCEPT !.color[w] = "RB_BLACK", !.color[p] = "RB_RED"]
    OBVIOUS
  <2>2. t1 \in Trees
    BY <1>1, <1>3, <2>1 DEF Trees
  <2>3. lift_sibling(t, x, d) = IF is_red(t, w) THEN rb_node_rotate(t1, p, d) ELSE t
    BY <1>2, <2>1 DEF lift_sibling
  <2> QED
    BY <2>2, <2>3, <1>3, RotateTypes
<1>5. redden_outer(t, x, d) \in Trees
  <2>1. PICK t1, t2 : t1 = Paint(t, t.child[x][d], "RB_BLACK") /\ t2 = Paint(t1, x, "RB_RED")
    OBVIOUS
  <2>2. t1 \in Trees
    BY <1>1, <2>1, PaintTypes
  <2>3. t2 \in Trees
    BY <1>1, <2>1, <2>2, PaintTypes
  <2>4. redden_outer(t, x, d) = IF is_black(t, t.child[x][Opposite(d)])
                                THEN rb_node_rotate(t2, x, Opposite(d)) ELSE t
    BY <2>1 DEF redden_outer
  <2> QED
    BY <2>3, <2>4, <1>1, RotateTypes
<1>6. Sibling(t, x, d) = w
  BY <1>2 DEF Sibling
<1>7. settle(t, x, d) \in Trees
  <2>1. PICK ta, tb : ta = Paint(t, w, t.color[p]) /\ tb = Paint(ta, p, "RB_BLACK")
    OBVIOUS
  <2>2. ta \in Trees
    BY <1>1, <1>3, <2>1, PaintTypes
  <2>3. tb \in Trees
    BY <1>1, <1>3, <2>1, <2>2, PaintTypes
  <2>4. PICK tc : tc = Paint(tb, tb.child[w][Opposite(d)], "RB_BLACK")
    OBVIOUS
  <2>5. tc \in Trees
    BY <1>1, <1>3, <2>3, <2>4, PaintTypes
  <2>6. settle(t, x, d) = rb_node_rotate(tc, p, d)
    BY <1>2, <1>6, <2>1, <2>4, Zenon DEF settle
  <2> QED
    BY <2>5, <2>6, <1>3, RotateTypes
<1>8. straighten(t, x, d).tree \in Trees /\ straighten(t, x, d).node \in Node
  <2>1. straighten(t, x, d) = IF is_dir_child(t, x, Opposite(d))
                              THEN [tree |-> rb_node_rotate(t, p, d), node |-> p]
                              ELSE [tree |-> t, node |-> x]
    BY <1>2 DEF straighten
  <2>2. rb_node_rotate(t, p, d) \in Trees
    BY <1>3, RotateTypes
  <2> QED
    BY <2>1, <2>2, <1>3
<1> QED
  BY <1>3, <1>4, <1>5, <1>6, <1>7, <1>8

\* A function that takes a datum or a node has one.
ArgTyped == pc \in {"find", "insert", "minimum", "delete_fixup", "free"} => arg \in Key

\* The types, and that a function that works for a datum has one.
TypeInv == RedBlackTypeOK /\ ArgTyped

\* The same of given values.
Typed(t, sz, al, f, a, n, u, r, i, m) ==
  /\ t \in Trees /\ sz \in Int /\ al \in SUBSET Key
  /\ f \in {"idle", "find", "insert", "insert_fixup", "minimum", "delete_fixup", "free", "next"}
  /\ a \in Key \cup {NULL} /\ n \in Node /\ u \in Node
  /\ r \in [node : Key \cup {NULL}, inserted : BOOLEAN]
  /\ i \in [on : BOOLEAN, curr : Node, stack : Seq(Key)]
  /\ m \in BOOLEAN
  /\ f \in {"find", "insert", "minimum", "delete_fixup", "free"} => a \in Key

\* TypeInv is that of the variables.
LEMMA TypedIs ==
  TypeInv <=> Typed(tree, size, allocated, pc, arg, node, up, result, iter, nil_moved)
  BY Zenon DEF TypeInv, RedBlackTypeOK, ArgTyped, Typed, Trees

\* The same of the next state.
LEMMA TypedIsPrime ==
  TypeInv' <=> Typed(tree', size', allocated', pc', arg', node', up', result', iter', nil_moved')
  BY Zenon DEF TypeInv, RedBlackTypeOK, ArgTyped, Typed, Trees

\* The initial state is typed.
LEMMA TypesStart == RedBlackInit => TypeInv
<1> SUFFICES ASSUME RedBlackInit
             PROVE  Typed(tree, size, allocated, pc, arg, node, up, result, iter, nil_moved)
  BY TypedIs
<1>1. tree \in Trees
  BY NilIs DEF RedBlackInit, EmptyTree, Trees, Color
<1>2. iter \in [on : BOOLEAN, curr : Node, stack : Seq(Key)]
  <2>1. NoIter \in [on : BOOLEAN, curr : Node, stack : Seq(Key)]
    BY NilIs DEF NoIter
  <2> QED
    BY <2>1 DEF RedBlackInit
<1>3. result \in [node : Key \cup {NULL}, inserted : BOOLEAN]
  BY DEF RedBlackInit
<1>4. /\ size = 0 /\ allocated = {} /\ pc = "idle" /\ arg = NULL /\ node = nil /\ up = nil
      /\ nil_moved = FALSE
  BY DEF RedBlackInit
<1>5. nil \in Node /\ allocated \in SUBSET Key
  BY <1>4, NilIs
<1>6. /\ pc \in {"idle", "find", "insert", "insert_fixup", "minimum", "delete_fixup", "free", "next"}
      /\ pc \notin {"find", "insert", "minimum", "delete_fixup", "free"}
  BY <1>4
<1>7. node \in Node /\ up \in Node
  BY <1>4, <1>5
<1>8. size \in Int
  BY <1>4
<1>9. nil_moved \in BOOLEAN
  BY <1>4
<1>10. arg \in Key \cup {NULL}
  BY <1>4
<1> QED
  BY <1>1, <1>2, <1>3, <1>5, <1>6, <1>7, <1>8, <1>9, <1>10 DEF Typed

\* Every step keeps the types.
LEMMA TypesStep == TypeInv /\ [RedBlackNext]_redBlackVars => TypeInv'
<1> SUFFICES ASSUME TypeInv, [RedBlackNext]_redBlackVars PROVE TypeInv'
  OBVIOUS
<1>0. /\ tree \in Trees /\ size \in Int /\ allocated \in SUBSET Key
      /\ pc \in {"idle", "find", "insert", "insert_fixup", "minimum", "delete_fixup",
                 "free", "next"}
      /\ arg \in Key \cup {NULL} /\ node \in Node /\ up \in Node
      /\ result \in [node : Key \cup {NULL}, inserted : BOOLEAN]
      /\ iter \in [on : BOOLEAN, curr : Node, stack : Seq(Key)]
      /\ nil_moved \in BOOLEAN
      /\ ArgTyped
  <2>1. ArgTyped
    BY DEF TypeInv
  <2> QED
    BY <2>1, TypedIs DEF Typed
<1>a. Typed(tree', size', allocated', pc', arg', node', up', result', iter', nil_moved') => TypeInv'
  BY TypedIsPrime
<1>b. /\ nil \in Node /\ Key \subseteq Node /\ Node \ {nil} = Key
      /\ NoIter \in [on : BOOLEAN, curr : Node, stack : Seq(Key)]
      /\ \A t \in Trees, n \in Node, d \in Dir : t.child[n][d] \in Node
      /\ \A t \in Trees, n \in Node : t.parent[n] \in Node
      /\ \A t \in Trees : t.root \in Node
      /\ RB_L \in Dir /\ RB_R \in Dir
      /\ \A k, n : Toward(k, n) \in Dir
      /\ \A t, n : child_dir(t, n) \in Dir
      /\ \A d \in Dir : Opposite(d) \in Dir
      /\ "RB_BLACK" \in Color /\ "RB_RED" \in Color
  <2>1. NoIter \in [on : BOOLEAN, curr : Node, stack : Seq(Key)]
    BY NilIs DEF NoIter
  <2>2. nil \in Node /\ Key \subseteq Node /\ Node \ {nil} = Key
    BY NilIs DEF Node
  <2>3. /\ \A t \in Trees, n \in Node, d \in Dir : t.child[n][d] \in Node
        /\ \A t \in Trees, n \in Node : t.parent[n] \in Node
        /\ \A t \in Trees : t.root \in Node
    BY DEF Trees
  <2>4. /\ RB_L \in Dir /\ RB_R \in Dir
        /\ \A k, n : Toward(k, n) \in Dir
        /\ \A t, n : child_dir(t, n) \in Dir
        /\ "RB_BLACK" \in Color /\ "RB_RED" \in Color
    BY DEF Dir, Toward, child_dir, Color
  <2>5. \A d \in Dir : Opposite(d) \in Dir
    BY OppositeIs
  <2> QED
    BY <2>1, <2>2, <2>3, <2>4, <2>5
<1>1. ASSUME NEW k \in Key, BeginFind(k) \/ BeginInsert(k) PROVE TypeInv'
  <2>1. /\ pc' \in {"find", "insert"} /\ arg' = k /\ node' = tree.root /\ up' = nil
        /\ UNCHANGED <<tree, size, allocated, result, nil_moved>>
        /\ iter' = iter \/ iter' = NoIter
    BY <1>1 DEF BeginFind, BeginInsert, Begin
  <2>2. iter' \in [on : BOOLEAN, curr : Node, stack : Seq(Key)]
    BY <2>1, <1>0, <1>b
  <2> QED
    BY <2>1, <2>2, <1>0, <1>a, <1>b DEF Typed
<1>2. CASE Descend
  BY <1>0, <1>2, <1>a, <1>b DEF Descend, ArgTyped, Typed
<1>3. CASE rb_tree_find
  BY <1>0, <1>3, <1>a, <1>b DEF rb_tree_find, found, Return, Typed
<1>4. CASE InsertFound
  BY <1>0, <1>4, <1>a, <1>b DEF InsertFound, Return, ArgTyped, Typed
<1>5. CASE InsertNew
  <2>1. arg \in Key
    BY <1>0, <1>5 DEF InsertNew, ArgTyped
  <2>2. WithLeaf(tree, arg, up) \in Trees
    BY <2>1, <1>0, LeafTypes
  <2> QED
    BY <2>1, <2>2, <1>0, <1>5, <1>a, <1>b DEF InsertNew, Typed
<1>6. CASE InsertRecolor
  <2>1. Parent \in Node /\ Grandparent \in Node
    BY <1>0, <1>b DEF Parent, Grandparent
  <2>2. Uncle \in Node
    BY <2>1, <1>0, <1>b DEF Uncle
  <2> HIDE DEF Parent, Grandparent, Uncle
  <2>3. \A a, b, c \in Node :
          [tree EXCEPT !.color[a] = "RB_BLACK", !.color[b] = "RB_RED", !.color[c] = "RB_BLACK"] \in Trees
    BY <1>0, <1>b DEF Trees
  <2> QED
    BY <2>1, <2>2, <2>3, <1>0, <1>6, <1>a, <1>b DEF InsertRecolor, InsertFixing, Typed
<1>7. CASE InsertRotate
  <2>1. PICK d, s : /\ d = child_dir(tree, Parent)
                    /\ s = straighten(tree, node, d)
                    /\ tree' = rb_node_rotate(
                                Paint(Paint(s.tree, s.tree.parent[s.node], "RB_BLACK"),
                                      s.tree.parent[s.tree.parent[s.node]], "RB_RED"),
                                s.tree.parent[s.tree.parent[s.node]], Opposite(d))
                    /\ node' = s.node
    BY <1>7, Zenon DEF InsertRotate
  <2>2. s.tree \in Trees /\ s.node \in Node /\ d \in Dir
    BY <2>1, <1>0, <1>b, FixupTypes
  <2>3. PICK p, g : p = s.tree.parent[s.node] /\ g = s.tree.parent[p]
    OBVIOUS
  <2>4. p \in Node /\ g \in Node
    BY <2>2, <2>3, <1>b
  <2>5. Paint(s.tree, p, "RB_BLACK") \in Trees
    BY <2>2, <2>4, <1>b, PaintTypes
  <2>6. Paint(Paint(s.tree, p, "RB_BLACK"), g, "RB_RED") \in Trees
    BY <2>4, <2>5, <1>b, PaintTypes
  <2>7. tree' \in Trees
    BY <2>1, <2>2, <2>3, <2>4, <2>6, <1>b, RotateTypes, Zenon
  <2>8. UNCHANGED <<size, allocated, pc, arg, up, result, iter, nil_moved>> /\ pc = "insert_fixup"
    BY <1>7 DEF InsertRotate, InsertFixing
  <2> QED
    <3>1. node' \in Node
      BY <2>1, <2>2, Zenon
    <3> QED
      BY <2>7, <2>8, <3>1, <1>0, <1>a DEF Typed
<1>8. CASE InsertDone
  <2>1. Paint(tree, tree.root, "RB_BLACK") \in Trees
    BY <1>0, <1>b, PaintTypes
  <2> QED
    BY <2>1, <1>0, <1>8, <1>a, <1>b DEF InsertDone, Return, Typed
<1>9. ASSUME NEW z \in Key, DeleteOuter(z) PROVE TypeInv'
  <2>1. PICK d \in Dir : /\ tree' = rb_transplant(tree, z, tree.child[z][Opposite(d)])
                         /\ node' = tree.child[z][Opposite(d)]
    BY <1>9 DEF DeleteOuter
  <2>2. tree' \in Trees /\ node' \in Node
    BY <2>1, <1>0, <1>b, TransplantTypes
  <2>3. /\ pc' \in {"delete_fixup", "free"} /\ arg' = z /\ iter' = NoIter
        /\ UNCHANGED <<size, allocated, up, result, nil_moved>>
    BY <1>9 DEF DeleteOuter, DeleteBegin
  <2> QED
    BY <2>2, <2>3, <1>0, <1>a, <1>b DEF Typed
<1>10. ASSUME NEW z \in Key, DeleteInner(z) PROVE TypeInv'
  <2>1. /\ pc' = "minimum" /\ arg' = z /\ iter' = NoIter /\ node' = tree.child[z][RB_R]
        /\ UNCHANGED <<tree, size, allocated, up, result, nil_moved>>
    BY <1>10 DEF DeleteInner, DeleteBegin
  <2>2. node' \in Node
    BY <2>1, <1>0, <1>b
  <2> QED
    BY <2>1, <2>2, <1>0, <1>a, <1>b DEF Typed
<1>11. CASE rb_tree_minimum
  BY <1>0, <1>11, <1>a, <1>b DEF rb_tree_minimum, ArgTyped, Typed
<1>12. CASE DeleteSuccessor
  <2>1. arg \in Key
    BY <1>0, <1>12 DEF DeleteSuccessor, ArgTyped
  <2>2. tree' = Succeeded(tree, arg, node)
    BY <1>12 DEF DeleteSuccessor, Succeeded
  <2>3. tree' \in Trees
    BY <2>1, <2>2, <1>0, <1>b, SucceededTypes
  <2>4. /\ node' = tree.child[node][RB_R]
        /\ pc' \in {"delete_fixup", "free"}
        /\ UNCHANGED <<size, allocated, arg, up, result, iter, nil_moved>>
    BY <1>12 DEF DeleteSuccessor
  <2> QED
    BY <2>1, <2>3, <2>4, <1>0, <1>a, <1>b DEF Typed
<1>13. CASE DeleteRecolor
  <2>1. PICK d, t, w : /\ d = child_dir(tree, node)
                       /\ t = lift_sibling(tree, node, d)
                       /\ w = Sibling(t, node, d)
                       /\ tree' = Paint(t, w, "RB_RED")
                       /\ node' = t.parent[node]
    BY <1>13 DEF DeleteRecolor
  <2>2. t \in Trees /\ d \in Dir
    BY <2>1, <1>0, <1>b, FixupTypes
  <2>3. w \in Node
    BY <2>1, <2>2, <1>0, <1>b, FixupTypes
  <2>4. tree' \in Trees /\ node' \in Node
    BY <2>1, <2>2, <2>3, <1>0, <1>b, PaintTypes
  <2>5. UNCHANGED <<size, allocated, pc, arg, up, result, iter, nil_moved>>
    BY <1>13 DEF DeleteRecolor
  <2> QED
    BY <2>4, <2>5, <1>0, <1>a DEF ArgTyped, Typed
<1>14. CASE DeleteRotate
  <2>1. PICK d, t1, w, t2 : /\ d = child_dir(tree, node)
                            /\ t1 = lift_sibling(tree, node, d)
                            /\ w = Sibling(t1, node, d)
                            /\ t2 = redden_outer(t1, w, d)
                            /\ tree' = settle(t2, node, d)
                            /\ nil_moved' = (nil_moved \/ t2.parent[node] # t1.parent[node])
    BY <1>14 DEF DeleteRotate
  <2>2. t1 \in Trees /\ d \in Dir
    BY <2>1, <1>0, <1>b, FixupTypes
  <2>3. w \in Node
    BY <2>1, <2>2, <1>0, <1>b, FixupTypes
  <2>4. t2 \in Trees
    BY <2>1, <2>2, <2>3, <1>0, <1>b, FixupTypes
  <2>5. tree' \in Trees
    BY <2>1, <2>2, <2>4, <1>0, FixupTypes
  <2>6. node' = tree'.root /\ UNCHANGED <<size, allocated, pc, arg, up, result, iter>>
    BY <1>14 DEF DeleteRotate
  <2>7. nil_moved' \in BOOLEAN
    BY <2>1, Zenon
  <2> QED
    BY <2>5, <2>6, <2>7, <1>0, <1>a, <1>b DEF ArgTyped, Typed
<1>15. CASE DeleteDone
  <2>1. Paint(tree, node, "RB_BLACK") \in Trees
    BY <1>0, <1>b, PaintTypes
  <2> QED
    BY <2>1, <1>0, <1>15, <1>a, <1>b DEF DeleteDone, ArgTyped, Typed
<1>16. CASE DeleteFree
  <2>1. arg \in Node
    BY <1>0, <1>16, <1>b DEF DeleteFree, ArgTyped
  <2>2. \A n \in Node : [tree EXCEPT !.child[n] = EmptyTree.child[n], !.parent[n] = nil,
                                     !.color[n] = "RB_BLACK"] \in Trees
    BY <1>0, <1>b DEF Trees, EmptyTree
  <2>3. /\ tree' = [tree EXCEPT !.child[arg] = EmptyTree.child[arg], !.parent[arg] = nil,
                                  !.color[arg] = "RB_BLACK"]
        /\ allocated' = allocated \ {arg} /\ size' = size - 1
        /\ pc' = "idle" /\ arg' = NULL /\ node' = nil /\ up' = nil
        /\ UNCHANGED <<result, iter, nil_moved>>
    BY <1>16 DEF DeleteFree, Return
  <2>4. tree' \in Trees
    BY <2>1, <2>2, <2>3
  <2> QED
    BY <2>3, <2>4, <1>0, <1>a, <1>b DEF Typed
<1>17. CASE rb_tree_cleanup
  <2>1. EmptyTree \in Trees
    BY <1>b DEF EmptyTree, Trees
  <2> QED
    BY <2>1, <1>0, <1>17, <1>a, <1>b DEF rb_tree_cleanup, callVars, ArgTyped, Typed
<1>18. CASE rb_iterator_init
  <2>1. <<>> \in Seq(Key)
    OBVIOUS
  <2> QED
    BY <2>1, <1>0, <1>18, <1>a, <1>b DEF rb_iterator_init, callVars, ArgTyped, Typed
<1>19. CASE BeginNext
  BY <1>0, <1>19, <1>a, <1>b DEF BeginNext, Typed
<1>20. CASE NextPush
  <2>1. /\ iter' = [iter EXCEPT !.stack = Append(iter.stack, iter.curr),
                                !.curr = tree.child[iter.curr][RB_L]]
        /\ iter.curr # nil /\ UNCHANGED <<tree, size, allocated, callVars, result, nil_moved>>
    BY <1>20 DEF NextPush
  <2>2. Append(iter.stack, iter.curr) \in Seq(Key) /\ tree.child[iter.curr][RB_L] \in Node
    BY <2>1, <1>0, <1>b
  <2>3. iter' \in [on : BOOLEAN, curr : Node, stack : Seq(Key)]
    BY <2>1, <2>2, <1>0
  <2> QED
    BY <2>1, <2>3, <1>0, <1>a DEF callVars, ArgTyped, Typed
<1>21. CASE rb_iterator_next
  <2>1. CASE Len(iter.stack) = 0
    <3>1. result' = [node |-> NULL, inserted |-> FALSE] /\ iter' = iter
      BY <2>1, <1>21 DEF rb_iterator_next
    <3>2. /\ pc' = "idle" /\ arg' = NULL /\ node' = nil /\ up' = nil
          /\ UNCHANGED <<tree, size, allocated, nil_moved>>
      BY <1>21 DEF rb_iterator_next, Return
    <3>3. result' \in [node : Key \cup {NULL}, inserted : BOOLEAN]
      BY <3>1
    <3> QED
      BY <3>1, <3>2, <3>3, <1>0, <1>a, <1>b DEF Typed
  <2>2. CASE Len(iter.stack) # 0
    <3>1. PICK top : top = Len(iter.stack)
      OBVIOUS
    <3>2. iter.stack[top] \in Key /\ SubSeq(iter.stack, 1, top - 1) \in Seq(Key)
      BY <2>2, <3>1, <1>0
    <3>3. /\ result' = [node |-> iter.stack[top], inserted |-> FALSE]
          /\ iter' = [iter EXCEPT !.stack = SubSeq(iter.stack, 1, top - 1),
                                  !.curr = tree.child[iter.stack[top]][RB_R]]
      BY <2>2, <3>1, <1>21 DEF rb_iterator_next, after_pop
    <3>4. /\ result' \in [node : Key \cup {NULL}, inserted : BOOLEAN]
          /\ iter' \in [on : BOOLEAN, curr : Node, stack : Seq(Key)]
      BY <3>2, <3>3, <1>0, <1>b
    <3> QED
      BY <3>4, <1>0, <1>21, <1>a, <1>b DEF rb_iterator_next, Return, Typed
  <2> QED
    BY <2>1, <2>2
<1>22. CASE UNCHANGED redBlackVars
  BY <1>0, <1>22, <1>a DEF redBlackVars, callVars, ArgTyped, Typed
<1>23. CASE RedBlackStep
  BY <1>23, <1>2, <1>3, <1>4, <1>5, <1>6, <1>7, <1>8, <1>11, <1>12, <1>13, <1>14, <1>15, <1>16,
     <1>20, <1>21 DEF RedBlackStep
<1>24. CASE RedBlackCall
  BY <1>24, <1>1, <1>9, <1>10, <1>17, <1>18, <1>19 DEF RedBlackCall
<1> QED
  BY <1>22, <1>23, <1>24 DEF RedBlackNext

\* Every field has its type, and a function that works for a datum has one.
LEMMA TypesHold == RedBlackSpec => []TypeInv
  BY TypesStart, TypesStep, PTL DEF RedBlackSpec

\* Every variable has its type.
THEOREM TypesAreKept == RedBlackSpec => []RedBlackTypeOK
<1>1. TypeInv => RedBlackTypeOK
  BY DEF TypeInv
<1> QED
  BY <1>1, TypesHold, PTL

-----------------------------------------------------------------------------
(* Searches, the minimum and the empty tree. *)

\* The search for k is at n, below u.
Searching(t, N, sub, k, n, u) ==
  /\ n \in N \cup {nil} /\ u \in N \cup {nil}
  /\ u = nil => n = t.root
  /\ u # nil => u # k /\ n = t.child[u][Toward(k, u)]
  /\ FitsBelow(t, N, sub, k, u)
  /\ k \in N => k \in sub[n]

\* A search begins at the root.
LEMMA SearchBegins ==
  ASSUME NEW t, NEW N, NEW sub, Shape(t, N, sub), NEW k \in Key
  PROVE  Searching(t, N, sub, k, t.root, nil)
<1>1. t.root \in N \cup {nil} /\ sub[t.root] = N
  BY DEF Shape
<1>2. ASSUME NEW n \in N, NEW d \in Dir PROVE nil \notin sub[t.child[n][d]]
  <2>1. t.child[n][d] \in Node
    BY ChildLinks
  <2> QED
    BY <2>1, NilIs DEF Shape
<1> QED
  BY <1>1, <1>2 DEF Searching, FitsBelow

\* The node where a search is lies on its side of every node above.
LEMMA SideAbove ==
  ASSUME NEW t, NEW N, NEW sub, Shape(t, N, sub), NEW k \in Key, NEW n, NEW u,
         Searching(t, N, sub, k, n, u), n # nil
  PROVE  FitsBelow(t, N, sub, k, n)
<1>0. /\ n \in N /\ N \subseteq Key /\ N \subseteq Node /\ t.root \in N \cup {nil} /\ sub[t.root] = N
  BY NilIs DEF Searching, Shape
<1> SUFFICES ASSUME NEW m \in N, NEW d \in Dir, n \in sub[t.child[m][d]] PROVE Side(d, k, m)
  BY DEF FitsBelow
<1>1. PICK c : c = t.child[m][d]
  OBVIOUS
<1>2. c \in N \cup {nil} /\ c \in Node /\ m \notin sub[c]
  BY <1>1, ChildLinks, Apart
<1>3. c \in N
  BY <1>1, <1>2 DEF Shape
<1>4. CASE n = c
  <2>1. t.parent[n] = m
    BY <1>1, <1>3, <1>4, ChildLinks, NilIs
  <2>2. u # nil
    <3>1. SUFFICES ASSUME n = t.root PROVE FALSE
      BY DEF Searching
    <3> QED
      BY <3>1, <1>0, <1>2, <1>4
  <2>3. u \in N /\ u # k /\ n = t.child[u][Toward(k, u)] /\ Toward(k, u) \in Dir
    BY <2>2 DEF Searching, Toward, Dir
  <2>4. u = m
    BY <2>1, <2>3, <1>0, ChildLinks, NilIs
  <2>5. d = Toward(k, u)
    <3>1. SUFFICES ASSUME d # Toward(k, u) PROVE FALSE
      OBVIOUS
    <3>2. d = Opposite(Toward(k, u))
      BY <2>3, <3>1, OppositeIs
    <3> QED
      BY <3>2, <2>3, <2>4, <1>0, <1>1, <1>4, NilIs, Apart
  <2>6. k \in Int /\ u \in Int
    BY <2>3, <1>0, NilIs
  <2> QED
    BY <2>3, <2>4, <2>5, <2>6 DEF Toward, Side, RB_L, RB_R
<1>5. CASE n # c
  <2>1. t.parent[n] \in sub[c]
    BY <1>0, <1>1, <1>3, <1>5, Nested
  <2>2. u # nil
    <3>1. SUFFICES ASSUME n = t.root PROVE FALSE
      BY DEF Searching
    <3>2. sub[n] \subseteq sub[c]
      BY <1>1, <1>3, Nested
    <3> QED
      BY <3>1, <3>2, <1>0, <1>2
  <2>3. u \in N /\ n = t.child[u][Toward(k, u)] /\ Toward(k, u) \in Dir
    BY <2>2 DEF Searching, Toward, Dir
  <2>4. t.parent[n] = u
    BY <2>3, <1>0, ChildLinks, NilIs
  <2> QED
    BY <2>1, <2>3, <2>4, <1>1 DEF Searching, FitsBelow
<1> QED
  BY <1>4, <1>5

\* One turn of the search: the datum, if it is there, is below the next node.
LEMMA SearchDescends ==
  ASSUME NEW t, NEW N, NEW sub, Shape(t, N, sub), NEW k \in Key, NEW n, NEW u,
         Searching(t, N, sub, k, n, u), n \notin {nil, k}
  PROVE  Searching(t, N, sub, k, t.child[n][Toward(k, n)], n)
<1>0. n \in N /\ N \subseteq Key /\ n \in Int /\ k \in Int
  BY NilIs DEF Searching, Shape
<1>1. PICK d : d = Toward(k, n)
  OBVIOUS
<1>2. d \in Dir /\ Side(d, k, n)
  BY <1>0, <1>1 DEF Toward, Dir, Side, RB_L, RB_R
<1>3. FitsBelow(t, N, sub, k, n)
  BY SideAbove
<1>4. t.child[n][d] \in N \cup {nil}
  BY <1>0, <1>2, ChildLinks
<1>5. ASSUME k \in N PROVE k \in sub[t.child[n][d]]
  <2>1. k \in sub[n]
    BY <1>5 DEF Searching
  <2>2. sub[n] = {n} \cup sub[t.child[n][d]] \cup sub[t.child[n][Opposite(d)]]
    BY <1>0, <1>2 DEF Shape
  <2>3. k \notin sub[t.child[n][Opposite(d)]]
    <3>1. SUFFICES ASSUME k \in sub[t.child[n][Opposite(d)]] PROVE FALSE
      OBVIOUS
    <3>2. Side(Opposite(d), k, n)
      BY <3>1, <1>0, <1>2, OppositeIs DEF Shape
    <3> QED
      BY <3>2, <1>0, <1>2, SidesDiffer
  <2> QED
    BY <2>1, <2>2, <2>3
<1> QED
  BY <1>0, <1>1, <1>3, <1>4, <1>5 DEF Searching

\* A datum that the search does not find is not there, and is inserted where it ended.
LEMMA LeafKeeps ==
  ASSUME NEW t, NEW N, NEW sub, NEW B, Sane(t, N, sub, B), NEW k \in Key, NEW u,
         Searching(t, N, sub, k, nil, u)
  PROVE  /\ k \notin N
         /\ \E sub1, B1 : RedAt(WithLeaf(t, k, u), N \cup {k}, sub1, B1, k)
<1>0. /\ Shape(t, N, sub) /\ Balanced(t, N, B, {}) /\ RedsApart(t, N, {}, {})
      /\ is_black(t, t.root)
  BY DEF Sane
<1>1. k \notin N /\ u \in N \cup {nil} /\ FitsBelow(t, N, sub, k, u)
      /\ (u = nil => t.root = nil)
      /\ (u # nil => t.child[u][Toward(k, u)] = nil)
  BY <1>0 DEF Searching, Shape
<1>2. Shape(WithLeaf(t, k, u), N \cup {k}, Grown(sub, k, u))
  BY <1>0, <1>1, LeafShape
<1>3. PICK r : r = WithLeaf(t, k, u)
  OBVIOUS
<1>4. /\ Balanced(r, N \cup {k}, [B EXCEPT ![k] = 0], {})
      /\ RedsApart(r, N \cup {k}, {}, {k})
      /\ is_red(r, k)
      /\ r.root = k \/ is_black(r, r.root)
  BY <1>0, <1>1, <1>3, LeafColors
<1>5. RedAt(r, N \cup {k}, Grown(sub, k, u), [B EXCEPT ![k] = 0], k)
  BY <1>2, <1>3, <1>4 DEF RedAt
<1> QED
  BY <1>1, <1>3, <1>5

\* rb_tree_minimum() begins at the right child, and goes on to the left.
LEMMA MinimumBegins ==
  ASSUME NEW t, NEW N, NEW sub, Shape(t, N, sub), NEW z \in N, t.child[z][RB_R] # nil
  PROVE  Leftmost(t, sub, z, t.child[z][RB_R])
<1>1. RB_R \in Dir
  BY DEF Dir
<1>2. t.child[z][RB_R] \in N
  BY <1>1, ChildLinks
<1>3. t.child[z][RB_R] \in sub[t.child[z][RB_R]]
  BY <1>1, <1>2, Apart
<1> QED
  BY <1>3 DEF Leftmost

\* One turn of rb_tree_minimum().
LEMMA MinimumDescends ==
  ASSUME NEW t, NEW N, NEW sub, Shape(t, N, sub), NEW z \in N, NEW y,
         Leftmost(t, sub, z, y), t.child[y][RB_L] # nil
  PROVE  Leftmost(t, sub, z, t.child[y][RB_L])
<1>1. RB_L \in Dir /\ RB_R \in Dir /\ Opposite(RB_L) = RB_R /\ N \subseteq Key
  BY DEF Dir, RB_L, RB_R, Opposite, Shape
<1>2. PICK R : R = sub[t.child[z][RB_R]]
  OBVIOUS
<1>3. R \subseteq N /\ y \in R /\ \A m \in R : m \in sub[y] \/ Side(RB_R, m, y)
  <2>1. t.child[z][RB_R] \in Node
    BY <1>1, ChildLinks
  <2> QED
    BY <2>1, <1>2 DEF Leftmost, Shape
<1>4. PICK c : c = t.child[y][RB_L]
  OBVIOUS
<1>5. c \in N /\ c \in sub[y] /\ c \in sub[c] /\ sub[c] \subseteq sub[y] /\ y \in N
  BY <1>1, <1>3, <1>4, ChildBelow, Apart
<1>6. sub[y] = {y} \cup sub[c] \cup sub[t.child[y][RB_R]]
  BY <1>1, <1>4, <1>5 DEF Shape
<1>7. Side(RB_L, c, y)
  BY <1>1, <1>4, <1>5 DEF Shape
<1>8. y \in Key /\ c \in Key /\ R \subseteq Key
  BY <1>1, <1>3, <1>5
<1>9. Side(RB_R, y, c)
  BY <1>1, <1>7, <1>8, SidesDiffer
<1>10. sub[y] \subseteq R
  <2>1. t.child[z][RB_R] \in N
    <3>1. t.child[z][RB_R] \in N \cup {nil}
      BY <1>1, ChildLinks
    <3> QED
      BY <3>1, <1>2, <1>3 DEF Shape
  <2> QED
    BY <2>1, <1>2, <1>3, Nested
<1>11. ASSUME NEW m \in R PROVE m \in sub[c] \/ Side(RB_R, m, c)
  <2>1. ASSUME Side(RB_R, m, y) PROVE Side(RB_R, m, c)
    BY <2>1, <1>1, <1>8, <1>9, SidesDiffer
  <2>2. ASSUME m \in sub[t.child[y][RB_R]] PROVE Side(RB_R, m, y)
    BY <2>2, <1>1, <1>5 DEF Shape
  <2> QED
    BY <2>1, <2>2, <1>3, <1>6, <1>9
<1>12. c \in R
  BY <1>5, <1>10
<1> QED
  BY <1>2, <1>4, <1>11, <1>12 DEF Leftmost

\* A node that is not in the tree may change.
Agree(r, t, k) ==
  /\ r \in Trees /\ r.root = t.root
  /\ \A n \in Node \ {k} : r.child[n] = t.child[n] /\ r.parent[n] = t.parent[n]
                           /\ r.color[n] = t.color[n]

\* The tree does not depend on a node that is not in it: freeing one changes nothing.
LEMMA OtherNodeKeeps ==
  ASSUME NEW t, NEW N, NEW sub, NEW B, Sane(t, N, sub, B), NEW k \in Key, k \notin N,
         NEW r, Agree(r, t, k)
  PROVE  Sane(r, N, sub, B)
<1>0. /\ Shape(t, N, sub) /\ Balanced(t, N, B, {}) /\ RedsApart(t, N, {}, {})
      /\ is_black(t, t.root)
  BY DEF Sane
<1>1. /\ N \subseteq Key /\ nil \in Node /\ nil # k /\ t \in Trees /\ t.root \in N \cup {nil}
      /\ N \subseteq Node
  BY <1>0, NilIs DEF Shape
<1>2. \A n \in N \cup {nil} : /\ n \in Node \ {k} /\ r.child[n] = t.child[n]
                              /\ r.parent[n] = t.parent[n] /\ r.color[n] = t.color[n]
  BY <1>1 DEF Agree
<1>3. r \in Trees /\ r.root = t.root
  BY DEF Agree
<1>4. Shape(r, N, sub)
  BY <1>0, <1>1, <1>2, <1>3 DEF Shape
<1>5. \A n \in N, d \in Dir : t.child[n][d] \in N \cup {nil}
  BY <1>0, ChildLinks
<1>6. \A n \in N \cup {nil} : /\ Weight(r, n) = Weight(t, n) /\ (is_red(r, n) <=> is_red(t, n))
                              /\ (is_black(r, n) <=> is_black(t, n))
  BY <1>2 DEF Weight, is_red, is_black
<1>7. Balanced(r, N, B, {})
  BY <1>0, <1>2, <1>6 DEF Balanced
<1>8. RedsApart(r, N, {}, {})
  BY <1>0, <1>2, <1>5, <1>6 DEF RedsApart
<1>9. is_black(r, r.root)
  BY <1>0, <1>1, <1>3, <1>6
<1> QED
  BY <1>4, <1>7, <1>8, <1>9 DEF Sane

\* A tree without nodes.
LEMMA EmptyIsSane ==
  \E sub, B : Sane(EmptyTree, {}, sub, B)
<1>1. PICK sub : sub = [n \in Node |-> {}]
  OBVIOUS
<1>2. PICK B : B = [n \in Node |-> 0]
  OBVIOUS
<1>3. EmptyTree \in Trees /\ EmptyTree.root = nil
  BY NilIs DEF EmptyTree, Trees, Color
<1>4. IsFiniteSet({})
  BY FS_EmptySet
<1>5. Shape(EmptyTree, {}, sub)
  BY <1>1, <1>3, <1>4, NilIs DEF Shape
<1>6. Balanced(EmptyTree, {}, B, {})
  BY <1>2, NilIs DEF Balanced
<1>7. is_black(EmptyTree, nil)
  BY NilIs DEF is_black, EmptyTree
<1> QED
  BY <1>3, <1>5, <1>6, <1>7 DEF Sane, RedsApart

-----------------------------------------------------------------------------
(* The iterator. *)

\* Each node on the stack is to the left of the one under it.
Down(t, sub, s) ==
  \A j, k \in 1..Len(s) : j < k => s[k] \in sub[t.child[s[j]][RB_L]]

\* Where the iterator is: it still has to walk down from c, and then to return the
\* nodes of the stack s, the last one first, each before what is to its right.
Walk(t, N, sub, c, s) ==
  /\ c \in N \cup {nil} /\ s \in Seq(N)
  /\ Down(t, sub, s)
  /\ \A j \in 1..Len(s) : sub[c] \subseteq sub[t.child[s[j]][RB_L]]
  /\ \A j \in 1..Len(s) : \A m \in sub[c] : m < s[j]
  /\ \A j, k \in 1..Len(s) : j < k =>
       s[k] < s[j] /\ \A m \in sub[t.child[s[k]][RB_R]] : m < s[j]

\* What it still has to return.
Left(t, sub, c, s) ==
  sub[c] \cup UNION {{s[j]} \cup sub[t.child[s[j]][RB_R]] : j \in 1..Len(s)}

\* rb_iterator_init() starts with everything left.
LEMMA WalkBegins ==
  ASSUME NEW t, NEW N, NEW sub, Shape(t, N, sub)
  PROVE  /\ Walk(t, N, sub, t.root, <<>>)
         /\ Left(t, sub, t.root, <<>>) = N
<1>1. t.root \in N \cup {nil} /\ sub[t.root] = N
  BY DEF Shape
<1>2. <<>> \in Seq(N) /\ Len(<<>>) = 0 /\ 1..0 = {}
  OBVIOUS
<1> QED
  BY <1>1, <1>2 DEF Walk, Down, Left

\* What is left of a node is less than it, what is right of it greater.
LEMMA RightIs ==
  ASSUME NEW t, NEW N, NEW sub, Shape(t, N, sub), NEW n \in N
  PROVE  /\ RB_L \in Dir /\ RB_R \in Dir /\ N \subseteq Int
         /\ sub[n] = {n} \cup sub[t.child[n][RB_L]] \cup sub[t.child[n][RB_R]]
         /\ t.child[n][RB_L] \in N \cup {nil} /\ t.child[n][RB_R] \in N \cup {nil}
         /\ sub[t.child[n][RB_L]] \subseteq N /\ sub[t.child[n][RB_R]] \subseteq N
         /\ \A m \in sub[t.child[n][RB_L]] : m < n
         /\ \A m \in sub[t.child[n][RB_R]] : n < m
         /\ n \notin sub[t.child[n][RB_L]] /\ n \notin sub[t.child[n][RB_R]]
         /\ n \in sub[n]
<1>1. RB_L \in Dir /\ RB_R \in Dir /\ Opposite(RB_L) = RB_R /\ N \subseteq Key
  BY DEF Dir, RB_L, RB_R, Opposite, Shape
<1>2. t.child[n][RB_L] \in N \cup {nil} /\ t.child[n][RB_R] \in N \cup {nil}
  BY <1>1, ChildLinks
<1>3. sub[t.child[n][RB_L]] \subseteq N /\ sub[t.child[n][RB_R]] \subseteq N
  BY <1>2, <1>1, NilIs DEF Shape
<1>4. sub[n] = {n} \cup sub[t.child[n][RB_L]] \cup sub[t.child[n][RB_R]]
  BY <1>1 DEF Shape
<1>5. /\ \A m \in sub[t.child[n][RB_L]] : Side(RB_L, m, n)
      /\ \A m \in sub[t.child[n][RB_R]] : Side(RB_R, m, n)
  BY <1>1 DEF Shape
<1>6. RB_L # RB_R
  BY DEF RB_L, RB_R
<1>7. n \notin sub[t.child[n][RB_L]] /\ n \notin sub[t.child[n][RB_R]]
  BY <1>1, Apart
<1> QED
  BY <1>1, <1>2, <1>3, <1>4, <1>5, <1>6, <1>7, NilIs DEF Side

\* Pushing the current node and going left leaves the same nodes to return.
LEMMA WalkPushes ==
  ASSUME NEW t, NEW N, NEW sub, Shape(t, N, sub), NEW c, NEW s, Walk(t, N, sub, c, s), c # nil
  PROVE  /\ Walk(t, N, sub, t.child[c][RB_L], Append(s, c))
         /\ Left(t, sub, t.child[c][RB_L], Append(s, c)) = Left(t, sub, c, s)
<1>1. c \in N /\ s \in Seq(N) /\ Len(s) \in Nat
  BY DEF Walk
<1>2. PICK l, r, L, R : /\ l = t.child[c][RB_L] /\ r = t.child[c][RB_R]
                        /\ L = sub[l] /\ R = sub[r]
  OBVIOUS
<1>3. /\ sub[c] = {c} \cup L \cup R /\ L \subseteq N /\ R \subseteq N /\ l \in N \cup {nil}
      /\ (\A m \in L : m < c) /\ (\A m \in R : c < m) /\ N \subseteq Int
  BY <1>1, <1>2, RightIs
<1>4. PICK z : z = Append(s, c)
  OBVIOUS
<1>5. /\ z \in Seq(N) /\ Len(z) = Len(s) + 1 /\ z[Len(s) + 1] = c
      /\ \A j \in 1..Len(s) : z[j] = s[j] /\ s[j] \in N
      /\ \A j \in 1..Len(z) : j = Len(s) + 1 \/ j \in 1..Len(s)
  BY <1>1, <1>4
<1>6. \A j \in 1..Len(s) : c < s[j] /\ (\A m \in L : m < s[j]) /\ (\A m \in R : m < s[j])
  BY <1>3 DEF Walk
<1>7. \A j \in 1..Len(z) : \A m \in L : m < z[j]
  BY <1>3, <1>5, <1>6
<1>8. ASSUME NEW j \in 1..Len(z), NEW k \in 1..Len(z), j < k
      PROVE  z[k] < z[j] /\ \A m \in sub[t.child[z[k]][RB_R]] : m < z[j]
  <2>1. j \in 1..Len(s) /\ z[j] = s[j]
    BY <1>1, <1>5, <1>8
  <2>2. CASE k = Len(s) + 1
    <3>1. z[k] = c /\ sub[t.child[z[k]][RB_R]] = R
      BY <2>2, <1>2, <1>5
    <3> QED
      BY <3>1, <2>1, <1>6
  <2>3. CASE k \in 1..Len(s)
    <3>1. z[k] = s[k]
      BY <2>3, <1>5
    <3> QED
      BY <3>1, <2>1, <2>3, <1>8 DEF Walk
  <2> QED
    BY <2>2, <2>3, <1>5
<1>9. Walk(t, N, sub, l, z)
  <2>1. \A j \in 1..Len(s) : c \in sub[t.child[s[j]][RB_L]] /\ L \subseteq sub[t.child[s[j]][RB_L]]
    BY <1>3 DEF Walk
  <2>2. ASSUME NEW j \in 1..Len(z) PROVE sub[l] \subseteq sub[t.child[z[j]][RB_L]]
    BY <1>2, <1>5, <2>1
  <2>3. ASSUME NEW j \in 1..Len(z), NEW k \in 1..Len(z), j < k
        PROVE  z[k] \in sub[t.child[z[j]][RB_L]]
    <3>1. j \in 1..Len(s) /\ z[j] = s[j]
      BY <1>1, <1>5, <2>3
    <3>2. k = Len(s) + 1 \/ (k \in 1..Len(s) /\ z[k] = s[k])
      BY <1>5
    <3>3. ASSUME k \in 1..Len(s) PROVE s[k] \in sub[t.child[s[j]][RB_L]]
      BY <2>3, <3>1, <3>3 DEF Walk, Down
    <3> QED
      BY <1>5, <2>1, <3>1, <3>2, <3>3
  <2>4. Down(t, sub, z)
    BY <2>3 DEF Down
  <2> QED
    BY <1>2, <1>3, <1>5, <1>7, <1>8, <2>2, <2>4 DEF Walk
<1>10. Left(t, sub, l, z) = Left(t, sub, c, s)
  <2>1. PICK U : U = UNION {{s[j]} \cup sub[t.child[s[j]][RB_R]] : j \in 1..Len(s)}
    OBVIOUS
  <2>2. UNION {{z[j]} \cup sub[t.child[z[j]][RB_R]] : j \in 1..Len(z)} = U \cup {c} \cup R
    <3>1. ASSUME NEW x, x \in UNION {{z[j]} \cup sub[t.child[z[j]][RB_R]] : j \in 1..Len(z)}
          PROVE  x \in U \cup {c} \cup R
      <4>1. PICK j \in 1..Len(z) : x \in {z[j]} \cup sub[t.child[z[j]][RB_R]]
        BY <3>1
      <4>2. CASE j = Len(s) + 1
        <5>1. z[j] = c
          BY <4>2, <1>5
        <5> QED
          BY <4>1, <5>1, <1>2
      <4>3. CASE j \in 1..Len(s)
        <5>1. z[j] = s[j]
          BY <4>3, <1>5
        <5> QED
          BY <4>1, <4>3, <5>1, <2>1
      <4> QED
        BY <4>2, <4>3, <1>5
    <3>2. ASSUME NEW x, x \in U
          PROVE  x \in UNION {{z[j]} \cup sub[t.child[z[j]][RB_R]] : j \in 1..Len(z)}
      <4>1. PICK j \in 1..Len(s) : x \in {s[j]} \cup sub[t.child[s[j]][RB_R]]
        BY <3>2, <2>1
      <4>2. z[j] = s[j] /\ j \in 1..Len(z)
        BY <1>1, <1>5
      <4> QED
        BY <4>1, <4>2
    <3>3. ASSUME NEW x, x \in {c} \cup R
          PROVE  x \in UNION {{z[j]} \cup sub[t.child[z[j]][RB_R]] : j \in 1..Len(z)}
      <4>1. PICK j : j = Len(s) + 1
        OBVIOUS
      <4>2. j \in 1..Len(z) /\ z[j] = c
        BY <4>1, <1>1, <1>5
      <4>3. x \in {z[j]} \cup sub[t.child[z[j]][RB_R]]
        BY <3>3, <4>2, <1>2
      <4> QED
        BY <4>2, <4>3
    <3> QED
      BY <3>1, <3>2, <3>3
  <2> QED
    BY <2>1, <2>2, <1>2, <1>3 DEF Left
<1> QED
  BY <1>2, <1>4, <1>9, <1>10

\* x is the least of S.
LeastOf(x, S) == x \in S /\ \A y \in S : x <= y

\* The top of the stack is the least node that is left, and is returned.
LEMMA WalkPops ==
  ASSUME NEW t, NEW N, NEW sub, Shape(t, N, sub), NEW s, Walk(t, N, sub, nil, s), Len(s) # 0
  PROVE  /\ s[Len(s)] \in N
         /\ Walk(t, N, sub, t.child[s[Len(s)]][RB_R], SubSeq(s, 1, Len(s) - 1))
         /\ LeastOf(s[Len(s)], Left(t, sub, nil, s))
         /\ Left(t, sub, t.child[s[Len(s)]][RB_R], SubSeq(s, 1, Len(s) - 1))
              = Left(t, sub, nil, s) \ {s[Len(s)]}
<1>1. s \in Seq(N) /\ Len(s) \in Nat /\ sub[nil] = {}
  BY DEF Walk, Shape
<1>2. PICK top, x, r, R : /\ top = Len(s) /\ x = s[top] /\ r = t.child[x][RB_R] /\ R = sub[r]
  OBVIOUS
<1>3. top \in 1..Len(s) /\ top \in Nat /\ top > 0 /\ x \in N
  BY <1>1, <1>2
<1>4. /\ r \in N \cup {nil} /\ R \subseteq N /\ N \subseteq Int /\ (\A m \in R : x < m)
      /\ x \notin R
  BY <1>2, <1>3, RightIs
<1>5. PICK z : z = SubSeq(s, 1, top - 1)
  OBVIOUS
<1>6. /\ z \in Seq(N) /\ Len(z) = top - 1
      /\ \A j \in 1..(top - 1) : z[j] = s[j] /\ j \in 1..Len(s) /\ j < top /\ s[j] \in N
      /\ \A j \in 1..Len(s) : j = top \/ j \in 1..(top - 1)
  BY <1>1, <1>2, <1>3, <1>5
<1>7. \A j \in 1..(top - 1) : x < s[j] /\ \A m \in R : m < s[j]
  BY <1>2, <1>3, <1>6 DEF Walk
<1>8. Walk(t, N, sub, r, z)
  <2>1. \A j \in 1..Len(z) : \A m \in sub[r] : m < z[j]
    BY <1>2, <1>6, <1>7
  <2>2. ASSUME NEW j \in 1..Len(z), NEW k \in 1..Len(z), j < k
        PROVE  z[k] < z[j] /\ \A m \in sub[t.child[z[k]][RB_R]] : m < z[j]
    <3>1. j \in 1..(top - 1) /\ k \in 1..(top - 1)
      BY <1>6
    <3>2. z[j] = s[j] /\ z[k] = s[k] /\ j \in 1..Len(s) /\ k \in 1..Len(s)
      BY <3>1, <1>6
    <3> QED
      BY <3>2, <2>2 DEF Walk
  <2>3. ASSUME NEW j \in 1..(top - 1) PROVE R \subseteq sub[t.child[z[j]][RB_L]]
    <3>1. x \in sub[t.child[s[j]][RB_L]] /\ s[j] \in N
      BY <1>2, <1>3, <1>6 DEF Walk, Down
    <3>2. t.child[s[j]][RB_L] \in N
      <4>1. t.child[s[j]][RB_L] \in N \cup {nil}
        BY <3>1, RightIs
      <4> QED
        BY <1>1, <3>1, <4>1
    <3>3. sub[x] \subseteq sub[t.child[s[j]][RB_L]]
      BY <3>1, <3>2, Nested
    <3>4. R \subseteq sub[x]
      BY <1>2, <1>3, RightIs
    <3> QED
      BY <1>6, <3>3, <3>4
  <2>4. ASSUME NEW j \in 1..Len(z), NEW k \in 1..Len(z), j < k
        PROVE  z[k] \in sub[t.child[z[j]][RB_L]]
    <3>1. z[j] = s[j] /\ z[k] = s[k] /\ j \in 1..Len(s) /\ k \in 1..Len(s)
      BY <1>6
    <3> QED
      BY <2>4, <3>1 DEF Walk, Down
  <2>5. Down(t, sub, z)
    BY <2>4 DEF Down
  <2>6. \A j \in 1..Len(z) : sub[r] \subseteq sub[t.child[z[j]][RB_L]]
    BY <1>2, <1>6, <2>3
  <2> QED
    BY <2>1, <2>2, <2>5, <2>6, <1>4, <1>6 DEF Walk
<1>9. PICK U, V : /\ U = UNION {{s[j]} \cup sub[t.child[s[j]][RB_R]] : j \in 1..Len(s)}
                  /\ V = UNION {{z[j]} \cup sub[t.child[z[j]][RB_R]] : j \in 1..Len(z)}
  OBVIOUS
<1>10. \A y \in V : \E j \in 1..(top - 1) : y \in {s[j]} \cup sub[t.child[s[j]][RB_R]]
  <2> TAKE y \in V
  <2>1. PICK j \in 1..Len(z) : y \in {z[j]} \cup sub[t.child[z[j]][RB_R]]
    BY <1>9
  <2>2. j \in 1..(top - 1) /\ z[j] = s[j]
    BY <1>6
  <2> QED
    BY <2>1, <2>2
<1>11. \A y \in V : x < y /\ y \in Int
  <2> TAKE y \in V
  <2>1. PICK j \in 1..(top - 1) : y \in {s[j]} \cup sub[t.child[s[j]][RB_R]]
    BY <1>10
  <2>2. x < s[j] /\ s[j] \in N
    BY <1>6, <1>7
  <2>3. /\ sub[t.child[s[j]][RB_R]] \subseteq N
        /\ \A m \in sub[t.child[s[j]][RB_R]] : s[j] < m
    BY <2>2, RightIs
  <2>4. y \in N /\ (y = s[j] \/ s[j] < y)
    BY <2>1, <2>2, <2>3
  <2>5. x \in Int /\ s[j] \in Int /\ y \in Int
    BY <2>2, <2>4, <1>3, <1>4
  <2>6. CASE y = s[j]
    BY <2>2, <2>5, <2>6
  <2>7. CASE s[j] < y
    BY <2>2, <2>5, <2>7
  <2> QED
    BY <2>4, <2>5, <2>6, <2>7
<1>12. U = {x} \cup R \cup V
  <2>1. ASSUME NEW y, y \in U PROVE y \in {x} \cup R \cup V
    <3>1. PICK j \in 1..Len(s) : y \in {s[j]} \cup sub[t.child[s[j]][RB_R]]
      BY <2>1, <1>9
    <3>2. CASE j = top
      BY <3>1, <3>2, <1>2
    <3>3. CASE j \in 1..(top - 1)
      <4>1. z[j] = s[j] /\ j \in 1..Len(z)
        BY <3>3, <1>6
      <4> QED
        BY <3>1, <4>1, <1>9
    <3> QED
      BY <3>2, <3>3, <1>6
  <2>2. ASSUME NEW y, y \in {x} \cup R PROVE y \in U
    <3>1. y \in {s[top]} \cup sub[t.child[s[top]][RB_R]]
      BY <2>2, <1>2
    <3> QED
      BY <3>1, <1>3, <1>9
  <2>3. ASSUME NEW y, y \in V PROVE y \in U
    <3>1. PICK j \in 1..(top - 1) : y \in {s[j]} \cup sub[t.child[s[j]][RB_R]]
      BY <2>3, <1>10
    <3>2. j \in 1..Len(s)
      BY <1>6
    <3> QED
      BY <3>1, <3>2, <1>9
  <2> QED
    BY <2>1, <2>2, <2>3
<1>13. x \notin V
  BY <1>3, <1>4, <1>11
<1>14. Left(t, sub, nil, s) = {x} \cup R \cup V /\ Left(t, sub, r, z) = R \cup V
  BY <1>1, <1>2, <1>9, <1>12 DEF Left
<1>15. LeastOf(x, {x} \cup R \cup V)
  <2>1. \A y \in {x} \cup R \cup V : x <= y
    BY <1>3, <1>4, <1>11
  <2> QED
    BY <2>1 DEF LeastOf
<1>16. R \cup V = ({x} \cup R \cup V) \ {x}
  BY <1>4, <1>13
<1> QED
  BY <1>2, <1>3, <1>5, <1>8, <1>14, <1>15, <1>16

\* Nothing is left when the stack is empty.
LEMMA WalkEnds ==
  ASSUME NEW t, NEW N, NEW sub, Shape(t, N, sub), NEW s, Walk(t, N, sub, nil, s)
  PROVE  Len(s) = 0 <=> Left(t, sub, nil, s) = {}
<1>1. s \in Seq(N) /\ Len(s) \in Nat /\ sub[nil] = {}
  BY DEF Walk, Shape
<1>2. ASSUME Len(s) = 0 PROVE Left(t, sub, nil, s) = {}
  <2>1. 1..Len(s) = {}
    BY <1>2
  <2> QED
    BY <2>1, <1>1 DEF Left
<1>3. ASSUME Len(s) # 0 PROVE Left(t, sub, nil, s) # {}
  BY <1>3, WalkPops DEF LeastOf
<1> QED
  BY <1>2, <1>3

-----------------------------------------------------------------------------
(* The inductive invariant. *)

\* What holds at each step of the functions, with sub the subtrees and B the number
\* of black nodes below each node.
TreeAt(t, al, f, a, n, u, sub, B) ==
  /\ f \in {"idle", "next", "find", "insert", "minimum"} => Sane(t, al, sub, B)
  /\ f \in {"find", "insert"} => Searching(t, al, sub, a, n, u)
  /\ f = "insert_fixup" => RedAt(t, al, sub, B, n)
  /\ f \in {"minimum", "delete_fixup", "free"} => a \in al
  /\ f = "minimum" => t.child[a][RB_L] # nil /\ Leftmost(t, sub, a, n)
  /\ f = "delete_fixup" => GapAt(t, al \ {a}, sub, B, n)
  /\ f = "free" => Sane(t, al \ {a}, sub, B)

\* The iterator is used only between calls that change nothing.
IterAt(t, al, f, i, sub) ==
  /\ i.on => f \in {"idle", "find", "next"} /\ Walk(t, al, sub, i.curr, i.stack)
  /\ f = "next" => i.on

\* What holds of the nodes, the function that runs and the iterator.
Good(t, sz, al, f, a, n, u, i) ==
  /\ sz = Cardinality(al) /\ IsFiniteSet(al)
  /\ \E sub, B : TreeAt(t, al, f, a, n, u, sub, B) /\ IterAt(t, al, f, i, sub)

\* It holds in this state.
GoodNow == Good(tree, size, allocated, pc, arg, node, up, iter)

\* What holds between calls.
LEMMA IdleIsGood ==
  ASSUME NEW t, NEW sz, NEW al, NEW a, NEW n, NEW u, NEW i, NEW sub, NEW B,
         NEW f \in {"idle", "next"},
         sz = Cardinality(al), IsFiniteSet(al), Sane(t, al, sub, B), IterAt(t, al, f, i, sub)
  PROVE  Good(t, sz, al, f, a, n, u, i)
<1>1. TreeAt(t, al, f, a, n, u, sub, B)
  BY DEF TreeAt
<1> QED
  BY <1>1 DEF Good

\* It holds at first.
LEMMA GoodStart == RedBlackInit => GoodNow
<1> SUFFICES ASSUME RedBlackInit PROVE GoodNow
  OBVIOUS
<1>1. PICK sub, B : Sane(EmptyTree, {}, sub, B)
  BY EmptyIsSane
<1>2. /\ tree = EmptyTree /\ size = 0 /\ allocated = {} /\ pc = "idle" /\ iter = NoIter
  BY DEF RedBlackInit
<1>3. IterAt(tree, allocated, pc, iter, sub)
  BY <1>2 DEF IterAt, NoIter
<1>4. size = Cardinality(allocated) /\ IsFiniteSet(allocated)
  BY <1>2, FS_EmptySet
<1>5. Sane(tree, allocated, sub, B) /\ pc \in {"idle", "next"}
  BY <1>1, <1>2
<1> QED
  BY <1>3, <1>4, <1>5, IdleIsGood DEF GoodNow

\* An iterator that may not be used needs nothing.
LEMMA NoIterIsAt ==
  ASSUME NEW t, NEW al, NEW f, f # "next", NEW sub, NEW i, ~i.on
  PROVE  IterAt(t, al, f, i, sub)
  BY DEF IterAt

\* What a step of insertions makes of the tree, and what a search leaves.
LEMMA InsertKeeps ==
  ASSUME TypeInv, GoodNow,
         \/ \E k \in Key : BeginFind(k) \/ BeginInsert(k)
         \/ Descend \/ rb_tree_find \/ InsertFound \/ InsertNew
         \/ InsertRecolor \/ InsertRotate \/ InsertDone
  PROVE  Good(tree', size', allocated', pc', arg', node', up', iter')
<1>0. /\ tree \in Trees /\ allocated \in SUBSET Key
      /\ (pc \in {"find", "insert", "minimum", "delete_fixup", "free"} => arg \in Key)
      /\ node \in Node /\ up \in Node
  BY TypedIs DEF Typed
<1>a. PICK sub, B : /\ TreeAt(tree, allocated, pc, arg, node, up, sub, B)
                    /\ IterAt(tree, allocated, pc, iter, sub)
  BY DEF GoodNow, Good
<1>b. size = Cardinality(allocated) /\ IsFiniteSet(allocated)
  BY DEF GoodNow, Good
<1>1. ASSUME NEW k \in Key, BeginFind(k) \/ BeginInsert(k)
      PROVE  Good(tree', size', allocated', pc', arg', node', up', iter')
  <2>1. /\ pc = "idle" /\ pc' \in {"find", "insert"} /\ arg' = k /\ node' = tree.root
        /\ up' = nil /\ UNCHANGED <<tree, size, allocated>>
        /\ ((pc' = "find" /\ iter' = iter) \/ iter' = NoIter)
    BY <1>1 DEF BeginFind, BeginInsert, Begin
  <2>2. Sane(tree, allocated, sub, B)
    BY <2>1, <1>a DEF TreeAt
  <2>3. Searching(tree, allocated, sub, k, tree.root, nil)
    BY <2>2, SearchBegins DEF Sane
  <2>4. TreeAt(tree', allocated', pc', arg', node', up', sub, B)
    BY <2>1, <2>2, <2>3 DEF TreeAt
  <2>5. IterAt(tree', allocated', pc', iter', sub)
    BY <2>1, <1>a DEF IterAt, NoIter
  <2> QED
    BY <2>1, <2>4, <2>5, <1>b DEF Good
<1>2. CASE Descend
  <2>1. /\ pc \in {"find", "insert"} /\ node \notin {nil, arg}
        /\ node' = tree.child[node][Toward(arg, node)] /\ up' = node
        /\ UNCHANGED <<tree, size, allocated, pc, arg, iter>>
    BY <1>2 DEF Descend
  <2>2. Sane(tree, allocated, sub, B) /\ Searching(tree, allocated, sub, arg, node, up)
    BY <2>1, <1>a DEF TreeAt
  <2>3. arg \in Key /\ Shape(tree, allocated, sub)
    BY <2>1, <2>2, <1>0 DEF Sane
  <2>4. Searching(tree, allocated, sub, arg, node', up')
    BY <2>1, <2>2, <2>3, SearchDescends
  <2>5. TreeAt(tree', allocated', pc', arg', node', up', sub, B)
    BY <2>1, <2>2, <2>4 DEF TreeAt
  <2>6. IterAt(tree', allocated', pc', iter', sub)
    BY <2>1, <1>a DEF IterAt
  <2> QED
    BY <2>1, <2>5, <2>6, <1>b DEF Good
<1>3. CASE rb_tree_find \/ InsertFound
  <2>1. /\ pc \in {"find", "insert"} /\ pc' = "idle"
        /\ UNCHANGED <<tree, size, allocated, iter>>
    BY <1>3 DEF rb_tree_find, InsertFound, Return
  <2>2. Sane(tree', allocated', sub, B)
    BY <2>1, <1>a DEF TreeAt
  <2>3. IterAt(tree', allocated', pc', iter', sub)
    BY <2>1, <1>a DEF IterAt
  <2>4. size' = Cardinality(allocated') /\ IsFiniteSet(allocated') /\ pc' \in {"idle", "next"}
    BY <2>1, <1>b
  <2> QED
    BY <2>2, <2>3, <2>4, IdleIsGood
<1>4. CASE InsertNew
  <2>1. /\ pc = "insert" /\ node = nil /\ tree' = WithLeaf(tree, arg, up)
        /\ allocated' = allocated \cup {arg} /\ size' = size + 1
        /\ pc' = "insert_fixup" /\ node' = arg /\ iter' = iter
    BY <1>4 DEF InsertNew
  <2>2. Sane(tree, allocated, sub, B) /\ Searching(tree, allocated, sub, arg, nil, up)
    BY <2>1, <1>a DEF TreeAt
  <2>3. arg \in Key
    BY <2>1, <1>0
  <2>4. /\ arg \notin allocated
        /\ \E sub1, B1 : RedAt(WithLeaf(tree, arg, up), allocated \cup {arg}, sub1, B1, arg)
    BY <2>2, <2>3, LeafKeeps
  <2>5. PICK sub1, B1 : RedAt(tree', allocated', sub1, B1, node')
    BY <2>1, <2>4
  <2>6. TreeAt(tree', allocated', pc', arg', node', up', sub1, B1)
    BY <2>1, <2>5 DEF TreeAt
  <2>7. IterAt(tree', allocated', pc', iter', sub1)
    BY <2>1, <1>a DEF IterAt
  <2>8. size' = Cardinality(allocated') /\ IsFiniteSet(allocated')
    BY <2>1, <2>4, <1>b, FS_AddElement
  <2> QED
    BY <2>6, <2>7, <2>8 DEF Good
<1>5. CASE InsertRecolor
  <2>1. PICK p, g, u : /\ p = tree.parent[node] /\ g = tree.parent[p]
                       /\ u = tree.child[g][Opposite(child_dir(tree, p))]
    OBVIOUS
  <2>2. /\ pc = "insert_fixup" /\ is_red(tree, p) /\ is_red(tree, u)
        /\ tree' = Repainted(tree, p, g, u) /\ node' = g
        /\ UNCHANGED <<size, allocated, pc, arg, up, iter>>
    BY <2>1, <1>5
    DEF InsertRecolor, InsertFixing, Parent, Grandparent, Uncle, Repainted
  <2>3. RedAt(tree, allocated, sub, B, node)
    BY <2>2, <1>a DEF TreeAt
  <2>4. Kin(tree, node, p, g) /\ UncleIs(tree, p, g, u)
    BY <2>1 DEF Kin, UncleIs
  <2>5. RedAt(tree', allocated, sub, [B EXCEPT ![p] = B[p] + 1, ![u] = B[u] + 1], g)
    BY <2>2, <2>3, <2>4, RecolorKeeps
  <2>6. PICK B1 : RedAt(tree', allocated', sub, B1, node')
    BY <2>2, <2>5
  <2>7. TreeAt(tree', allocated', pc', arg', node', up', sub, B1)
    BY <2>2, <2>6 DEF TreeAt
  <2>8. IterAt(tree', allocated', pc', iter', sub)
    BY <2>2, <1>a DEF IterAt
  <2> QED
    BY <2>2, <2>7, <2>8, <1>b DEF Good
<1>6. CASE InsertRotate
  <2>1. PICK p, g : p = tree.parent[node] /\ g = tree.parent[p]
    OBVIOUS
  <2>2. PICK d : d = child_dir(tree, p)
    OBVIOUS
  <2>3. PICK s : s = straighten(tree, node, d)
    OBVIOUS
  <2>4. PICK p1, g1 : p1 = s.tree.parent[s.node] /\ g1 = s.tree.parent[p1]
    OBVIOUS
  <2>5. /\ pc = "insert_fixup" /\ is_red(tree, p) /\ is_black(tree, tree.child[g][Opposite(d)])
        /\ tree' = rb_node_rotate(Paint(Paint(s.tree, p1, "RB_BLACK"), g1, "RB_RED"),
                                  g1, Opposite(d))
        /\ node' = s.node
        /\ UNCHANGED <<size, allocated, pc, arg, up, iter>>
    BY <2>1, <2>2, <2>3, <2>4, <1>6, Zenon DEF InsertRotate, InsertFixing, Parent, Grandparent, Uncle
  <2>6. RedAt(tree, allocated, sub, B, node) /\ Kin(tree, node, p, g)
    BY <2>1, <2>5, <1>a DEF TreeAt, Kin
  <2>7. PICK sub1 :
           /\ RedAt(s.tree, allocated, sub1, B, s.node)
           /\ is_red(s.tree, s.tree.parent[s.node])
           /\ s.tree.parent[s.tree.parent[s.node]] = g
           /\ s.tree.child[g][d] = s.tree.parent[s.node]
           /\ s.tree.child[g][Opposite(d)] = tree.child[g][Opposite(d)]
           /\ s.tree.child[s.tree.parent[s.node]][d] = s.node
           /\ s.tree.color = tree.color
    BY <2>2, <2>3, <2>5, <2>6, StraightenKeeps
  <2>8. /\ RedAt(s.tree, allocated, sub1, B, s.node) /\ Kin(s.tree, s.node, p1, g1)
        /\ is_red(s.tree, p1) /\ Outside(s.tree, s.node, p1, g1, d) /\ g1 = g
    BY <2>4, <2>7 DEF Kin, Outside
  <2>9. is_black(s.tree, s.tree.child[g1][Opposite(d)])
    BY <2>5, <2>7, <2>8 DEF is_black
  <2>10. d \in Dir
    BY <2>2 DEF child_dir, Dir
  <2>11. \E sub2, B2 : RedAt(tree', allocated, sub2, B2, s.node)
    BY <2>5, <2>8, <2>9, <2>10, InsertTurnKeeps
  <2>12. PICK sub2, B2 : RedAt(tree', allocated', sub2, B2, node')
    BY <2>5, <2>11
  <2>13. TreeAt(tree', allocated', pc', arg', node', up', sub2, B2)
    BY <2>5, <2>12 DEF TreeAt
  <2>14. IterAt(tree', allocated', pc', iter', sub2)
    BY <2>5, <1>a DEF IterAt
  <2> QED
    BY <2>5, <2>13, <2>14, <1>b DEF Good
<1>7. CASE InsertDone
  <2>1. /\ pc = "insert_fixup" /\ is_black(tree, tree.parent[node])
        /\ tree' = Paint(tree, tree.root, "RB_BLACK") /\ pc' = "idle"
        /\ UNCHANGED <<size, allocated, iter>>
    BY <1>7 DEF InsertDone, Return, Parent
  <2>2. RedAt(tree, allocated, sub, B, node)
    BY <2>1, <1>a DEF TreeAt
  <2>3. /\ Shape(tree', allocated, sub) /\ \E A : Balanced(tree', allocated, A, {})
        /\ RedsApart(tree', allocated, {}, {}) /\ is_black(tree', tree'.root)
    BY <2>1, <2>2, RootBlackened
  <2>4. PICK A : Sane(tree', allocated', sub, A)
    BY <2>1, <2>3 DEF Sane
  <2>5. IterAt(tree', allocated', pc', iter', sub)
    BY <2>1, <1>a DEF IterAt
  <2>6. size' = Cardinality(allocated') /\ IsFiniteSet(allocated') /\ pc' \in {"idle", "next"}
    BY <2>1, <1>b
  <2> QED
    BY <2>4, <2>5, <2>6, IdleIsGood
<1> QED
  BY <1>1, <1>2, <1>3, <1>4, <1>5, <1>6, <1>7

\* The nodes that are linked while the function f works for a.
Nodes(al, f, a) == IF f \in {"delete_fixup", "free"} THEN al \ {a} ELSE al

\* The nodes linked to the root are these, and the iterator's rest is what is left.
LEMMA LinkedIs ==
  ASSUME NEW t, NEW al, NEW f, NEW a, NEW n, NEW u, NEW sub, NEW B,
         f \in {"idle", "find", "insert", "insert_fixup", "minimum", "delete_fixup",
                "free", "next"},
         TreeAt(t, al, f, a, n, u, sub, B)
  PROVE  /\ Shape(t, Nodes(al, f, a), sub)
         /\ Below(t, t.root) = Nodes(al, f, a)
<1>1. PICK N : N = Nodes(al, f, a)
  OBVIOUS
<1>2. Shape(t, N, sub)
  <2>1. CASE f \in {"idle", "next", "find", "insert", "minimum"}
    BY <1>1, <2>1 DEF TreeAt, Sane, Nodes
  <2>2. CASE f = "insert_fixup"
    BY <1>1, <2>2 DEF TreeAt, RedAt, Nodes
  <2>3. CASE f = "delete_fixup"
    BY <1>1, <2>3 DEF TreeAt, GapAt, Nodes
  <2>4. CASE f = "free"
    BY <1>1, <2>4 DEF TreeAt, Sane, Nodes
  <2> QED
    BY <2>1, <2>2, <2>3, <2>4
<1>3. t.root \in N \cup {nil} /\ sub[t.root] = N
  BY <1>2 DEF Shape
<1>4. Below(t, t.root) = sub[t.root]
  BY <1>2, <1>3, BelowIsSubtree
<1> QED
  BY <1>1, <1>2, <1>3, <1>4

\* rb_tree_delete() begins: a node with one child at most is taken out, or the search
\* for the successor begins.
LEMMA DeleteBeginKeeps ==
  ASSUME TypeInv, GoodNow, NEW z \in Key, DeleteOuter(z) \/ DeleteInner(z)
  PROVE  Good(tree', size', allocated', pc', arg', node', up', iter')
<1>a. PICK sub, B : /\ TreeAt(tree, allocated, pc, arg, node, up, sub, B)
                    /\ IterAt(tree, allocated, pc, iter, sub)
  BY DEF GoodNow, Good
<1>b. size = Cardinality(allocated) /\ IsFiniteSet(allocated)
  BY DEF GoodNow, Good
<1>c. /\ pc = "idle" /\ z \in allocated /\ arg' = z /\ iter' = NoIter
      /\ UNCHANGED <<size, allocated>>
  BY DEF DeleteOuter, DeleteInner, DeleteBegin
<1>d. Sane(tree, allocated, sub, B)
  BY <1>a, <1>c DEF TreeAt
<1>1. CASE DeleteOuter(z)
  <2>1. PICK d \in Dir : /\ tree.child[z][d] = nil
                         /\ tree' = rb_transplant(tree, z, tree.child[z][Opposite(d)])
                         /\ node' = tree.child[z][Opposite(d)]
    BY <1>1 DEF DeleteOuter
  <2>2. pc' = IF is_black(tree, z) THEN "delete_fixup" ELSE "free"
    BY <1>1 DEF DeleteOuter
  <2>3. PICK v : v = node'
    OBVIOUS
  <2>4. OuterWith(tree, z, v)
    BY <2>1, <2>3 DEF OuterWith
  <2>5. tree' = rb_transplant(tree, z, v)
    BY <2>1, <2>3
  <2>6. /\ is_black(tree, z) => GapAt(tree', allocated \ {z}, Without(sub, z), B, v)
        /\ ~is_black(tree, z) => Sane(tree', allocated \ {z}, Without(sub, z), B)
    BY <1>c, <1>d, <2>4, <2>5, OuterUnlinked
  <2>7. TreeAt(tree', allocated', pc', arg', node', up', Without(sub, z), B)
    BY <1>c, <2>2, <2>3, <2>6 DEF TreeAt
  <2>8. ~iter'.on /\ pc' # "next"
    BY <1>c, <2>2 DEF NoIter
  <2>9. IterAt(tree', allocated', pc', iter', Without(sub, z))
    BY <2>8, NoIterIsAt
  <2> QED
    BY <2>7, <2>9, <1>b, <1>c DEF Good
<1>2. CASE DeleteInner(z)
  <2>1. /\ \A d \in Dir : tree.child[z][d] # nil
        /\ pc' = "minimum" /\ node' = tree.child[z][RB_R] /\ tree' = tree
    BY <1>2 DEF DeleteInner
  <2>2. tree.child[z][RB_L] # nil /\ tree.child[z][RB_R] # nil
    BY <2>1 DEF Dir
  <2>3. Leftmost(tree, sub, z, node')
    BY <1>c, <1>d, <2>1, <2>2, MinimumBegins DEF Sane
  <2>4. TreeAt(tree', allocated', pc', arg', node', up', sub, B)
    BY <1>c, <1>d, <2>1, <2>2, <2>3 DEF TreeAt
  <2>5. IterAt(tree', allocated', pc', iter', sub)
    BY <1>c, <2>1, NoIterIsAt DEF NoIter
  <2> QED
    BY <2>4, <2>5, <1>b, <1>c DEF Good
<1> QED
  BY <1>1, <1>2

\* rb_tree_minimum() goes left, and then the successor is put in the node's place.
LEMMA UnlinkKeeps ==
  ASSUME TypeInv, GoodNow, rb_tree_minimum \/ DeleteSuccessor
  PROVE  Good(tree', size', allocated', pc', arg', node', up', iter')
<1>a. PICK sub, B : /\ TreeAt(tree, allocated, pc, arg, node, up, sub, B)
                    /\ IterAt(tree, allocated, pc, iter, sub)
  BY DEF GoodNow, Good
<1>b. size = Cardinality(allocated) /\ IsFiniteSet(allocated)
  BY DEF GoodNow, Good
<1>c. /\ pc = "minimum" /\ UNCHANGED <<size, allocated, arg, iter>>
  BY DEF rb_tree_minimum, DeleteSuccessor
<1>d. /\ Sane(tree, allocated, sub, B) /\ arg \in allocated /\ tree.child[arg][RB_L] # nil
      /\ Leftmost(tree, sub, arg, node) /\ ~iter.on
  BY <1>a, <1>c DEF TreeAt, IterAt
<1>e. Shape(tree, allocated, sub)
  BY <1>d DEF Sane
<1>1. CASE rb_tree_minimum
  <2>1. /\ tree.child[node][RB_L] # nil /\ node' = tree.child[node][RB_L]
        /\ UNCHANGED <<tree, pc>>
    BY <1>1 DEF rb_tree_minimum
  <2>2. Leftmost(tree, sub, arg, node')
    BY <1>d, <1>e, <2>1, MinimumDescends
  <2>3. TreeAt(tree', allocated', pc', arg', node', up', sub, B)
    BY <1>c, <1>d, <2>1, <2>2 DEF TreeAt
  <2>4. IterAt(tree', allocated', pc', iter', sub)
    BY <1>c, <1>d, <2>1, NoIterIsAt
  <2> QED
    BY <2>3, <2>4, <1>b, <1>c DEF Good
<1>2. CASE DeleteSuccessor
  <2>1. /\ tree.child[node][RB_L] = nil /\ node' = tree.child[node][RB_R]
        /\ tree' = Succeeded(tree, arg, node)
        /\ pc' = IF is_black(tree, node) THEN "delete_fixup" ELSE "free"
    BY <1>2 DEF DeleteSuccessor, Succeeded
  <2>2. node \in allocated
    <3>1. RB_R \in Dir
      BY DEF Dir
    <3>2. tree.child[arg][RB_R] \in Node
      BY <3>1, <1>d, <1>e, ChildLinks
    <3> QED
      BY <3>2, <1>d, <1>e DEF Leftmost, Shape
  <2>3. SuccessorOf(tree, allocated, sub, arg, node)
    BY <1>d, <2>1, <2>2 DEF SuccessorOf
  <2>4. PICK x, v : x = node' /\ v = rb_transplant(tree, node, x)
    OBVIOUS
  <2>5. Taken(tree, arg, node, x, v, tree')
    BY <2>1, <2>4 DEF Taken
  <2>6. PICK sub1, B1 :
           /\ is_black(tree, node) => GapAt(tree', allocated \ {arg}, sub1, B1, x)
           /\ ~is_black(tree, node) => Sane(tree', allocated \ {arg}, sub1, B1)
    BY <1>d, <2>3, <2>5, SuccessorUnlinked
  <2>7. TreeAt(tree', allocated', pc', arg', node', up', sub1, B1)
    BY <1>c, <1>d, <2>1, <2>4, <2>6 DEF TreeAt
  <2>8. IterAt(tree', allocated', pc', iter', sub1)
    <3>1. pc' # "next" /\ ~iter'.on
      BY <1>c, <1>d, <2>1
    <3> QED
      BY <3>1, NoIterIsAt
  <2> QED
    BY <2>7, <2>8, <1>b, <1>c DEF Good
<1> QED
  BY <1>1, <1>2

\* rb_delete_fixup() moves the gap up or closes it, unless a rotation takes nil's
\* parent away from it.
LEMMA FixupKeeps ==
  ASSUME TypeInv, GoodNow, DeleteRecolor \/ DeleteRotate \/ DeleteDone
  PROVE  nil_moved' \/ Good(tree', size', allocated', pc', arg', node', up', iter')
<1>a. PICK sub, B : /\ TreeAt(tree, allocated, pc, arg, node, up, sub, B)
                    /\ IterAt(tree, allocated, pc, iter, sub)
  BY DEF GoodNow, Good
<1>b. size = Cardinality(allocated) /\ IsFiniteSet(allocated)
  BY DEF GoodNow, Good
<1>c. /\ pc = "delete_fixup" /\ UNCHANGED <<size, allocated, arg, iter>>
  BY DEF DeleteRecolor, DeleteRotate, DeleteDone, DeleteFixing
<1>d. /\ arg \in allocated /\ GapAt(tree, allocated \ {arg}, sub, B, node) /\ ~iter.on
  BY <1>a, <1>c DEF TreeAt, IterAt
<1>e. PICK N : N = allocated \ {arg}
  OBVIOUS
<1>1. CASE DeleteDone
  <2>1. /\ node = tree.root \/ is_red(tree, node)
        /\ tree' = Paint(tree, node, "RB_BLACK") /\ pc' = "free"
    BY <1>1 DEF DeleteDone
  <2>2. PICK B1 : Sane(tree', N, sub, B1)
    BY <1>d, <1>e, <2>1, DoneRestores
  <2>3. TreeAt(tree', allocated', pc', arg', node', up', sub, B1)
    BY <1>c, <1>d, <1>e, <2>1, <2>2 DEF TreeAt
  <2>4. IterAt(tree', allocated', pc', iter', sub)
    BY <1>c, <1>d, <2>1, NoIterIsAt
  <2> QED
    BY <2>3, <2>4, <1>b, <1>c DEF Good
<1>2. CASE DeleteRecolor \/ DeleteRotate
  <2>1. node # tree.root /\ is_black(tree, node)
    BY <1>2 DEF DeleteRecolor, DeleteRotate, DeleteFixing
  <2>2. PICK p, d : p = tree.parent[node] /\ d = child_dir(tree, node)
    OBVIOUS
  <2>3. BlackGap(tree, N, sub, B, node, p, d)
    BY <1>d, <1>e, <2>1, <2>2, ToBlackGap
  <2>4. PICK t : t = lift_sibling(tree, node, d)
    OBVIOUS
  <2>5. PICK sub1, B1 : /\ BlackGap(t, N, sub1, B1, node, p, d)
                        /\ is_black(t, t.child[p][Opposite(d)])
    BY <2>3, <2>4, LiftKeeps
  <2>6. PICK w : w = t.child[p][Opposite(d)]
    OBVIOUS
  <2>7. t.parent[node] = p /\ Sibling(t, node, d) = w /\ SiblingIs(t, p, d, w) /\ d \in Dir
    BY <2>5, <2>6 DEF BlackGap, Sibling, SiblingIs
  <2>8. CASE DeleteRecolor
    <3>1. /\ \A e \in Dir : is_black(t, t.child[w][e])
          /\ tree' = Paint(t, w, "RB_RED") /\ node' = p /\ pc' = pc
      BY <2>2, <2>4, <2>7, <2>8 DEF DeleteRecolor
    <3>2. PICK B2 : GapAt(tree', N, sub1, B2, p)
      BY <2>5, <2>6, <2>7, <3>1, RecolorLifts
    <3>3. TreeAt(tree', allocated', pc', arg', node', up', sub1, B2)
      BY <1>c, <1>d, <1>e, <3>1, <3>2 DEF TreeAt
    <3>4. IterAt(tree', allocated', pc', iter', sub1)
      BY <1>c, <1>d, <3>1, NoIterIsAt
    <3> QED
      BY <3>3, <3>4, <1>b, <1>c DEF Good
  <2>9. CASE DeleteRotate
    <3>1. PICK t2 : t2 = redden_outer(t, w, d)
      OBVIOUS
    <3>2. /\ \E k \in Dir : is_red(t, t.child[w][k])
          /\ tree' = settle(t2, node, d) /\ node' = tree'.root /\ pc' = pc
          /\ nil_moved' = (nil_moved \/ t2.parent[node] # t.parent[node])
      BY <2>2, <2>4, <2>7, <2>9, <3>1 DEF DeleteRotate
    <3> SUFFICES ASSUME ~nil_moved'
                 PROVE  Good(tree', size', allocated', pc', arg', node', up', iter')
      OBVIOUS
    <3>3. Reddened(t2, t, w, d, node)
      BY <3>1, <3>2 DEF Reddened
    <3>4. PICK k \in Dir : is_red(t, t.child[w][k])
      BY <3>2
    <3>5. is_black(t, w)
      BY <2>5, <2>6
    <3>6. \E s, A : /\ BlackGap(t2, N, s, A, node, p, d)
                    /\ is_black(t2, t2.child[p][Opposite(d)])
                    /\ is_red(t2, t2.child[t2.child[p][Opposite(d)]][Opposite(d)])
      BY <2>5, <2>7, <3>3, <3>4, <3>5, ReddenKeeps
    <3>7. \E s, A : Sane(tree', N, s, A)
      BY <3>2, <3>6, SettleRestores
    <3>8. PICK sub2, B2 : Sane(tree', N, sub2, B2)
      BY <3>7
    <3>9. GapAt(tree', N, sub2, B2, node')
      BY <3>2, <3>8, SaneGap
    <3>10. TreeAt(tree', allocated', pc', arg', node', up', sub2, B2)
      BY <1>c, <1>d, <1>e, <3>2, <3>9 DEF TreeAt
    <3>11. IterAt(tree', allocated', pc', iter', sub2)
      BY <1>c, <1>d, <3>2, NoIterIsAt
    <3> QED
      BY <3>10, <3>11, <1>b, <1>c DEF Good
  <2> QED
    BY <1>2, <2>8, <2>9
<1> QED
  BY <1>1, <1>2

\* The node that was taken out is freed.
LEMMA FreeKeeps ==
  ASSUME TypeInv, GoodNow, DeleteFree
  PROVE  Good(tree', size', allocated', pc', arg', node', up', iter')
<1>a. PICK sub, B : /\ TreeAt(tree, allocated, pc, arg, node, up, sub, B)
                    /\ IterAt(tree, allocated, pc, iter, sub)
  BY DEF GoodNow, Good
<1>b. size = Cardinality(allocated) /\ IsFiniteSet(allocated)
  BY DEF GoodNow, Good
<1>1. /\ pc = "free"
      /\ tree' = [tree EXCEPT !.child[arg] = EmptyTree.child[arg],
                              !.parent[arg] = nil, !.color[arg] = "RB_BLACK"]
      /\ allocated' = allocated \ {arg} /\ size' = size - 1
      /\ pc' = "idle" /\ iter' = iter
  BY DEF DeleteFree, Return
<1>2. /\ arg \in allocated /\ Sane(tree, allocated \ {arg}, sub, B) /\ ~iter.on
  BY <1>a, <1>1 DEF TreeAt, IterAt
<1>3. tree \in Trees /\ allocated \in SUBSET Key
  BY TypedIs DEF Typed
<1>4. arg \in Key /\ arg \in Node /\ EmptyTree.child[arg] \in [Dir -> Node] /\ nil \in Node
  BY <1>2, <1>3, NilIs DEF EmptyTree
<1>5. Agree(tree', tree, arg)
  BY <1>1, <1>3, <1>4 DEF Agree, Trees, Color
<1>6. Sane(tree', allocated', sub, B)
  BY <1>1, <1>2, <1>4, <1>5, OtherNodeKeeps
<1>7. IterAt(tree', allocated', pc', iter', sub)
  BY <1>1, <1>2, NoIterIsAt
<1>8. size' = Cardinality(allocated') /\ IsFiniteSet(allocated')
  BY <1>1, <1>2, <1>b, FS_RemoveElement
<1> QED
  BY <1>1, <1>6, <1>7, <1>8, IdleIsGood

\* rb_tree_cleanup() frees every node.
LEMMA CleanupKeeps ==
  ASSUME TypeInv, GoodNow, rb_tree_cleanup
  PROVE  Good(tree', size', allocated', pc', arg', node', up', iter')
<1>a. PICK sub, B : /\ TreeAt(tree, allocated, pc, arg, node, up, sub, B)
                    /\ IterAt(tree, allocated, pc, iter, sub)
  BY DEF GoodNow, Good
<1>1. /\ pc = "idle" /\ tree' = EmptyTree /\ allocated' = allocated \ Linked /\ size' = 0
      /\ iter' = NoIter /\ pc' = pc
  BY DEF rb_tree_cleanup, callVars
<1>2. Below(tree, tree.root) = Nodes(allocated, pc, arg)
  BY <1>a, <1>1, LinkedIs
<1>3. allocated' = {}
  BY <1>1, <1>2 DEF Linked, Nodes
<1>4. PICK sub1, B1 : Sane(tree', allocated', sub1, B1)
  BY <1>1, <1>3, EmptyIsSane
<1>5. IterAt(tree', allocated', pc', iter', sub1)
  BY <1>1, NoIterIsAt DEF NoIter
<1>6. size' = Cardinality(allocated') /\ IsFiniteSet(allocated')
  BY <1>1, <1>3, FS_EmptySet
<1> QED
  BY <1>1, <1>4, <1>5, <1>6, IdleIsGood

\* The iterator's steps.
LEMMA IterKeeps ==
  ASSUME TypeInv, GoodNow, rb_iterator_init \/ BeginNext \/ NextPush \/ rb_iterator_next
  PROVE  Good(tree', size', allocated', pc', arg', node', up', iter')
<1>a. PICK sub, B : /\ TreeAt(tree, allocated, pc, arg, node, up, sub, B)
                    /\ IterAt(tree, allocated, pc, iter, sub)
  BY DEF GoodNow, Good
<1>b. size = Cardinality(allocated) /\ IsFiniteSet(allocated)
  BY DEF GoodNow, Good
<1>c. /\ pc \in {"idle", "next"} /\ pc' \in {"idle", "next"}
      /\ UNCHANGED <<tree, size, allocated>>
  BY DEF rb_iterator_init, BeginNext, NextPush, rb_iterator_next, callVars, Return
<1>d. Sane(tree, allocated, sub, B)
  BY <1>a, <1>c DEF TreeAt
<1>e. Shape(tree, allocated, sub)
  BY <1>d DEF Sane
<1>f. iter \in [on : BOOLEAN, curr : Node, stack : Seq(Key)]
  BY TypedIs DEF Typed
<1>g. IterAt(tree', allocated', pc', iter', sub)
  <2>1. CASE rb_iterator_init
    <3>1. iter' = [on |-> TRUE, curr |-> tree.root, stack |-> <<>>] /\ pc' = "idle"
      BY <2>1 DEF rb_iterator_init, callVars
    <3>2. Walk(tree, allocated, sub, tree.root, <<>>)
      BY <1>e, WalkBegins
    <3> QED
      BY <1>c, <3>1, <3>2 DEF IterAt
  <2>2. CASE BeginNext
    <3>1. iter.on /\ iter' = iter /\ pc = "idle"
      BY <2>2 DEF BeginNext
    <3> QED
      BY <1>a, <1>c, <3>1 DEF IterAt
  <2>3. CASE NextPush
    <3>1. /\ pc = "next" /\ pc' = pc /\ iter.curr # nil
          /\ iter' = [iter EXCEPT !.stack = Append(@, iter.curr),
                                  !.curr = tree.child[iter.curr][RB_L]]
      BY <2>3 DEF NextPush, callVars
    <3>2. iter.on /\ Walk(tree, allocated, sub, iter.curr, iter.stack)
      BY <1>a, <3>1 DEF IterAt
    <3>3. Walk(tree, allocated, sub, tree.child[iter.curr][RB_L],
               Append(iter.stack, iter.curr))
      BY <1>e, <3>1, <3>2, WalkPushes
    <3>4. /\ iter'.on = iter.on /\ iter'.curr = tree.child[iter.curr][RB_L]
          /\ iter'.stack = Append(iter.stack, iter.curr)
      BY <3>1, <1>f
    <3> QED
      BY <1>c, <3>1, <3>2, <3>3, <3>4 DEF IterAt
  <2>4. CASE rb_iterator_next
    <3>1. pc = "next" /\ pc' = "idle" /\ iter.curr = nil
      BY <2>4 DEF rb_iterator_next, Return
    <3>2. iter.on /\ Walk(tree, allocated, sub, nil, iter.stack)
      BY <1>a, <3>1 DEF IterAt
    <3>3. CASE Len(iter.stack) = 0
      <4>1. iter' = iter
        BY <2>4, <3>3 DEF rb_iterator_next
      <4> QED
        BY <1>a, <1>c, <3>1, <4>1 DEF IterAt
    <3>4. CASE Len(iter.stack) # 0
      <4>1. PICK top, s : s = iter.stack /\ top = Len(s)
        OBVIOUS
      <4>2. iter' = [iter EXCEPT !.stack = SubSeq(s, 1, top - 1),
                                 !.curr = tree.child[s[top]][RB_R]]
        BY <2>4, <3>4, <4>1 DEF rb_iterator_next, after_pop
      <4>3. /\ iter'.on = iter.on /\ iter'.curr = tree.child[s[top]][RB_R]
            /\ iter'.stack = SubSeq(s, 1, top - 1)
        BY <4>2, <1>f
      <4>4. Walk(tree, allocated, sub, nil, s) /\ Len(s) # 0
        BY <3>2, <3>4, <4>1
      <4>5. Walk(tree, allocated, sub, tree.child[s[Len(s)]][RB_R], SubSeq(s, 1, Len(s) - 1))
        BY <1>e, <4>4, WalkPops
      <4> QED
        BY <1>c, <3>1, <3>2, <4>1, <4>3, <4>5 DEF IterAt
    <3> QED
      BY <3>3, <3>4
  <2> QED
    BY <2>1, <2>2, <2>3, <2>4
<1>h. Sane(tree', allocated', sub, B) /\ size' = Cardinality(allocated') /\ IsFiniteSet(allocated')
  BY <1>b, <1>c, <1>d
<1> QED
  BY <1>c, <1>g, <1>h, IdleIsGood

\* The inductive invariant.
TreeInv == TypeInv /\ (nil_moved \/ GoodNow)

\* Every step keeps the invariant, or loses nil's parent.
LEMMA GoodStep ==
  TypeInv /\ GoodNow /\ [RedBlackNext]_redBlackVars =>
    nil_moved' \/ Good(tree', size', allocated', pc', arg', node', up', iter')
<1> SUFFICES ASSUME TypeInv, GoodNow, [RedBlackNext]_redBlackVars
             PROVE  nil_moved' \/ Good(tree', size', allocated', pc', arg', node', up', iter')
  OBVIOUS
<1>1. CASE UNCHANGED redBlackVars
  BY <1>1 DEF redBlackVars, callVars, GoodNow
<1>2. CASE RedBlackStep
  BY <1>2, InsertKeeps, UnlinkKeeps, FixupKeeps, FreeKeeps, IterKeeps DEF RedBlackStep
<1>3. CASE RedBlackCall
  BY <1>3, InsertKeeps, DeleteBeginKeeps, CleanupKeeps, IterKeeps DEF RedBlackCall
<1> QED
  BY <1>1, <1>2, <1>3 DEF RedBlackNext

\* nil_moved is never reset.
LEMMA NilStaysMoved == nil_moved /\ [RedBlackNext]_redBlackVars => nil_moved'
<1> SUFFICES ASSUME nil_moved, [RedBlackNext]_redBlackVars PROVE nil_moved'
  OBVIOUS
<1>1. ASSUME nil_moved' = nil_moved PROVE nil_moved'
  BY <1>1
<1>2. CASE DeleteRotate
  <2>1. \E a, b : nil_moved' = (nil_moved \/ a # b)
    BY <1>2 DEF DeleteRotate
  <2> QED
    BY <2>1
<1>3. CASE UNCHANGED redBlackVars
  BY <1>3 DEF redBlackVars
<1>4. CASE RedBlackStep /\ ~DeleteRotate
  BY <1>1, <1>4
  DEF RedBlackStep, Descend, rb_tree_find, InsertFound, InsertNew, InsertRecolor,
      InsertRotate, InsertDone, rb_tree_minimum, DeleteSuccessor, DeleteRecolor,
      DeleteDone, DeleteFree, NextPush, rb_iterator_next
<1>5. CASE RedBlackCall
  BY <1>1, <1>5
  DEF RedBlackCall, BeginFind, BeginInsert, Begin, DeleteOuter, DeleteInner, DeleteBegin,
      rb_tree_cleanup, rb_iterator_init, BeginNext
<1> QED
  BY <1>2, <1>3, <1>4, <1>5 DEF RedBlackNext

\* The invariant of the next state.
LEMMA GoodNowPrime ==
  GoodNow' <=> Good(tree', size', allocated', pc', arg', node', up', iter')
  BY Zenon DEF GoodNow

\* In every state, also in the middle of a function of red_black.c, the nodes that
\* were not freed are a search tree with the colors and the one flaw, if any, that the
\* function that runs expects, and the iterator's stack is a walk of it; unless
\* rb_delete_fixup() lost nil's parent at some time.
THEOREM TreeInvHolds == RedBlackSpec => []TreeInv
<1>1. RedBlackInit => TreeInv
  BY TypesStart, GoodStart DEF TreeInv
<1>2. TreeInv /\ [RedBlackNext]_redBlackVars => TreeInv'
  BY TypesStep, GoodStep, NilStaysMoved, GoodNowPrime DEF TreeInv
<1> QED
  BY <1>1, <1>2, PTL DEF RedBlackSpec

-----------------------------------------------------------------------------
(* Nodes, sizes and the red-black properties. *)

\* Between calls the nodes that can be reached are those that rb_tree_insert()
\* allocated and rb_tree_delete() did not free, and size is their number, unless
\* nil's parent was lost.
THEOREM AccountIsKept == RedBlackSpec => []NodesAccounted
<1>1. ASSUME TreeInv, pc = "idle", ~nil_moved
      PROVE  allocated = Linked /\ size = Cardinality(allocated)
  <2>1. PICK sub, B : TreeAt(tree, allocated, pc, arg, node, up, sub, B)
    BY <1>1 DEF TreeInv, GoodNow, Good
  <2>2. Below(tree, tree.root) = Nodes(allocated, pc, arg)
    BY <1>1, <2>1, LinkedIs
  <2>3. size = Cardinality(allocated)
    BY <1>1 DEF TreeInv, GoodNow, Good
  <2> QED
    BY <1>1, <2>2, <2>3 DEF Linked, Nodes
<1>2. TreeInv => NodesAccounted
  BY <1>1 DEF NodesAccounted
<1> QED
  BY <1>2, TreeInvHolds, PTL

\* The black nodes from the root down to n.
Above(t, N, sub, n) == {m \in N : is_black(t, m) /\ n \in sub[m]}

\* Above the root there is only the root.
LEMMA AboveRoot ==
  ASSUME NEW t, NEW N, NEW sub, NEW B, Sane(t, N, sub, B), t.root # nil
  PROVE  Above(t, N, sub, t.root) = {t.root}
<1>1. /\ Shape(t, N, sub) /\ is_black(t, t.root)
  BY DEF Sane
<1>2. t.root \in N /\ sub[t.root] = N
  BY <1>1 DEF Shape
<1>3. t.root \in sub[t.root]
  BY <1>2
<1>4. ASSUME NEW m \in N, m # t.root PROVE t.root \notin sub[m]
  BY <1>1, <1>2, <1>4, NoCycle
<1> QED
  BY <1>1, <1>2, <1>3, <1>4 DEF Above

\* The node n has those of its parent, and itself when it is black.
LEMMA AboveMore ==
  ASSUME NEW t, NEW N, NEW sub, NEW B, Sane(t, N, sub, B), NEW n \in N, n # t.root,
         NEW p, p = t.parent[n]
  PROVE  /\ p \in N /\ n \in sub[p] /\ p \notin sub[n] /\ sub[n] \subseteq sub[p]
         /\ n \notin Above(t, N, sub, p)
         /\ Above(t, N, sub, n)
              = IF is_black(t, n) THEN Above(t, N, sub, p) \cup {n} ELSE Above(t, N, sub, p)
         /\ B[p] = B[n] + Weight(t, p)
<1>1. Shape(t, N, sub) /\ Balanced(t, N, B, {})
  BY DEF Sane
<1>2. PICK d : d = child_dir(t, n)
  OBVIOUS
<1>3. p \in N /\ d \in Dir /\ t.child[p][d] = n
  BY <1>1, <1>2, ChildDirIs
<1>4. n # nil /\ n \in Node /\ p \in Node
  <2>1. N \subseteq Key
    BY <1>1 DEF Shape
  <2> QED
    BY <2>1, <1>3, NilIs
<1>5. n \in sub[p] /\ p \notin sub[n] /\ sub[n] \subseteq sub[p] /\ n \in sub[n]
  BY <1>1, <1>3, <1>4, ChildBelow, Apart
<1>6. ASSUME NEW m \in N PROVE n \in sub[m] <=> (n = m \/ p \in sub[m])
  <2>1. ASSUME n \in sub[m], n # m PROVE p \in sub[m]
    BY <1>1, <2>1, Nested
  <2>2. ASSUME p \in sub[m] PROVE n \in sub[m]
    <3>1. sub[p] \subseteq sub[m]
      BY <1>1, <2>2, Nested
    <3> QED
      BY <3>1, <1>5
  <2> QED
    BY <2>1, <2>2, <1>5
<1>7. n \notin Above(t, N, sub, p)
  BY <1>5 DEF Above
<1>8. B[p] = B[n] + Weight(t, p)
  <2>1. B[p] = B[n] + 0 + Weight(t, p)
    BY <1>1, <1>3 DEF Balanced, Missing
  <2>2. B[n] \in Nat /\ Weight(t, p) \in Nat
    BY <1>1, <1>4 DEF Balanced, Weight
  <2> QED
    BY <2>1, <2>2
<1>9. CASE is_black(t, n)
  BY <1>3, <1>5, <1>6, <1>7, <1>8, <1>9 DEF Above
<1>10. CASE ~is_black(t, n)
  BY <1>3, <1>5, <1>6, <1>7, <1>8, <1>10 DEF Above
<1> QED
  BY <1>9, <1>10

\* There are as many black nodes above each node as B says.
Counts(t, N, sub, B, n) ==
  Cardinality(Above(t, N, sub, n)) + B[n] = B[t.root] + Weight(t, n)

\* The count is right at the root,
LEMMA RootCounts ==
  ASSUME NEW t, NEW N, NEW sub, NEW B, Sane(t, N, sub, B), t.root # nil
  PROVE  Counts(t, N, sub, B, t.root)
<1>1. Cardinality(Above(t, N, sub, t.root)) = 1
  <2>1. PICK x : x = t.root
    OBVIOUS
  <2>2. Above(t, N, sub, t.root) = {x}
    BY <2>1, AboveRoot
  <2>3. Cardinality({x}) = 1
    BY FS_Singleton
  <2> QED
    BY <2>2, <2>3
<1>2. Weight(t, t.root) = 1
  BY DEF Sane, Weight
<1>3. B[t.root] \in Nat
  BY NilIs DEF Sane, Shape, Balanced
<1> QED
  BY <1>1, <1>2, <1>3 DEF Counts

\* and at a node when it is at its parent,
LEMMA ChildCounts ==
  ASSUME NEW t, NEW N, NEW sub, NEW B, Sane(t, N, sub, B), NEW n \in N, n # t.root,
         NEW p, p = t.parent[n], Counts(t, N, sub, B, p)
  PROVE  Counts(t, N, sub, B, n)
<1>1. /\ p \in N /\ n \notin Above(t, N, sub, p)
      /\ Above(t, N, sub, n)
              = IF is_black(t, n) THEN Above(t, N, sub, p) \cup {n} ELSE Above(t, N, sub, p)
      /\ B[p] = B[n] + Weight(t, p)
  BY AboveMore
<1>2. PICK A : A = Above(t, N, sub, p)
  OBVIOUS
<1>3. /\ IsFiniteSet(N) /\ N \subseteq Node /\ t.root \in Node /\ t \in Trees
      /\ B \in [Node -> Nat]
  BY NilIs DEF Sane, Shape, Balanced
<1>4. IsFiniteSet(A)
  <2>1. A \subseteq N
    BY <1>2 DEF Above
  <2> QED
    BY <2>1, <1>3, FS_Subset
<1>5. PICK c : c = Cardinality(A)
  OBVIOUS
<1>6. c \in Nat
  BY <1>4, <1>5, FS_CardinalityType
<1>7. Cardinality(Above(t, N, sub, n)) = c + Weight(t, n)
  <2>1. CASE is_black(t, n)
    <3>1. Cardinality(A \cup {n}) = c + 1
      BY <1>1, <1>2, <1>4, <1>5, FS_AddElement
    <3> QED
      BY <2>1, <3>1, <1>1, <1>2 DEF Weight
  <2>2. CASE ~is_black(t, n)
    BY <2>2, <1>1, <1>2, <1>5, <1>6 DEF Weight
  <2> QED
    BY <2>1, <2>2
<1>8. /\ B[n] \in Nat /\ B[p] \in Nat /\ B[t.root] \in Nat
      /\ Weight(t, n) \in Nat /\ Weight(t, p) \in Nat
  BY <1>1, <1>3 DEF Weight
<1>9. c + B[p] = B[t.root] + Weight(t, p)
  BY <1>2, <1>5 DEF Counts
<1>10. c + B[n] = B[t.root]
  BY <1>1, <1>6, <1>8, <1>9
<1>11. c + Weight(t, n) + B[n] = B[t.root] + Weight(t, n)
  BY <1>6, <1>8, <1>10
<1> QED
  BY <1>7, <1>11 DEF Counts

\* so at every node.
LEMMA AllCount ==
  ASSUME NEW t, NEW N, NEW sub, NEW B, Sane(t, N, sub, B), NEW n \in N
  PROVE  Counts(t, N, sub, B, n)
<1> DEFINE Bad == {k \in N : ~Counts(t, N, sub, B, k)}
           Rank(k) == Cardinality(N) - Cardinality(sub[k])
           Ranks == {Rank(k) : k \in Bad}
<1>1. /\ IsFiniteSet(N) /\ N \subseteq Node /\ sub \in [Node -> SUBSET N] /\ nil \notin N
      /\ t.root \in N \cup {nil} /\ sub[t.root] = N /\ sub[nil] = {}
  BY NilIs DEF Sane, Shape
<1>2. ASSUME NEW k \in N
      PROVE  /\ IsFiniteSet(sub[k]) /\ Cardinality(sub[k]) \in Nat
             /\ Cardinality(N) \in Nat /\ Rank(k) \in Nat
  <2>1. sub[k] \subseteq N
    BY <1>1
  <2>2. IsFiniteSet(sub[k]) /\ Cardinality(sub[k]) <= Cardinality(N)
    BY <2>1, <1>1, FS_Subset
  <2>3. Cardinality(sub[k]) \in Nat /\ Cardinality(N) \in Nat
    BY <2>2, <1>1, FS_CardinalityType
  <2> QED
    BY <2>2, <2>3
<1> SUFFICES ASSUME Bad # {} PROVE FALSE
  OBVIOUS
<1>3. Ranks \in SUBSET Nat /\ Ranks # {}
  BY <1>2
<1>4. PICK least \in Ranks : \A r \in Ranks : least <= r
  <2> HIDE DEF Ranks
  <2> QED
    BY <1>3, LeastNatural
<1>5. PICK k \in Bad : least = Rank(k)
  BY <1>4
<1>6. k # t.root
  <2>1. SUFFICES ASSUME k = t.root PROVE FALSE
    OBVIOUS
  <2> QED
    BY <2>1, <1>1, <1>5, RootCounts
<1>7. PICK p : p = t.parent[k]
  OBVIOUS
<1>8. p \in N /\ k \in sub[p] /\ p \notin sub[k] /\ sub[k] \subseteq sub[p]
  BY <1>5, <1>6, <1>7, AboveMore
<1>9. p \in sub[p]
  BY <1>8, Apart, OppositeIs DEF Sane, Shape, Dir
<1>10. Cardinality(sub[k]) < Cardinality(sub[p])
  BY <1>2, <1>5, <1>8, <1>9, FS_Subset
<1>11. Rank(p) < Rank(k)
  BY <1>2, <1>5, <1>8, <1>10
<1>12. p \notin Bad
  <2>1. SUFFICES ASSUME p \in Bad PROVE FALSE
    OBVIOUS
  <2>2. Rank(p) \in Ranks
    BY <2>1
  <2>3. Rank(k) <= Rank(p)
    BY <2>2, <1>4, <1>5
  <2>4. Rank(k) \in Nat /\ Rank(p) \in Nat
    BY <1>2, <1>5, <1>8
  <2> HIDE DEF Rank
  <2> QED
    BY <2>3, <2>4, <1>11
<1>13. Counts(t, N, sub, B, p)
  BY <1>8, <1>12
<1> QED
  BY <1>5, <1>6, <1>7, <1>13, ChildCounts

\* The node n lacks a child.
Ends(t, N) == {l \in N : \E d \in Dir : t.child[l][d] = nil}

\* As many black nodes are above every node that lacks a child.
LEMMA EndsAgree ==
  ASSUME NEW t, NEW N, NEW sub, NEW B, Sane(t, N, sub, B)
  PROVE  {Cardinality(Above(t, N, sub, n)) : n \in Ends(t, N)} \subseteq {B[t.root]}
<1> SUFFICES ASSUME NEW n \in Ends(t, N)
             PROVE  Cardinality(Above(t, N, sub, n)) = B[t.root]
  OBVIOUS
<1>1. n \in N
  BY DEF Ends
<1>2. PICK d \in Dir : t.child[n][d] = nil
  BY DEF Ends
<1>3. /\ IsFiniteSet(N) /\ N \subseteq Node /\ t.root \in Node /\ B \in [Node -> Nat]
      /\ B[nil] = 0
  BY NilIs DEF Sane, Shape, Balanced
<1>4. B[n] = 0 + 0 + Weight(t, n)
  BY <1>1, <1>2, <1>3 DEF Sane, Balanced, Missing
<1>5. PICK c : c = Cardinality(Above(t, N, sub, n))
  OBVIOUS
<1>6. c \in Nat
  <2>1. Above(t, N, sub, n) \subseteq N
    BY DEF Above
  <2> QED
    BY <2>1, <1>3, <1>5, FS_Subset, FS_CardinalityType
<1>7. c + B[n] = B[t.root] + Weight(t, n)
  BY <1>1, <1>5, AllCount DEF Counts
<1>8. B[n] \in Nat /\ B[t.root] \in Nat /\ Weight(t, n) \in Nat
  BY <1>1, <1>3 DEF Weight
<1>9. B[n] = Weight(t, n)
  BY <1>4, <1>8
<1>10. c = B[t.root]
  BY <1>6, <1>7, <1>8, <1>9
<1> QED
  BY <1>5, <1>10

\* A red-black tree has the properties that rb_tree_check() quotes.
LEMMA SaneRules ==
  ASSUME NEW sub, NEW B, Sane(tree, Linked, sub, B)
  PROVE  Rules
<1>1. /\ Shape(tree, Linked, sub) /\ Balanced(tree, Linked, B, {})
      /\ RedsApart(tree, Linked, {}, {}) /\ is_black(tree, tree.root)
  BY DEF Sane
<1>2. /\ is_black(tree, nil) /\ tree \in Trees /\ nil \notin Linked /\ IsFiniteSet(Linked)
      /\ (tree.root # nil => tree.parent[tree.root] = nil)
  BY <1>1, NilIs DEF Shape, RedsApart
<1>3. ASSUME NEW n \in Linked, NEW d \in Dir, NEW c, c = tree.child[n][d], c # nil
      PROVE  tree.parent[c] = n /\ (is_red(tree, n) => is_black(tree, c))
  <2>1. tree.parent[c] = n /\ c \in Node
    BY <1>1, <1>3, ChildLinks
  <2>2. ~(is_red(tree, n) /\ is_red(tree, c))
    BY <1>1, <1>3 DEF RedsApart
  <2> QED
    BY <2>1, <2>2, <1>2, ColorIs
<1>4. \A m \in Linked : Below(tree, m) = sub[m]
  BY <1>1, BelowIsSubtree
<1>5. \A n \in Linked : BlackAbove(n) = Above(tree, Linked, sub, n)
  BY <1>4 DEF BlackAbove, Above
<1>6. PICK E : E = Ends(tree, Linked)
  OBVIOUS
<1>7. E = {l \in Linked : \E d \in Dir : tree.child[l][d] = nil} /\ E \subseteq Linked
  BY <1>6 DEF Ends
<1>8. {Cardinality(BlackAbove(n)) : n \in E} \subseteq {B[tree.root]}
  <2>1. {Cardinality(Above(tree, Linked, sub, n)) : n \in E} \subseteq {B[tree.root]}
    BY <1>6, EndsAgree
  <2> QED
    BY <2>1, <1>5, <1>7
<1>9. PICK C : C = {Cardinality(BlackAbove(n)) : n \in E}
  OBVIOUS
<1>10. Cardinality(C) <= 1
  <2>1. IsFiniteSet({B[tree.root]}) /\ Cardinality({B[tree.root]}) = 1
    BY FS_Singleton
  <2>2. C \subseteq {B[tree.root]}
    BY <1>8, <1>9
  <2> QED
    BY <2>1, <2>2, FS_Subset
<1> QED
  BY <1>1, <1>2, <1>3, <1>7, <1>9, <1>10 DEF Rules

\* Between calls the red-black properties that rb_tree_check() quotes hold, after any
\* insertions and deletions that did not lose nil's parent.
THEOREM RulesAreKept == RedBlackSpec => []RulesHold
<1>1. ASSUME TreeInv, pc = "idle", ~nil_moved PROVE Rules
  <2>1. PICK sub, B : TreeAt(tree, allocated, pc, arg, node, up, sub, B)
    BY <1>1 DEF TreeInv, GoodNow, Good
  <2>2. Below(tree, tree.root) = Nodes(allocated, pc, arg)
    BY <1>1, <2>1, LinkedIs
  <2>3. Sane(tree, Linked, sub, B)
    BY <1>1, <2>1, <2>2 DEF Linked, Nodes, TreeAt
  <2> QED
    BY <2>3, SaneRules
<1>2. TreeInv => RulesHold
  BY <1>1 DEF RulesHold
<1> QED
  BY <1>2, TreeInvHolds, PTL

-----------------------------------------------------------------------------
(* The tree is a set. *)

\* The iterator's rest of given values.
RestOf(t, i) ==
  IF i.on
  THEN Below(t, i.curr) \cup
       UNION {{i.stack[j]} \cup Below(t, t.child[i.stack[j]][RB_R]) : j \in 1..Len(i.stack)}
  ELSE {}

\* The iterator's rest is what Walk leaves.
LEMMA RestOfIs ==
  ASSUME NEW t, NEW N, NEW sub, Shape(t, N, sub), NEW i, i.on,
         Walk(t, N, sub, i.curr, i.stack)
  PROVE  RestOf(t, i) = Left(t, sub, i.curr, i.stack)
<1>1. PICK c, s : c = i.curr /\ s = i.stack
  OBVIOUS
<1>2. c \in N \cup {nil} /\ s \in Seq(N)
  BY <1>1 DEF Walk
<1>3. Below(t, c) = sub[c]
  BY <1>2, BelowIsSubtree
<1>4. ASSUME NEW j \in 1..Len(s)
      PROVE  Below(t, t.child[s[j]][RB_R]) = sub[t.child[s[j]][RB_R]]
  <2>1. s[j] \in N
    BY <1>2
  <2>2. t.child[s[j]][RB_R] \in N \cup {nil}
    BY <2>1, RightIs
  <2> QED
    BY <2>2, BelowIsSubtree
<1>5. {{s[j]} \cup Below(t, t.child[s[j]][RB_R]) : j \in 1..Len(s)}
        = {{s[j]} \cup sub[t.child[s[j]][RB_R]] : j \in 1..Len(s)}
  BY <1>4
<1>6. PICK U : U = {{s[j]} \cup sub[t.child[s[j]][RB_R]] : j \in 1..Len(s)}
  OBVIOUS
<1>7. RestOf(t, i) = Below(t, c) \cup UNION U
  BY <1>1, <1>5, <1>6, Zenon DEF RestOf
<1>8. Left(t, sub, c, s) = sub[c] \cup UNION U
  BY <1>6 DEF Left
<1>9. RestOf(t, i) = Left(t, sub, c, s)
  BY <1>3, <1>7, <1>8
<1> QED
  BY <1>1, <1>9

\* All that is left is in the tree.
LEMMA LeftInside ==
  ASSUME NEW t, NEW N, NEW sub, Shape(t, N, sub), NEW c, NEW s, Walk(t, N, sub, c, s)
  PROVE  Left(t, sub, c, s) \subseteq N
<1>1. c \in N \cup {nil} /\ s \in Seq(N)
  BY DEF Walk
<1>2. sub[c] \subseteq N
  BY <1>1, NilIs DEF Shape
<1>3. ASSUME NEW j \in 1..Len(s) PROVE {s[j]} \cup sub[t.child[s[j]][RB_R]] \subseteq N
  <2>1. s[j] \in N
    BY <1>1
  <2> QED
    BY <2>1, RightIs
<1> QED
  BY <1>2, <1>3 DEF Left

\* What the abstract state is.
View ==
  /\ Linked = Nodes(allocated, pc, arg)
  /\ ~iter.on => Rest = {}
  /\ iter.on => pc \in {"idle", "find", "next"}

\* The invariant tells what the abstract state is.
LEMMA ViewIs == TypeInv /\ GoodNow => View
<1> SUFFICES ASSUME TypeInv, GoodNow PROVE View
  OBVIOUS
<1>1. PICK sub, B : /\ TreeAt(tree, allocated, pc, arg, node, up, sub, B)
                    /\ IterAt(tree, allocated, pc, iter, sub)
  BY DEF GoodNow, Good
<1>2. pc \in {"idle", "find", "insert", "insert_fixup", "minimum", "delete_fixup", "free", "next"}
  BY TypedIs DEF Typed
<1>3. Linked = Nodes(allocated, pc, arg)
  BY <1>1, <1>2, LinkedIs DEF Linked
<1> QED
  BY <1>1, <1>3 DEF View, IterAt, Rest

\* The same of the next state.
LEMMA ViewIsPrime == TypeInv' /\ GoodNow' => View'
  BY ViewIs, PTL

\* A step that leaves the set alone, or one that the abstract set takes.
Seen ==
  \/ UNCHANGED <<Linked, Rest, result>>
  \/ nil_moved'
  \/ Abstract!KeySetNext

\* A search that ends, with the datum or without, is a step of the set.
LEMMA SearchSeen ==
  ASSUME TypeInv, GoodNow, View, View', rb_tree_find \/ InsertFound
  PROVE  Seen
<1>1. PICK sub, B : TreeAt(tree, allocated, pc, arg, node, up, sub, B)
  BY DEF GoodNow, Good
<1>2. /\ pc \in {"find", "insert"} /\ node \in {nil, arg} /\ pc' = "idle"
      /\ UNCHANGED <<tree, allocated, iter>>
  BY DEF rb_tree_find, InsertFound, Return
<1>3. arg \in Key
  BY <1>2, TypedIs DEF Typed
<1>4. Searching(tree, allocated, sub, arg, node, up) /\ Sane(tree, allocated, sub, B)
  BY <1>1, <1>2 DEF TreeAt
<1>5. Linked = allocated /\ Linked' = allocated
  BY <1>2 DEF View, Nodes
<1>6. node = IF arg \in Linked THEN arg ELSE nil
  <2>1. node \in allocated \cup {nil} /\ (arg \in allocated => arg \in sub[node])
    BY <1>4 DEF Searching
  <2>2. sub[nil] = {} /\ arg # nil
    BY <1>3, <1>4, NilIs DEF Sane, Shape
  <2> QED
    BY <2>1, <2>2, <1>2, <1>5
<1>7. CASE rb_tree_find
  <2>1. result' = [node |-> found(node), inserted |-> FALSE] /\ Rest' = Rest
    BY <1>2, <1>7 DEF rb_tree_find, Rest
  <2>2. result' = [node |-> IF arg \in Linked THEN arg ELSE NULL, inserted |-> FALSE]
    BY <2>1, <1>3, <1>6, NilIs DEF found
  <2>3. Abstract!Find(arg)
    BY <2>1, <2>2, <1>5 DEF Abstract!Find, Abstract!Returns
  <2> QED
    BY <2>3, <1>3 DEF Seen, Abstract!KeySetNext, Abstract!AnyCall
<1>8. CASE InsertFound
  <2>1. /\ result' = [node |-> node, inserted |-> FALSE] /\ node = arg /\ pc = "insert"
    BY <1>8 DEF InsertFound
  <2>2. arg \in Linked
    BY <2>1, <1>3, <1>6, NilIs
  <2>3. Rest' = {}
    BY <2>1, <1>2 DEF View
  <2>4. result' = [node |-> arg, inserted |-> arg \notin Linked]
    BY <2>1, <2>2
  <2>5. Linked' = Linked \cup {arg}
    BY <2>2, <1>5
  <2>6. Abstract!Insert(arg)
    BY <2>3, <2>4, <2>5 DEF Abstract!Insert, Abstract!Returns
  <2> QED
    BY <2>6, <1>3 DEF Seen, Abstract!KeySetNext, Abstract!AnyCall
<1> QED
  BY <1>7, <1>8

\* So is linking a new node; the fix-up is none.
LEMMA InsertSeen ==
  ASSUME TypeInv, GoodNow, View, View',
         InsertNew \/ InsertRecolor \/ InsertRotate \/ InsertDone
  PROVE  Seen
<1>1. CASE InsertNew
  <2>1. PICK sub, B : TreeAt(tree, allocated, pc, arg, node, up, sub, B)
    BY DEF GoodNow, Good
  <2>2. /\ pc = "insert" /\ node = nil /\ allocated' = allocated \cup {arg}
        /\ pc' = "insert_fixup" /\ iter' = iter
        /\ result' = [node |-> arg, inserted |-> TRUE]
    BY <1>1 DEF InsertNew
  <2>3. arg \in Key
    BY <2>2, TypedIs DEF Typed
  <2>4. arg \notin allocated
    <3>1. Searching(tree, allocated, sub, arg, nil, up) /\ Sane(tree, allocated, sub, B)
      BY <2>1, <2>2 DEF TreeAt
    <3> QED
      BY <3>1, <2>3, LeafKeeps
  <2>5. Linked = allocated /\ Linked' = allocated \cup {arg} /\ Rest' = {}
    BY <2>2 DEF View, Nodes
  <2>6. result' = [node |-> arg, inserted |-> arg \notin Linked]
    BY <2>2, <2>4, <2>5
  <2>7. Abstract!Insert(arg)
    BY <2>5, <2>6 DEF Abstract!Insert, Abstract!Returns
  <2> QED
    BY <2>3, <2>7 DEF Seen, Abstract!KeySetNext, Abstract!AnyCall
<1>2. CASE InsertRecolor \/ InsertRotate \/ InsertDone
  <2>1. /\ pc = "insert_fixup" /\ pc' \in {"insert_fixup", "idle"}
        /\ UNCHANGED <<allocated, iter, result>>
    BY <1>2 DEF InsertRecolor, InsertRotate, InsertDone, InsertFixing, Return
  <2>2. Linked = allocated /\ Linked' = allocated /\ Rest = {} /\ Rest' = {}
    BY <2>1 DEF View, Nodes
  <2> QED
    BY <2>1, <2>2 DEF Seen
<1> QED
  BY <1>1, <1>2

\* A node is deleted from the set when it is unlinked; its fix-up and free() are none.
LEMMA DeleteSeen ==
  ASSUME TypeInv, GoodNow, View, View',
         \/ \E z \in Key : DeleteOuter(z) \/ DeleteInner(z)
         \/ rb_tree_minimum \/ DeleteSuccessor
         \/ DeleteRecolor \/ DeleteRotate \/ DeleteDone \/ DeleteFree
  PROVE  Seen
<1>1. ASSUME NEW z \in Key, DeleteOuter(z) PROVE Seen
  <2>1. /\ pc = "idle" /\ z \in allocated /\ pc' \in {"delete_fixup", "free"} /\ arg' = z
        /\ iter' = NoIter /\ UNCHANGED <<allocated, result>>
    BY <1>1 DEF DeleteOuter, DeleteBegin
  <2>2. Linked = allocated /\ Linked' = allocated \ {z} /\ Rest' = {}
    BY <2>1 DEF View, Nodes, NoIter
  <2>3. Abstract!Delete(z)
    BY <2>1, <2>2 DEF Abstract!Delete
  <2> QED
    BY <2>3 DEF Seen, Abstract!KeySetNext, Abstract!AnyCall
<1>2. ASSUME NEW z \in Key, DeleteInner(z) PROVE Seen
  <2>1. /\ pc = "idle" /\ pc' = "minimum"
        /\ iter' = NoIter /\ UNCHANGED <<allocated, result>>
    BY <1>2 DEF DeleteInner, DeleteBegin
  <2>2. Linked = allocated /\ Linked' = allocated /\ Rest' = {}
    BY <2>1 DEF View, Nodes, NoIter
  <2>3. Abstract!Forget
    BY <2>1, <2>2 DEF Abstract!Forget
  <2> QED
    BY <2>3 DEF Seen, Abstract!KeySetNext, Abstract!AnyCall
<1>3. CASE rb_tree_minimum
  <2>1. /\ pc = "minimum" /\ UNCHANGED <<pc, allocated, iter, result>>
    BY <1>3 DEF rb_tree_minimum
  <2>2. Linked = allocated /\ Linked' = allocated /\ Rest = {} /\ Rest' = {}
    BY <2>1 DEF View, Nodes
  <2> QED
    BY <2>1, <2>2 DEF Seen
<1>4. CASE DeleteSuccessor
  <2>1. /\ pc = "minimum" /\ pc' \in {"delete_fixup", "free"}
        /\ UNCHANGED <<arg, allocated, iter, result>>
    BY <1>4 DEF DeleteSuccessor
  <2>2. arg \in Key
    BY <2>1, TypedIs DEF Typed
  <2>3. Linked = allocated /\ Linked' = allocated \ {arg} /\ Rest' = {}
    BY <2>1 DEF View, Nodes
  <2>4. Abstract!Delete(arg)
    BY <2>1, <2>3 DEF Abstract!Delete
  <2> QED
    BY <2>2, <2>4 DEF Seen, Abstract!KeySetNext, Abstract!AnyCall
<1>5. CASE DeleteRecolor \/ DeleteRotate \/ DeleteDone
  <2>1. /\ pc = "delete_fixup" /\ pc' \in {"delete_fixup", "free"}
        /\ UNCHANGED <<arg, allocated, iter, result>>
    BY <1>5 DEF DeleteRecolor, DeleteRotate, DeleteDone, DeleteFixing
  <2>2. /\ Linked = allocated \ {arg} /\ Linked' = allocated \ {arg}
        /\ Rest = {} /\ Rest' = {}
    BY <2>1 DEF View, Nodes
  <2> QED
    BY <2>1, <2>2 DEF Seen
<1>6. CASE DeleteFree
  <2>1. /\ pc = "free" /\ pc' = "idle" /\ allocated' = allocated \ {arg}
        /\ UNCHANGED <<iter, result>>
    BY <1>6 DEF DeleteFree, Return
  <2>2. /\ Linked = allocated \ {arg} /\ Linked' = allocated \ {arg}
        /\ Rest = {} /\ Rest' = {}
    BY <2>1 DEF View, Nodes
  <2> QED
    BY <2>1, <2>2 DEF Seen
<1> QED
  BY <1>1, <1>2, <1>3, <1>4, <1>5, <1>6

\* What begins, and the end of the whole tree.
LEMMA CallSeen ==
  ASSUME TypeInv, GoodNow, View, View',
         \/ \E k \in Key : BeginFind(k) \/ BeginInsert(k)
         \/ Descend \/ BeginNext \/ rb_tree_cleanup
  PROVE  Seen
<1>1. ASSUME NEW k \in Key, BeginInsert(k) PROVE Seen
  <2>1. /\ pc = "idle" /\ pc' = "insert" /\ iter' = NoIter /\ UNCHANGED <<allocated, result>>
    BY <1>1 DEF BeginInsert, Begin
  <2>2. Linked = allocated /\ Linked' = allocated /\ Rest' = {}
    BY <2>1 DEF View, Nodes, NoIter
  <2>3. Abstract!Forget
    BY <2>1, <2>2 DEF Abstract!Forget
  <2> QED
    BY <2>3 DEF Seen, Abstract!KeySetNext, Abstract!AnyCall
<1>2. ASSUME UNCHANGED <<tree, iter, result>> PROVE Seen
  BY <1>2 DEF Linked, Rest, Seen
<1>3. ASSUME NEW k \in Key, BeginFind(k) PROVE Seen
  BY <1>2, <1>3 DEF BeginFind, Begin
<1>4. CASE Descend \/ BeginNext
  BY <1>2, <1>4 DEF Descend, BeginNext
<1>5. CASE rb_tree_cleanup
  <2>1. /\ pc = "idle" /\ pc' = pc /\ iter' = NoIter /\ allocated' = allocated \ Linked
        /\ result' = result
    BY <1>5 DEF rb_tree_cleanup, callVars
  <2>2. Linked = allocated /\ Linked' = {} /\ Rest' = {}
    BY <2>1 DEF View, Nodes, NoIter
  <2>3. Abstract!Clear
    BY <2>1, <2>2 DEF Abstract!Clear
  <2> QED
    BY <2>3 DEF Seen, Abstract!KeySetNext, Abstract!AnyCall
<1> QED
  BY <1>1, <1>3, <1>4, <1>5

\* The least element is the one that Min() chooses.
LEMMA MinIs ==
  ASSUME NEW S \in SUBSET Int, NEW x, LeastOf(x, S)
  PROVE  Abstract!Min(S) = x /\ S # {}
<1>1. x \in S /\ \A y \in S : x <= y
  BY DEF LeastOf
<1>2. \A z \in S : (\A y \in S : z <= y) => z = x
  <2> TAKE z \in S
  <2> HAVE \A y \in S : z <= y
  <2>1. z <= x /\ x <= z /\ z \in Int /\ x \in Int
    BY <1>1
  <2> QED
    BY <2>1
<1> QED
  BY <1>1, <1>2 DEF Abstract!Min

\* The iterator returns the least node that is left.
LEMMA IterSeen ==
  ASSUME TypeInv, GoodNow, View, View', rb_iterator_init \/ NextPush \/ rb_iterator_next
  PROVE  Seen
<1>a. PICK sub, B : /\ TreeAt(tree, allocated, pc, arg, node, up, sub, B)
                    /\ IterAt(tree, allocated, pc, iter, sub)
  BY DEF GoodNow, Good
<1>b. /\ pc \in {"idle", "next"} /\ pc' \in {"idle", "next"}
      /\ UNCHANGED <<tree, allocated>>
  BY DEF rb_iterator_init, NextPush, rb_iterator_next, callVars, Return
<1>c. Shape(tree, allocated, sub)
  BY <1>a, <1>b DEF TreeAt, Sane
<1>d. Linked = allocated /\ Linked' = allocated
  BY <1>b DEF View, Nodes
<1>e. iter \in [on : BOOLEAN, curr : Node, stack : Seq(Key)]
  BY TypedIs DEF Typed
<1>f. Rest = RestOf(tree, iter) /\ Rest' = RestOf(tree, iter')
  BY <1>b DEF Rest, RestOf
<1>1. CASE rb_iterator_init
  <2>1. iter' = [on |-> TRUE, curr |-> tree.root, stack |-> <<>>] /\ result' = result
    BY <1>1 DEF rb_iterator_init
  <2>2. /\ Walk(tree, allocated, sub, tree.root, <<>>)
        /\ Left(tree, sub, tree.root, <<>>) = allocated
    BY <1>c, WalkBegins
  <2>3. iter'.on /\ iter'.curr = tree.root /\ iter'.stack = <<>>
    BY <2>1
  <2>4. RestOf(tree, iter') = Left(tree, sub, iter'.curr, iter'.stack)
    BY <1>c, <2>2, <2>3, RestOfIs
  <2>5. Rest' = Linked
    BY <1>d, <1>f, <2>2, <2>3, <2>4
  <2>6. Abstract!Iterate
    BY <2>1, <2>5, <1>d DEF Abstract!Iterate
  <2> QED
    BY <2>6 DEF Seen, Abstract!KeySetNext, Abstract!AnyCall
<1>2. CASE NextPush \/ rb_iterator_next
  <2>1. pc = "next"
    BY <1>2 DEF NextPush, rb_iterator_next
  <2>2. iter.on /\ Walk(tree, allocated, sub, iter.curr, iter.stack)
    BY <1>a, <2>1 DEF IterAt
  <2>3. Rest = Left(tree, sub, iter.curr, iter.stack)
    BY <1>c, <1>f, <2>2, RestOfIs
  <2>4. CASE NextPush
    <3>1. /\ iter.curr # nil /\ result' = result
          /\ iter' = [iter EXCEPT !.stack = Append(@, iter.curr),
                                  !.curr = tree.child[iter.curr][RB_L]]
      BY <2>4 DEF NextPush
    <3>2. /\ iter'.on /\ iter'.curr = tree.child[iter.curr][RB_L]
          /\ iter'.stack = Append(iter.stack, iter.curr)
      BY <3>1, <1>e, <2>2
    <3>3. /\ Walk(tree, allocated, sub, tree.child[iter.curr][RB_L],
                  Append(iter.stack, iter.curr))
          /\ Left(tree, sub, tree.child[iter.curr][RB_L], Append(iter.stack, iter.curr))
               = Left(tree, sub, iter.curr, iter.stack)
      BY <1>c, <2>2, <3>1, WalkPushes
    <3>4. RestOf(tree, iter') = Left(tree, sub, iter'.curr, iter'.stack)
      BY <1>c, <3>2, <3>3, RestOfIs
    <3>5. Rest' = Rest
      BY <1>f, <2>3, <3>2, <3>3, <3>4
    <3> QED
      BY <3>1, <3>5, <1>d DEF Seen
  <2>5. CASE rb_iterator_next
    <3>1. PICK s : s = iter.stack
      OBVIOUS
    <3>2. iter.curr = nil /\ Walk(tree, allocated, sub, nil, s)
      BY <2>2, <2>5, <3>1 DEF rb_iterator_next
    <3>3. Rest = Left(tree, sub, nil, s)
      BY <2>3, <3>1, <3>2
    <3>4. Len(s) = 0 <=> Rest = {}
      BY <1>c, <3>2, <3>3, WalkEnds
    <3>5. CASE Len(s) = 0
      <4>1. result' = [node |-> NULL, inserted |-> FALSE] /\ iter' = iter
        BY <2>5, <3>1, <3>5 DEF rb_iterator_next
      <4>2. Rest = {} /\ Rest' = Rest
        BY <1>f, <3>4, <3>5, <4>1
      <4>3. Abstract!NextInOrder
        BY <4>1, <4>2, <1>d DEF Abstract!NextInOrder, Abstract!Returns
      <4> QED
        BY <4>3 DEF Seen, Abstract!KeySetNext
    <3>6. CASE Len(s) # 0
      <4>1. PICK x, r, z : /\ x = s[Len(s)] /\ r = tree.child[x][RB_R]
                           /\ z = SubSeq(s, 1, Len(s) - 1)
        OBVIOUS
      <4>2. /\ x \in allocated /\ Walk(tree, allocated, sub, r, z)
            /\ LeastOf(x, Rest) /\ Left(tree, sub, r, z) = Rest \ {x}
        BY <1>c, <3>2, <3>3, <3>6, <4>1, WalkPops
      <4>3. /\ result' = [node |-> x, inserted |-> FALSE]
            /\ iter' = [iter EXCEPT !.stack = z, !.curr = r]
        BY <2>5, <3>1, <3>6, <4>1 DEF rb_iterator_next, after_pop
      <4>4. iter'.on /\ iter'.curr = r /\ iter'.stack = z
        BY <4>3, <1>e, <2>2
      <4>5. RestOf(tree, iter') = Left(tree, sub, iter'.curr, iter'.stack)
        BY <1>c, <4>2, <4>4, RestOfIs
      <4>6. Rest' = Rest \ {x}
        BY <1>f, <4>2, <4>4, <4>5
      <4>7. Rest \in SUBSET Int
        <5>1. allocated \subseteq Int
          BY <1>c, NilIs DEF Shape
        <5>2. Rest \subseteq allocated
          BY <1>c, <3>2, <3>3, LeftInside
        <5> QED
          BY <5>1, <5>2
      <4>8. Abstract!Min(Rest) = x /\ Rest # {}
        BY <4>2, <4>7, MinIs
      <4>9. Abstract!NextInOrder
        BY <4>3, <4>6, <4>8, <1>d DEF Abstract!NextInOrder, Abstract!Returns
      <4> QED
        BY <4>9 DEF Seen, Abstract!KeySetNext
    <3> QED
      BY <3>5, <3>6
  <2> QED
    BY <1>2, <2>4, <2>5
<1> QED
  BY <1>1, <1>2

\* Every step is one of the set, or none.
LEMMA StepSeen ==
  TreeInv /\ TreeInv' /\ [RedBlackNext]_redBlackVars =>
    [Seen]_<<Linked, Rest, result>>
<1> SUFFICES ASSUME TreeInv, TreeInv', [RedBlackNext]_redBlackVars
             PROVE  Seen
  OBVIOUS
<1>1. CASE nil_moved'
  BY <1>1 DEF Seen
<1>2. CASE ~nil_moved'
  <2>1. ~nil_moved
    BY <1>2, NilStaysMoved
  <2>2. TypeInv /\ GoodNow /\ TypeInv' /\ GoodNow'
    BY <1>2, <2>1 DEF TreeInv
  <2>3. View /\ View'
    BY <2>2, ViewIs, ViewIsPrime
  <2>4. CASE UNCHANGED redBlackVars
    BY <2>4 DEF redBlackVars, Linked, Rest, Seen
  <2>5. CASE RedBlackStep
    BY <2>2, <2>3, <2>5, SearchSeen, InsertSeen, DeleteSeen, CallSeen, IterSeen
    DEF RedBlackStep
  <2>6. CASE RedBlackCall
    BY <2>2, <2>3, <2>6, DeleteSeen, CallSeen, IterSeen DEF RedBlackCall
  <2> QED
    BY <2>4, <2>5, <2>6 DEF RedBlackNext
<1> QED
  BY <1>1, <1>2

\* The set is empty at first.
LEMMA StartSeen == RedBlackInit => Abstract!KeySetInit
<1> SUFFICES ASSUME RedBlackInit PROVE Abstract!KeySetInit
  OBVIOUS
<1>1. TypeInv /\ GoodNow
  BY TypesStart, GoodStart
<1>2. View
  BY <1>1, ViewIs
<1>3. /\ allocated = {} /\ pc = "idle" /\ iter = NoIter
      /\ result = [node |-> NULL, inserted |-> FALSE]
  BY DEF RedBlackInit
<1>4. Linked = {} /\ Rest = {}
  BY <1>2, <1>3 DEF View, Nodes, NoIter
<1> QED
  BY <1>3, <1>4 DEF Abstract!KeySetInit, Abstract!Returns

\* rb_tree_find(), rb_tree_insert() and the iterator return what the ordered set that
\* red_black.h promises would, until nil's parent is lost; rotations and the loops
\* change nothing that can be seen.
THEOREM TreeIsSet == RedBlackSpec => ImplementsKeySet
<1>1. [Seen]_<<Linked, Rest, result>>
        => [\/ UNCHANGED <<Linked, Rest, result>>
            \/ nil_moved'
            \/ Abstract!KeySetNext]_<<Linked, Rest, result>>
  BY DEF Seen
<1> QED
  BY <1>1, StartSeen, StepSeen, TreeInvHolds, PTL DEF RedBlackSpec, ImplementsKeySet

-----------------------------------------------------------------------------
(* Powers of two. *)

\* p has the powers of two up to 2^k.
Doubles(k, p) == p = [n \in 0..k |-> IF n = 0 THEN 1 ELSE 2 * p[n - 1]]

LEMMA TwoToIs ==
  ASSUME NEW k
  PROVE  TwoTo(k) = (CHOOSE p : Doubles(k, p))[k]
  BY DEF TwoTo, Doubles

\* There is such a function.
LEMMA PowersExist ==
  ASSUME NEW k \in Nat
  PROVE  \E p : Doubles(k, p) /\ \A n \in 0..k : p[n] \in Nat
<1> DEFINE D == 0..k
           G == [q \in D \X [D -> Nat] |-> IF q[1] = 0 THEN 1 ELSE 2 * q[2][q[1] - 1]]
           rank == [n \in D |-> n]
<1>1. ASSUME NEW n \in D, NEW f \in [D -> Nat]
      PROVE  G[<<n, f>>] = IF n = 0 THEN 1 ELSE 2 * f[n - 1]
  BY <1>1
<1>2. ASSUME NEW n \in D, n # 0 PROVE n - 1 \in D /\ n - 1 < n
  BY <1>2
<1>3. ASSUME NEW n \in D, NEW f \in [D -> Nat] PROVE G[<<n, f>>] \in Nat
  <2>1. n # 0 => f[n - 1] \in Nat
    BY <1>2
  <2> QED
    BY <1>1, <2>1
<1>4. G \in [D \X [D -> Nat] -> Nat]
  <2>1. \A q \in D \X [D -> Nat] : q = <<q[1], q[2]>> /\ q[1] \in D /\ q[2] \in [D -> Nat]
    OBVIOUS
  <2>2. \A q \in D \X [D -> Nat] : G[q] \in Nat
    BY <1>3, <2>1
  <2> QED
    BY <2>2
<1>5. DescendsBy(rank, D, Nat, G)
  <2> SUFFICES ASSUME NEW c \in D, NEW f \in [D -> Nat], NEW g \in [D -> Nat],
                      \A x \in D : rank[x] < rank[c] => f[x] = g[x]
               PROVE  G[<<c, f>>] = G[<<c, g>>]
    BY DEF DescendsBy
  <2>1. c # 0 => f[c - 1] = g[c - 1]
    BY <1>2
  <2> HIDE DEF G
  <2> QED
    BY <1>1, <2>1
<1>6. rank \in [D -> 0..k] /\ Nat # {}
  OBVIOUS
<1> HIDE DEF G, rank
<1>7. PICK f \in [D -> Nat] : Solves(f, D, G)
  BY <1>4, <1>5, <1>6, FunctionExists
<1>8. \A n \in D : f[n] = IF n = 0 THEN 1 ELSE 2 * f[n - 1]
  BY <1>1, <1>7 DEF Solves
<1>9. Doubles(k, f)
  BY <1>8 DEF Doubles
<1> QED
  BY <1>9

\* Such functions agree.
LEMMA PowersAgree ==
  ASSUME NEW j \in Nat, NEW k \in Nat, j <= k, NEW p, NEW q, Doubles(j, p), Doubles(k, q)
  PROVE  \A n \in 0..j : p[n] = q[n]
<1> DEFINE Bad == {n \in 0..j : p[n] # q[n]}
<1>1. /\ \A n \in 0..j : p[n] = IF n = 0 THEN 1 ELSE 2 * p[n - 1]
      /\ \A n \in 0..k : q[n] = IF n = 0 THEN 1 ELSE 2 * q[n - 1]
  BY DEF Doubles
<1> SUFFICES ASSUME Bad # {} PROVE FALSE
  OBVIOUS
<1>2. PICK n \in Bad : \A m \in Bad : n <= m
  <2>1. Bad \in SUBSET Nat /\ Bad # {}
    OBVIOUS
  <2> QED
    BY <2>1, LeastNatural
<1>3. n \in 0..j /\ n \in 0..k /\ p[n] # q[n]
  OBVIOUS
<1>4. n # 0
  BY <1>1, <1>3
<1>5. n - 1 \in 0..j /\ ~(n <= n - 1)
  BY <1>3, <1>4
<1>6. p[n - 1] = q[n - 1]
  BY <1>2, <1>5
<1> QED
  BY <1>1, <1>3, <1>4, <1>6

\* 2^0 is 1, and one more in the exponent doubles it.
LEMMA TwoToDoubles ==
  /\ TwoTo(0) = 1
  /\ \A k \in Nat : TwoTo(k) \in Nat /\ TwoTo(k + 1) = 2 * TwoTo(k)
<1>1. ASSUME NEW k \in Nat
      PROVE  \E p : Doubles(k, p) /\ TwoTo(k) = p[k] /\ p[k] \in Nat
  <2>1. PICK f : Doubles(k, f) /\ \A n \in 0..k : f[n] \in Nat
    BY PowersExist
  <2>2. PICK p : p = CHOOSE g : Doubles(k, g)
    OBVIOUS
  <2>3. Doubles(k, p)
    BY <2>1, <2>2, Zenon
  <2>4. k \in 0..k /\ p[k] = f[k]
    BY <2>1, <2>3, PowersAgree
  <2> QED
    BY <2>1, <2>2, <2>3, <2>4, TwoToIs
<1>2. TwoTo(0) = 1
  <2>1. PICK p : Doubles(0, p) /\ TwoTo(0) = p[0]
    BY <1>1
  <2> QED
    BY <2>1 DEF Doubles
<1>3. ASSUME NEW k \in Nat PROVE TwoTo(k + 1) = 2 * TwoTo(k)
  <2>1. PICK p : Doubles(k, p) /\ TwoTo(k) = p[k]
    BY <1>1
  <2>2. PICK q : Doubles(k + 1, q) /\ TwoTo(k + 1) = q[k + 1]
    BY <1>1
  <2>3. q[k + 1] = 2 * q[(k + 1) - 1] /\ (k + 1) - 1 = k
    BY <2>2 DEF Doubles
  <2>4. p[k] = q[k]
    BY <2>1, <2>2, PowersAgree
  <2> QED
    BY <2>1, <2>2, <2>3, <2>4
<1> QED
  BY <1>1, <1>2, <1>3

\* More in the exponent is not less.
LEMMA TwoToGrows ==
  ASSUME NEW j \in Nat, NEW k \in Nat, j <= k
  PROVE  TwoTo(j) <= TwoTo(k)
<1> DEFINE Bad == {n \in Nat : ~(TwoTo(j) <= TwoTo(j + n))}
<1>1. Bad = {}
  <2> SUFFICES ASSUME Bad # {} PROVE FALSE
    OBVIOUS
  <2>1. PICK n \in Bad : \A m \in Bad : n <= m
    BY LeastNatural
  <2>2. n \in Nat /\ ~(TwoTo(j) <= TwoTo(j + n)) /\ TwoTo(j) \in Nat
    BY TwoToDoubles
  <2>3. n # 0
    <3>1. j + 0 = j
      OBVIOUS
    <3> QED
      BY <2>2, <3>1
  <2>4. n - 1 \in Nat /\ ~(n <= n - 1) /\ j + (n - 1) \in Nat /\ (j + (n - 1)) + 1 = j + n
    BY <2>2, <2>3
  <2>5. TwoTo(j) <= TwoTo(j + (n - 1))
    BY <2>1, <2>4
  <2>6. TwoTo(j + n) = 2 * TwoTo(j + (n - 1)) /\ TwoTo(j + (n - 1)) \in Nat
    BY <2>4, TwoToDoubles
  <2> QED
    BY <2>2, <2>5, <2>6
<1>2. k - j \in Nat /\ j + (k - j) = k
  OBVIOUS
<1>3. k - j \notin Bad
  BY <1>1
<1> HIDE DEF Bad
<1>4. TwoTo(j) <= TwoTo(j + (k - j))
  BY <1>2, <1>3 DEF Bad
<1> QED
  BY <1>2, <1>4

\* Doubling the exponent squares it.
LEMMA TwoToSquares ==
  ASSUME NEW k \in Nat
  PROVE  TwoTo(2 * k) = TwoTo(k) * TwoTo(k)
<1> DEFINE Bad == {n \in Nat : TwoTo(2 * n) # TwoTo(n) * TwoTo(n)}
<1>1. Bad = {}
  <2> SUFFICES ASSUME Bad # {} PROVE FALSE
    OBVIOUS
  <2>1. PICK n \in Bad : \A m \in Bad : n <= m
    BY LeastNatural
  <2>2. n \in Nat /\ TwoTo(2 * n) # TwoTo(n) * TwoTo(n)
    OBVIOUS
  <2>3. n # 0
    <3>1. 2 * 0 = 0
      OBVIOUS
    <3> QED
      BY <2>2, <3>1, TwoToDoubles
  <2>4. PICK m \in Nat : n = m + 1
    BY <2>2, <2>3
  <2>5. TwoTo(2 * m) = TwoTo(m) * TwoTo(m)
    BY <2>1, <2>4
  <2>6. 2 * m \in Nat /\ 2 * m + 1 \in Nat /\ 2 * n = (2 * m + 1) + 1
    BY <2>4
  <2>7. TwoTo(n) = 2 * TwoTo(m) /\ TwoTo(m) \in Nat
    BY <2>4, TwoToDoubles
  <2>8. TwoTo(2 * n) = 2 * (2 * TwoTo(2 * m))
    BY <2>6, TwoToDoubles
  <2>9. \A x \in Nat : 2 * (2 * (x * x)) = (2 * x) * (2 * x)
    OBVIOUS
  <2> QED
    BY <2>2, <2>5, <2>7, <2>8, <2>9
<1> QED
  BY <1>1

-----------------------------------------------------------------------------
(* The depth of the iterator's stack. *)

\* Some node of a set of nodes has no child in it.
LEMMA Lowest ==
  ASSUME NEW t, NEW N, NEW sub, Shape(t, N, sub), NEW S \in SUBSET N, S # {}
  PROVE  \E n \in S : \A d \in Dir : t.child[n][d] \notin S
<1> DEFINE Sizes == {Cardinality(sub[n]) : n \in S}
<1>1. ASSUME NEW n \in N, NEW d \in Dir, t.child[n][d] \in N
      PROVE  Cardinality(sub[t.child[n][d]]) < Cardinality(sub[n])
  <2>1. /\ IsFiniteSet(sub[n]) /\ Cardinality(sub[n]) \in Nat
        /\ sub[t.child[n][d]] \subseteq sub[n]
    BY FS_Subset, FS_CardinalityType, NilIs DEF Shape
  <2>2. n \in sub[n] /\ n \notin sub[t.child[n][d]]
    BY Apart
  <2>3. sub[t.child[n][d]] # sub[n]
    BY <2>2
  <2>4. /\ Cardinality(sub[t.child[n][d]]) <= Cardinality(sub[n])
        /\ Cardinality(sub[t.child[n][d]]) # Cardinality(sub[n])
        /\ IsFiniteSet(sub[t.child[n][d]])
    BY <2>1, <2>3, FS_Subset
  <2>5. Cardinality(sub[t.child[n][d]]) \in Nat
    BY <2>4, FS_CardinalityType
  <2> QED
    BY <2>1, <2>4, <2>5
<1>2. ASSUME NEW n \in N PROVE Cardinality(sub[n]) \in Nat
  BY FS_Subset, FS_CardinalityType, NilIs DEF Shape
<1>3. Sizes \in SUBSET Nat /\ Sizes # {}
  BY <1>2
<1>4. PICK least \in Sizes : \A z \in Sizes : least <= z
  BY <1>3, LeastNatural
<1>5. PICK n \in S : least = Cardinality(sub[n])
  OBVIOUS
<1>6. ASSUME NEW d \in Dir, t.child[n][d] \in S PROVE FALSE
  <2>1. Cardinality(sub[n]) <= Cardinality(sub[t.child[n][d]])
    BY <1>4, <1>5, <1>6
  <2>2. Cardinality(sub[t.child[n][d]]) < Cardinality(sub[n])
    BY <1>1, <1>6
  <2> QED
    BY <1>2, <1>6, <2>1, <2>2
<1> QED
  BY <1>6

\* The weights of nodes, and what B is at a child.
LEMMA ChildWeight ==
  ASSUME NEW t, NEW N, NEW sub, NEW B, Sane(t, N, sub, B), NEW n \in N, NEW d \in Dir
  PROVE  /\ t.child[n][d] \in N \cup {nil} /\ B[n] \in Nat /\ B[t.child[n][d]] \in Nat
         /\ B[n] = B[t.child[n][d]] + Weight(t, n)
         /\ Weight(t, n) \in {0, 1}
         /\ Weight(t, n) = 0 => Weight(t, t.child[n][d]) = 1
<1>1. Shape(t, N, sub) /\ Balanced(t, N, B, {}) /\ RedsApart(t, N, {}, {})
  BY DEF Sane
<1>2. t.child[n][d] \in N \cup {nil} /\ N \subseteq Node /\ nil \in Node /\ t \in Trees
  BY <1>1, NilIs DEF Shape
<1>3. B[n] \in Nat /\ B[t.child[n][d]] \in Nat
  BY <1>1, <1>2 DEF Balanced
<1>4. Missing({}, n, d) = 0 /\ Weight(t, n) \in {0, 1}
  BY DEF Missing, Weight
<1>5. B[n] = B[t.child[n][d]] + Missing({}, n, d) + Weight(t, n)
  BY <1>1 DEF Balanced
<1>6. ASSUME Weight(t, n) = 0 PROVE Weight(t, t.child[n][d]) = 1
  <2>1. ~is_black(t, n) /\ n \in Node /\ t.child[n][d] \in Node
    BY <1>2, <1>6 DEF Weight
  <2>2. is_red(t, n) /\ (is_red(t, t.child[n][d]) \/ is_black(t, t.child[n][d]))
    BY <1>2, <2>1 DEF Trees, Color, is_black, is_red
  <2>3. ~is_red(t, t.child[n][d])
    BY <1>1, <2>2 DEF RedsApart
  <2> QED
    BY <2>2, <2>3 DEF Weight
<1> QED
  BY <1>2, <1>3, <1>4, <1>5, <1>6

\* A subtree with b black nodes on every path has at least 2^b - 1 nodes.
LEMMA BigEnough ==
  ASSUME NEW t, NEW N, NEW sub, NEW B, Sane(t, N, sub, B), NEW n \in N \cup {nil}
  PROVE  B[n] \in Nat /\ TwoTo(B[n]) <= Cardinality(sub[n]) + 1
<1> DEFINE Enough(m) == TwoTo(B[m]) <= Cardinality(sub[m]) + 1
           Bad == {m \in N : ~Enough(m)}
<1>1. Shape(t, N, sub) /\ Balanced(t, N, B, {})
  BY DEF Sane
<1>2. /\ RB_L \in Dir /\ RB_R \in Dir /\ Opposite(RB_L) = RB_R
  BY DEF Dir, RB_L, RB_R, Opposite
<1>3. Enough(nil) /\ B[nil] \in Nat
  BY <1>1, TwoToDoubles, FS_EmptySet DEF Shape, Balanced
<1>4. ASSUME NEW m \in N \cup {nil}
      PROVE  IsFiniteSet(sub[m]) /\ Cardinality(sub[m]) \in Nat /\ B[m] \in Nat
  BY <1>1, FS_Subset, FS_CardinalityType, NilIs DEF Shape, Balanced
<1>5. Bad = {}
  <2> SUFFICES ASSUME Bad # {} PROVE FALSE
    OBVIOUS
  <2>1. PICK m \in Bad : \A d \in Dir : t.child[m][d] \notin Bad
    BY <1>1, Lowest
  <2>2. PICK l, r : l = t.child[m][RB_L] /\ r = t.child[m][RB_R]
    OBVIOUS
  <2>3. m \in N /\ ~Enough(m)
    OBVIOUS
  <2>4. /\ l \in N \cup {nil} /\ r \in N \cup {nil}
        /\ B[m] = B[l] + Weight(t, m) /\ B[m] = B[r] + Weight(t, m) /\ Weight(t, m) \in {0, 1}
    BY <1>2, <2>2, <2>3, ChildWeight
  <2>5. l \notin Bad /\ r \notin Bad
    BY <1>2, <2>1, <2>2
  <2>6. Enough(l) /\ Enough(r)
    BY <1>3, <2>4, <2>5
  <2>7. /\ sub[m] = {m} \cup sub[l] \cup sub[r] /\ sub[l] \cap sub[r] = {}
        /\ m \notin sub[l] /\ m \notin sub[r]
    <3>1. \A x \in sub[l] : x \notin sub[r]
      <4>1. /\ \A x \in sub[l] : x < m
            /\ \A x \in sub[r] : m < x
            /\ sub[l] \subseteq Int /\ sub[r] \subseteq Int /\ m \in Int
        BY <1>1, <2>2, <2>3, RightIs
      <4> QED
        BY <4>1
    <3> QED
      BY <1>1, <2>2, <2>3, <3>1, RightIs
  <2>8. Cardinality(sub[m]) = 1 + Cardinality(sub[l]) + Cardinality(sub[r])
    <3>1. IsFiniteSet(sub[l]) /\ IsFiniteSet(sub[r])
      BY <1>4, <2>4
    <3>2. /\ IsFiniteSet(sub[l] \cup sub[r])
          /\ Cardinality(sub[l] \cup sub[r]) = Cardinality(sub[l]) + Cardinality(sub[r])
      <4>1. Cardinality(sub[l] \cap sub[r]) = 0
        BY <2>7, FS_EmptySet
      <4>2. /\ IsFiniteSet(sub[l] \cup sub[r])
            /\ Cardinality(sub[l] \cup sub[r])
                 = Cardinality(sub[l]) + Cardinality(sub[r]) - Cardinality(sub[l] \cap sub[r])
        BY <3>1, FS_Union
      <4> QED
        BY <4>1, <4>2, <1>4, <2>4
    <3>3. sub[m] = (sub[l] \cup sub[r]) \cup {m} /\ m \notin sub[l] \cup sub[r]
      BY <2>7
    <3>4. Cardinality(sub[m]) = Cardinality(sub[l] \cup sub[r]) + 1
      BY <3>2, <3>3, FS_AddElement
    <3> QED
      BY <3>2, <3>4, <1>4, <2>4
  <2>9. B[l] \in Nat /\ B[r] = B[l] /\ TwoTo(B[l]) \in Nat /\ TwoTo(B[l] + 1) = 2 * TwoTo(B[l])
    BY <1>4, <2>4, TwoToDoubles
  <2>10. TwoTo(B[m]) <= 2 * TwoTo(B[l])
    <3>1. B[m] = B[l] \/ B[m] = B[l] + 1
      BY <2>4, <2>9
    <3> QED
      BY <2>9, <3>1
  <2>11. Cardinality(sub[l]) \in Nat /\ Cardinality(sub[r]) \in Nat /\ TwoTo(B[m]) \in Nat
    BY <1>4, <2>3, <2>4, TwoToDoubles
  <2> QED
    BY <2>3, <2>6, <2>8, <2>9, <2>10, <2>11
<1> QED
  BY <1>3, <1>4, <1>5

\* How many nodes the longest path down from n can have.
PathBound(t, B, n) == 2 * B[n] - Weight(t, n)

\* It falls on the way down.
LEMMA BoundFalls ==
  ASSUME NEW t, NEW N, NEW sub, NEW B, Sane(t, N, sub, B), NEW n \in N,
         NEW d \in Dir, NEW m \in sub[t.child[n][d]]
  PROVE  m \in N /\ PathBound(t, B, m) < PathBound(t, B, n)
<1> DEFINE Falls(k) == \A e \in Dir : \A x \in sub[t.child[k][e]] :
                         PathBound(t, B, x) < PathBound(t, B, k)
           Bad == {k \in N : ~Falls(k)}
<1>1. Shape(t, N, sub)
  BY DEF Sane
<1>2. ASSUME NEW k \in N PROVE PathBound(t, B, k) \in Int
  BY <1>2, ChildWeight, OppositeIs DEF PathBound, Dir
<1>3. ASSUME NEW k \in N, NEW e \in Dir, NEW x \in sub[t.child[k][e]]
      PROVE  t.child[k][e] \in N /\ x \in N
  <2>1. t.child[k][e] \in N \cup {nil} /\ N \cup {nil} \subseteq Node /\ sub[nil] = {}
    BY <1>1, NilIs, ChildLinks DEF Shape
  <2>2. sub[t.child[k][e]] \subseteq N
    BY <1>1, <2>1 DEF Shape
  <2> QED
    BY <2>1, <2>2
<1>4. ASSUME NEW k \in N, NEW e \in Dir, t.child[k][e] \in N
      PROVE  PathBound(t, B, t.child[k][e]) < PathBound(t, B, k)
  <2>1. PICK c : c = t.child[k][e]
    OBVIOUS
  <2>2. /\ B[k] \in Nat /\ B[c] \in Nat /\ B[k] = B[c] + Weight(t, k)
        /\ Weight(t, k) \in {0, 1} /\ (Weight(t, k) = 0 => Weight(t, c) = 1)
    BY <2>1, ChildWeight
  <2>3. Weight(t, c) \in {0, 1}
    BY DEF Weight
  <2> QED
    BY <2>1, <2>2, <2>3 DEF PathBound
<1>5. Bad = {}
  <2> SUFFICES ASSUME Bad # {} PROVE FALSE
    OBVIOUS
  <2>1. PICK k \in Bad : \A e \in Dir : t.child[k][e] \notin Bad
    BY <1>1, Lowest
  <2>2. k \in N /\ ~Falls(k)
    OBVIOUS
  <2>3. PICK e, x : /\ e \in Dir /\ x \in sub[t.child[k][e]]
                    /\ ~(PathBound(t, B, x) < PathBound(t, B, k))
    BY <2>2
  <2>4. PICK c \in N : c = t.child[k][e]
    BY <1>3, <2>2, <2>3
  <2>5. x \in N /\ PathBound(t, B, c) < PathBound(t, B, k)
    BY <1>3, <1>4, <2>2, <2>3, <2>4
  <2>6. x # c
    BY <2>3, <2>5
  <2>7. Falls(c)
    <3>1. c \notin Bad
      BY <2>1, <2>3, <2>4
    <3> QED
      BY <3>1
  <2>8. x \in sub[c] /\ sub[c] = {c} \cup sub[t.child[c][RB_L]] \cup sub[t.child[c][RB_R]]
        /\ RB_L \in Dir /\ RB_R \in Dir
    BY <1>1, <2>3, <2>4, RightIs
  <2>9. PathBound(t, B, x) < PathBound(t, B, c)
    BY <2>6, <2>7, <2>8
  <2> QED
    BY <1>2, <2>2, <2>3, <2>5, <2>9
<1>6. Falls(n)
  BY <1>5
<1> QED
  BY <1>3, <1>6

\* A path down has at most as many red nodes as black ones.
LEMMA PathIsShort ==
  ASSUME NEW t, NEW N, NEW sub, NEW B, Sane(t, N, sub, B), NEW s \in Seq(N), Down(t, sub, s)
  PROVE  B[t.root] \in Nat /\ Len(s) <= 2 * B[t.root]
<1> DEFINE Short(j) == j + PathBound(t, B, s[j]) <= 2 * B[t.root]
           Bad == {j \in 1..Len(s) : ~Short(j)}
<1>1. Shape(t, N, sub) /\ is_black(t, t.root)
  BY DEF Sane
<1>2. Len(s) \in Nat /\ \A j \in 1..Len(s) : s[j] \in N
  OBVIOUS
<1>3. B[t.root] \in Nat /\ t.root \in N \cup {nil} /\ sub[t.root] = N
  BY <1>1, BigEnough DEF Shape
<1>4. ASSUME NEW n \in N PROVE PathBound(t, B, n) \in Int /\ PathBound(t, B, n) >= 0
  <2>1. RB_L \in Dir
    BY DEF Dir
  <2>2. B[n] = B[t.child[n][RB_L]] + Weight(t, n) /\ B[t.child[n][RB_L]] \in Nat
        /\ Weight(t, n) \in {0, 1}
    BY <2>1, ChildWeight
  <2> QED
    BY <2>2 DEF PathBound
<1>5. ASSUME NEW n \in N PROVE PathBound(t, B, n) + 1 <= 2 * B[t.root]
  <2>1. t.root \in N /\ Weight(t, t.root) = 1
    BY <1>1, <1>3, <1>5 DEF Weight, Shape
  <2>2. PathBound(t, B, t.root) + 1 = 2 * B[t.root]
    BY <1>3, <2>1 DEF PathBound
  <2>3. CASE n = t.root
    BY <1>3, <2>2, <2>3
  <2>4. CASE n # t.root
    <3>1. /\ sub[t.root] = {t.root} \cup sub[t.child[t.root][RB_L]] \cup sub[t.child[t.root][RB_R]]
          /\ RB_L \in Dir /\ RB_R \in Dir
      BY <1>1, <2>1, RightIs
    <3>2. n \in sub[t.child[t.root][RB_L]] \/ n \in sub[t.child[t.root][RB_R]]
      BY <1>3, <2>4, <3>1
    <3>3. PathBound(t, B, n) < PathBound(t, B, t.root)
      BY <2>1, <3>1, <3>2, BoundFalls
    <3> QED
      BY <1>3, <1>4, <2>1, <2>2, <3>3
  <2> QED
    BY <2>3, <2>4
<1>6. Bad = {}
  <2> SUFFICES ASSUME Bad # {} PROVE FALSE
    OBVIOUS
  <2>1. PICK j \in Bad : \A k \in Bad : j <= k
    <3>1. Bad \in SUBSET Nat /\ Bad # {}
      OBVIOUS
    <3> QED
      BY <3>1, LeastNatural
  <2>2. j \in 1..Len(s) /\ ~Short(j)
    OBVIOUS
  <2>3. j # 1
    BY <1>2, <1>3, <1>4, <1>5, <2>2
  <2>4. j - 1 \in 1..Len(s) /\ j - 1 < j /\ ~(j <= j - 1)
    BY <2>2, <2>3
  <2>5. Short(j - 1)
    BY <2>1, <2>4
  <2>6. s[j] \in sub[t.child[s[j - 1]][RB_L]] /\ RB_L \in Dir /\ s[j] \in N /\ s[j - 1] \in N
    BY <1>2, <2>2, <2>4 DEF Down, Dir
  <2>7. PathBound(t, B, s[j]) < PathBound(t, B, s[j - 1])
    BY <2>6, BoundFalls
  <2>8. PathBound(t, B, s[j]) \in Int /\ PathBound(t, B, s[j - 1]) \in Int
    BY <1>4, <2>6
  <2> QED
    BY <1>3, <2>2, <2>5, <2>7, <2>8
<1>7. CASE Len(s) = 0
  BY <1>3, <1>7
<1>8. CASE Len(s) # 0
  <2>1. Len(s) \in 1..Len(s) /\ s[Len(s)] \in N
    BY <1>2, <1>8
  <2>2. Short(Len(s))
    BY <1>6, <2>1
  <2>3. PathBound(t, B, s[Len(s)]) \in Int /\ PathBound(t, B, s[Len(s)]) >= 0
    BY <1>4, <2>1
  <2> QED
    BY <1>2, <1>3, <2>2, <2>3
<1> QED
  BY <1>7, <1>8

\* A stack of h nodes needs a tree of 2^(h/2) - 1.
LEMMA StackFits ==
  ASSUME NEW t, NEW N, NEW sub, NEW B, Sane(t, N, sub, B), NEW s \in Seq(N), Down(t, sub, s)
  PROVE  TwoTo(Len(s)) <= (Cardinality(N) + 1) * (Cardinality(N) + 1)
<1>1. PICK b : b = B[t.root]
  OBVIOUS
<1>2. b \in Nat /\ Len(s) \in Nat /\ Len(s) <= 2 * b /\ 2 * b \in Nat
  BY <1>1, PathIsShort
<1>3. TwoTo(b) \in Nat /\ TwoTo(Len(s)) \in Nat /\ TwoTo(2 * b) = TwoTo(b) * TwoTo(b)
  BY <1>2, TwoToDoubles, TwoToSquares
<1>4. TwoTo(Len(s)) <= TwoTo(2 * b)
  BY <1>2, TwoToGrows
<1>5. sub[t.root] = N /\ t.root \in N \cup {nil} /\ IsFiniteSet(N)
  BY DEF Sane, Shape
<1>6. TwoTo(b) <= Cardinality(N) + 1 /\ Cardinality(N) + 1 \in Nat
  BY <1>1, <1>5, BigEnough, FS_CardinalityType
<1>7. ASSUME NEW x \in Nat, NEW y \in Nat, x <= y PROVE x * x <= y * y
  <2>1. x * x <= x * y
    BY <1>7
  <2>2. x * y <= y * y
    BY <1>7
  <2> QED
    BY <2>1, <2>2
<1>8. TwoTo(b) * TwoTo(b) <= (Cardinality(N) + 1) * (Cardinality(N) + 1)
  BY <1>3, <1>6, <1>7
<1>9. /\ TwoTo(b) * TwoTo(b) \in Nat
      /\ (Cardinality(N) + 1) * (Cardinality(N) + 1) \in Nat
  BY <1>3, <1>6
<1> QED
  BY <1>3, <1>4, <1>8, <1>9

\* The iterator's stack is empty while the iterator must not be used.
IterOff == (~iter.on => iter.stack = <<>>) /\ (pc = "next" => iter.on)

LEMMA StaysOff == RedBlackTypeOK /\ IterOff /\ [RedBlackNext]_redBlackVars => IterOff'
<1> SUFFICES ASSUME RedBlackTypeOK, IterOff, [RedBlackNext]_redBlackVars PROVE IterOff'
  OBVIOUS
<1>1. ASSUME iter' = NoIter, pc' # "next" PROVE IterOff'
  BY <1>1 DEF IterOff, NoIter
<1>2. ASSUME iter' = iter, pc' = "next" => pc = "next" PROVE IterOff'
  BY <1>2 DEF IterOff
<1>3. ASSUME iter'.on PROVE IterOff'
  BY <1>3 DEF IterOff
<1>4. CASE UNCHANGED redBlackVars
  BY <1>2, <1>4 DEF redBlackVars, callVars
<1>5. CASE RedBlackStep
  <2>1. CASE \/ Descend \/ rb_tree_find \/ InsertFound \/ InsertNew \/ InsertRecolor
             \/ InsertRotate \/ InsertDone \/ rb_tree_minimum \/ DeleteSuccessor
             \/ DeleteRecolor \/ DeleteRotate \/ DeleteDone \/ DeleteFree
    BY <1>2, <2>1
    DEF Descend, rb_tree_find, InsertFound, InsertNew, InsertRecolor, InsertRotate,
        InsertDone, rb_tree_minimum, DeleteSuccessor, DeleteRecolor, DeleteRotate,
        DeleteDone, DeleteFree, Return
  <2>2. CASE NextPush
    <3>1. iter'.on = iter.on /\ iter.on
      BY <2>2 DEF NextPush, IterOff
    <3> QED
      BY <1>3, <3>1
  <2>3. CASE rb_iterator_next
    <3>1. iter.on
      BY <2>3 DEF rb_iterator_next, IterOff
    <3>2. \/ iter' = iter
          \/ \E s, c : iter' = [iter EXCEPT !.stack = s, !.curr = c]
      BY <2>3, Zenon DEF rb_iterator_next
    <3>3. iter \in [on : BOOLEAN, curr : Node, stack : Seq(Key)]
      BY DEF RedBlackTypeOK
    <3>4. iter'.on = iter.on
      BY <3>2, <3>3, Zenon
    <3> QED
      BY <1>3, <3>1, <3>4
  <2> QED
    BY <1>5, <2>1, <2>2, <2>3 DEF RedBlackStep
<1>6. CASE RedBlackCall
  <2>1. CASE \E k \in Key : BeginFind(k)
    BY <1>2, <2>1 DEF BeginFind, Begin
  <2>2. CASE \E k \in Key : BeginInsert(k)
    BY <1>1, <2>2 DEF BeginInsert, Begin
  <2>3. CASE \E k \in Key : DeleteOuter(k) \/ DeleteInner(k)
    BY <1>1, <2>3 DEF DeleteOuter, DeleteInner, DeleteBegin
  <2>4. CASE rb_tree_cleanup
    BY <1>1, <2>4 DEF rb_tree_cleanup, callVars
  <2>5. CASE rb_iterator_init
    BY <1>3, <2>5 DEF rb_iterator_init
  <2>6. CASE BeginNext
    BY <1>3, <2>6 DEF BeginNext
  <2> QED
    BY <1>6, <2>1, <2>2, <2>3, <2>4, <2>5, <2>6 DEF RedBlackCall
<1> QED
  BY <1>4, <1>5, <1>6 DEF RedBlackNext

\* The claim of red_black.h for RB_ITERATOR_DEPTH_MAX holds in every state, unless
\* nil's parent was lost: the iterator's stack never holds more nodes than 2 log2(n + 1).
THEOREM DepthIsBounded == RedBlackSpec => []IteratorDepth
<1>1. ASSUME TreeInv, IterOff, ~nil_moved
      PROVE  TwoTo(Len(iter.stack)) <= (size + 1) * (size + 1)
  <2>1. size = Cardinality(allocated) /\ IsFiniteSet(allocated)
    BY <1>1 DEF TreeInv, GoodNow, Good
  <2>2. PICK sub, B : /\ TreeAt(tree, allocated, pc, arg, node, up, sub, B)
                      /\ IterAt(tree, allocated, pc, iter, sub)
    BY <1>1 DEF TreeInv, GoodNow, Good
  <2>3. CASE iter.on
    <3>1. Sane(tree, allocated, sub, B)
      BY <2>2, <2>3 DEF IterAt, TreeAt
    <3>2. iter.stack \in Seq(allocated) /\ Down(tree, sub, iter.stack)
      BY <2>2, <2>3 DEF IterAt, Walk
    <3> QED
      BY <2>1, <3>1, <3>2, StackFits
  <2>4. CASE ~iter.on
    <3>1. Len(iter.stack) = 0
      BY <1>1, <2>4 DEF IterOff
    <3>2. TwoTo(Len(iter.stack)) = 1
      BY <3>1, TwoToDoubles
    <3>3. size \in Nat
      BY <2>1, FS_CardinalityType
    <3>4. \A n \in Nat : 1 <= (n + 1) * (n + 1)
      <4> TAKE n \in Nat
      <4>1. (n + 1) * (n + 1) = n * n + 2 * n + 1 /\ n * n \in Nat
        OBVIOUS
      <4> QED
        BY <4>1
    <3> QED
      BY <3>2, <3>3, <3>4
  <2> QED
    BY <2>3, <2>4
<1>2. TreeInv /\ IterOff => IteratorDepth
  BY <1>1 DEF IteratorDepth
<1>3. RedBlackInit => IterOff
  BY DEF RedBlackInit, NoIter, IterOff
<1>4. RedBlackSpec => []IterOff
  BY <1>3, StaysOff, TypesAreKept, PTL DEF RedBlackSpec
<1> QED
  BY <1>2, <1>4, TreeInvHolds, PTL

=============================================================================
