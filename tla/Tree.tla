----------------------------------- MODULE Tree -----------------------------------
(***************************************************************************)
(* grid_tree_t with grid_overlap_t: a k-d tree of boxes, each node of      *)
(* which compares one bound of a box, its key_index, with those below it.  *)
(* Used by one thread.  Boxes are intervals here, <<lower, upper>>, so     *)
(* that key_index is 1 or 2; with more dimensions there are more of both.  *)
(*                                                                         *)
(* optimize() orders the nodes by a code that interleaves the bits of      *)
(* their quantized bounds.  The order decides the shape of the tree only:  *)
(* here it is any.                                                         *)
(***************************************************************************)
EXTENDS Integers, Sequences, FiniteSets, SequencesExt

CONSTANTS
  Nodes,
  Values,        \* of the bounds of a box
  Keys           \* bound: the assignments of boxes to nodes

Null  == 0
Boxes == {b \in Values \X Values : b[1] <= b[2]}
ASSUME TreeAssumption == Values \subseteq Int /\ Keys \subseteq [Nodes -> Boxes] /\ Null \notin Nodes

VARIABLES
  key,
  tree,          \* key_index, left_node, right_node and parent_node of all nodes
  root,          \* the tree that the user holds
  attached       \* history: nodes attached and not detached since
vars == <<key, tree, root, attached>>

Leaf == [index |-> 1, left |-> Null, right |-> Null, parent |-> Null]
Init == key \in Keys /\ tree = [n \in Nodes |-> Leaf] /\ root = Null /\ attached = {}

RECURSIVE Below(_, _)
Below(t, n) == IF n = Null THEN {} ELSE {n} \cup Below(t, t[n].left) \cup Below(t, t[n].right)

-----------------------------------------------------------------------------
(* grid_overlap_t.  The first bound is the lower one, the second the upper one. *)

compare(a, b, i) == b[i] < a[i]
overlap_left(k, target, i)  == i = 1 \/ k[2] >= target[1]
overlap_right(k, target, i) == i = 2 \/ target[2] >= k[1]
overlap(a, b) == a[2] >= b[1] /\ b[2] >= a[1]
merge_box(a, b) == <<IF b[1] < a[1] THEN b[1] ELSE a[1], IF b[2] > a[2] THEN b[2] ELSE a[2]>>

\* The part of a region in which the nodes on the other side of a node are.
split_push(right_skew, region, k, i) ==
  IF (i = 1) # right_skew THEN [region EXCEPT ![i] = k[i]] ELSE region

-----------------------------------------------------------------------------
(* Attach *)

Side(left) == IF left THEN "left" ELSE "right"

Direction(t, at, n) == compare(key[at], key[n], t[at].index)

RECURSIVE Merge(_, _, _)
Merge(t, at, n) ==
  LET side == Side(Direction(t, at, n))
  IN  IF t[at][side] = Null
      THEN [t EXCEPT ![at][side] = n, ![n].parent = at]
      ELSE Merge(t, t[at][side], n)

attach(n, i) ==
  /\ n \notin attached
  /\ LET new == [tree EXCEPT ![n] = [Leaf EXCEPT !.index = i]]
     IN  IF root = Null THEN tree' = new /\ root' = n
         ELSE tree' = Merge(new, root, n) /\ UNCHANGED root
  /\ attached' = attached \cup {n} /\ UNCHANGED key

-----------------------------------------------------------------------------
(* Detach *)

RECURSIVE find_minimal(_, _, _), find_maximal(_, _, _)
Better(n, m, i, minimal) == IF minimal THEN compare(key[n], key[m], i) ELSE ~compare(key[n], key[m], i)
find_minimal(t, n, i) ==
  LET l == IF t[n].left = Null THEN n ELSE find_minimal(t, t[n].left, i)
      p == IF Better(n, l, i, TRUE) THEN l ELSE n
      r == IF t[n].index = i \/ t[n].right = Null THEN p ELSE find_minimal(t, t[n].right, i)
  IN  IF Better(p, r, i, TRUE) THEN r ELSE p
find_maximal(t, n, i) ==
  LET l == IF t[n].index = i \/ t[n].left = Null THEN n ELSE find_maximal(t, t[n].left, i)
      p == IF Better(n, l, i, FALSE) THEN l ELSE n
      r == IF t[n].right = Null THEN p ELSE find_maximal(t, t[n].right, i)
  IN  IF Better(p, r, i, FALSE) THEN r ELSE p

\* In the parent of n, if any, m takes the place of n.
Replace(t, n, m) ==
  LET p == t[n].parent
  IN  IF p = Null THEN t ELSE [t EXCEPT ![p][Side(t[p].left = n)] = m]
SetParent(t, n, p) == IF n = Null THEN t ELSE [t EXCEPT ![n].parent = p]

Light(t, n) == t[n].left = Null \/ t[n].right = Null
light_detach(t, n) ==
  LET child == IF t[n].left # Null THEN t[n].left ELSE t[n].right
      moved == Replace(SetParent(t, child, t[n].parent), n, child)
  IN  [moved EXCEPT ![n].left = Null, ![n].right = Null, ![n].parent = Null]

\* selector(left_node, right_node), the same at every node of a detach here.
Replacer(t, n, right) ==
  IF right THEN find_minimal(t, t[n].right, t[n].index) ELSE find_maximal(t, t[n].left, t[n].index)

\* Definitions with the word Wrong are mutations: the mistake in the definition they
\* precede that the property named with them would reveal.

\* QueryFindsAll: the node that takes the place keeps its own key_index.
WrongSwap(t, n, p) ==
  [t EXCEPT ![n] = [t[p] EXCEPT !.index = t[n].index], ![p] = [t[n] EXCEPT !.index = t[p].index]]
Swap(t, n, p) == [t EXCEPT ![n] = t[p], ![p] = t[n]]

Adopt(t, n, p) == SetParent(SetParent(t, t[n].left, p), t[n].right, p)

RECURSIVE Detach(_, _, _)
Detach(t, n, right) ==
  IF Light(t, n) THEN light_detach(t, n)
  ELSE LET p == Replacer(t, n, right)
           u == Replace(Detach(t, p, right), n, p)
       IN  Swap(Adopt(u, n, p), n, p)

\* The new root is returned when the old one was detached.
detach(n, right) ==
  /\ n \in attached
  /\ tree' = Detach(tree, n, right)
  /\ root' = IF n # root THEN root
             ELSE IF ~Light(tree, n) THEN Replacer(tree, n, right)
             ELSE IF tree[n].left # Null THEN tree[n].left ELSE tree[n].right
  /\ attached' = attached \ {n} /\ UNCHANGED key

-----------------------------------------------------------------------------
(* Optimize *)

next_index(i) == 3 - i

RECURSIVE build(_, _, _, _)
build(t, at, order, i) ==
  IF order = <<>> THEN t
  ELSE LET mid == Len(order) \div 2 + 1
           new == Merge([t EXCEPT ![order[mid]].index = i], at, order[mid])
           low == build(new, at, SubSeq(order, 1, mid - 1), next_index(i))
       IN  build(low, at, SubSeq(order, mid + 1, Len(order)), next_index(i))

optimize ==
  /\ root # Null
  /\ \E order \in SetToSeqs(attached) :
       LET mid == Len(order) \div 2 + 1
           cut == [n \in Nodes |-> IF n \in attached THEN [Leaf EXCEPT !.index = tree[n].index] ELSE tree[n]]
           low == build([cut EXCEPT ![order[mid]].index = 1], order[mid], SubSeq(order, 1, mid - 1), 2)
       IN  /\ tree' = build(low, order[mid], SubSeq(order, mid + 1, Len(order)), 2)
           /\ root' = order[mid]
  /\ UNCHANGED <<key, attached>>

Next == (\E n \in Nodes : (\E i \in {1, 2} : attach(n, i)) \/ (\E r \in BOOLEAN : detach(n, r))) \/ optimize
Spec == Init /\ [][Next]_vars

-----------------------------------------------------------------------------
(* Queries: the nodes for which queryer is called, in order *)

RECURSIVE query(_, _, _), culled(_, _, _, _)

descend(n, target, right) ==
  IF right THEN overlap_right(key[n], target, tree[n].index)
           ELSE overlap_left(key[n], target, tree[n].index)

query(n, target, skew) ==
  IF n = Null THEN <<>>
  ELSE LET sub(right) == IF descend(n, target, right) THEN query(tree[n][Side(~right)], target, skew) ELSE <<>>
       IN  <<n>> \o sub(~skew) \o sub(skew)

\* CulledFindsAll: the region is not restored before the loop goes on.
Wrongnext_region(region, narrowed) == narrowed
next_region(region, narrowed) == region

\* culler(box) is whether the box overlaps the one wanted.
culled(n, region, wanted, skew) ==
  IF n = Null \/ ~overlap(region, wanted) THEN <<>>
  ELSE LET narrowed == split_push(skew, region, key[n], tree[n].index)
           found    == IF overlap(key[n], wanted) THEN <<n>> ELSE <<>>
       IN  found \o culled(tree[n][Side(skew)], narrowed, wanted, skew)
                 \o culled(tree[n][Side(~skew)], next_region(region, narrowed), wanted, skew)

-----------------------------------------------------------------------------
(* The tree has the nodes that were attached and not detached, each in one place, and *)
(* the parent of a node is the one above it.                                          *)
LinksAgree ==
  /\ Below(tree, root) = attached
  /\ \A n \in attached :
       /\ tree[n].left # Null => tree[tree[n].left].parent = n
       /\ tree[n].right # Null => tree[tree[n].right].parent = n
       /\ Below(tree, tree[n].left) \cap Below(tree, tree[n].right) = {}
  /\ root # Null => tree[root].parent = Null
  /\ \A n \in Nodes \ attached : tree[n] = [Leaf EXCEPT !.index = tree[n].index]

(* However the tree came about, a query calls queryer once for every box that overlaps *)
(* the target, boxes that only touch it and equal boxes included.                      *)
QueryFindsAll ==
  \A target \in Boxes, skew \in BOOLEAN :
    LET found == query(root, target, skew)
    IN  /\ {n \in attached : overlap(key[n], target)} \subseteq ToSet(found)
        /\ IsInjective(found)

(* The query that narrows a region as it goes down calls queryer for the boxes wanted  *)
(* and no others.                                                                      *)
Everything == IF root = Null THEN <<0, 0>> ELSE FoldSet(LAMBDA n, b : merge_box(b, key[n]), key[root], attached)
CulledFindsAll ==
  \A wanted \in Boxes, skew \in BOOLEAN :
    LET found == culled(root, Everything, wanted, skew)
    IN  ToSet(found) = {n \in attached : overlap(key[n], wanted)} /\ IsInjective(found)
=============================================================================
