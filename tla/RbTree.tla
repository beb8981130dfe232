------------------------------- MODULE RbTree -------------------------------
(***************************************************************************)
(* ext/timerqueue/rbtree.c, the intrusive red-black tree under every set   *)
(* of the simulator: neighbours, links, duplicate and topology sets,       *)
(* routing tables and the timer queue.  Links and colours are pointers in  *)
(* the callers' nodes; all trees share one null node, which the code reads *)
(* like any other and must never write.  An operator takes a tree and      *)
(* returns the tree after the call; what the code writes twice, once for   *)
(* each side, is one operator with the side as a parameter.                *)
(***************************************************************************)
EXTENDS Naturals, Sequences, FiniteSets

CONSTANTS
    Node,     \* memory cells of nodes that callers may insert
    Key,      \* the sorting key of each node: several may have the same
    Null      \* rbtree_null_node

ASSUME NodeAssumption == /\ Null \notin Node
                         /\ IsFiniteSet(Node)
                         /\ Key \in [Node -> Nat]

Side == {"left", "right"}
Other(s) == IF s = "left" THEN "right" ELSE "left"
Cell == Node \cup {Null}

VARIABLES
    tree,     \* root and count, and the fields of all nodes, null included
    reply     \* what the last call returned, a node or Null

vars == <<tree, reply>>

(* rbtree_create and rbtree_init, with rbtree_null_node as it is defined;  *)
(* callers' nodes start out unlinked.                                      *)
EmptyTree ==
    [root |-> Null, count |-> 0,
     parent |-> [c \in Cell |-> Null],
     kid |-> [s \in Side |-> [c \in Cell |-> Null]],
     color |-> [c \in Cell |-> "black"]]

Init == tree = EmptyTree /\ reply = Null
-----------------------------------------------------------------------------
(* Mutant: the null node gets a parent when the middle subtree is empty. *)
RotateTouchesNull(t, n, s) ==
    LET up == t.kid[Other(s)][n]
        mid == t.kid[s][up]
        p == t.parent[n]
        at == IF n = t.kid[s][p] THEN s ELSE Other(s)
    IN  [t EXCEPT !.root = IF p = Null THEN up ELSE @,
                  !.parent = [@ EXCEPT ![mid] = n, ![up] = p, ![n] = up],
                  !.kid = [@ EXCEPT ![Other(s)][n] = mid,
                                    ![at][p] = IF p = Null THEN @ ELSE up,
                                    ![s][up] = n]]

(* rbtree_rotate_left (s = "left") and rbtree_rotate_right: n sinks to     *)
(* side s and its child on the other side takes its place.                 *)
Rotate(t, n, s) ==
    LET up == t.kid[Other(s)][n]
        mid == t.kid[s][up]
        p == t.parent[n]
        at == IF n = t.kid[s][p] THEN s ELSE Other(s)
    IN  [t EXCEPT !.root = IF p = Null THEN up ELSE @,
                  !.parent = [@ EXCEPT ![mid] = IF mid = Null THEN @ ELSE n,
                                       ![up] = p, ![n] = up],
                  !.kid = [@ EXCEPT ![Other(s)][n] = mid,
                                    ![at][p] = IF p = Null THEN @ ELSE up,
                                    ![s][up] = n]]

Paint(t, n, c) == [t EXCEPT !.color[n] = c]

(* Repaint n's parent and grandparent and turn the grandparent to side s:  *)
(* the last part of a turn of rbtree_insert_fixup.                         *)
LiftParent(t, n, s) ==
    LET p == t.parent[n]
        g == t.parent[p]
    IN  Rotate(Paint(Paint(t, p, "black"), g, "red"), g, s)

(* rbtree_insert_fixup. *)
RECURSIVE InsertFixup(_, _)
InsertFixup(t, n) ==
    LET p == t.parent[n]
        g == t.parent[p]
        s == IF p = t.kid["left"][g] THEN "left" ELSE "right"
        uncle == t.kid[Other(s)][g]
    IN  IF n = t.root \/ t.color[p] # "red" THEN Paint(t, t.root, "black")
        ELSE IF t.color[uncle] = "red"
        THEN InsertFixup(Paint(Paint(Paint(t, p, "black"), uncle, "black"), g, "red"), g)
        ELSE IF n = t.kid[Other(s)][p]
        THEN InsertFixup(LiftParent(Rotate(t, p, s), p, Other(s)), p)
        ELSE InsertFixup(LiftParent(t, n, Other(s)), n)

(* The loop of rbtree_insert from n down: the node with key k if there is  *)
(* one, else the node to hang the new one on.                              *)
RECURSIVE NewParent(_, _, _, _)
NewParent(t, k, n, p) ==
    IF n = Null THEN p
    ELSE IF Key[n] = k THEN n
    ELSE NewParent(t, k, IF k < Key[n] THEN t.kid["left"][n] ELSE t.kid["right"][n], n)

(* rbtree_insert: the tree afterwards, the same tree for a duplicate. *)
Inserted(t, n) ==
    LET p == NewParent(t, Key[n], t.root, Null)
        s == IF p # Null /\ Key[n] < Key[p] THEN "left" ELSE "right"
    IN  IF p # Null /\ Key[p] = Key[n] THEN t
        ELSE InsertFixup([t EXCEPT !.root = IF p = Null THEN n ELSE @,
                                   !.count = @ + 1,
                                   !.parent[n] = p,
                                   !.kid = [@ EXCEPT !["left"][n] = Null, !["right"][n] = Null,
                                                     ![s][p] = IF p = Null THEN @ ELSE n],
                                   !.color[n] = "red"], n)
-----------------------------------------------------------------------------
(* rbtree_find_less_equal from n down, best being *result so far. *)
RECURSIVE FindLessEqual(_, _, _, _)
FindLessEqual(t, k, n, best) ==
    IF n = Null THEN best
    ELSE IF Key[n] = k THEN n
    ELSE IF k < Key[n] THEN FindLessEqual(t, k, t.kid["left"][n], best)
    ELSE FindLessEqual(t, k, t.kid["right"][n], n)

(* rbtree_search: NULL unless the match is exact. *)
Search(t, k) ==
    LET n == FindLessEqual(t, k, t.root, Null)
    IN  IF n # Null /\ Key[n] = k THEN n ELSE Null

(* Follow links to side s as far as they go: the loops of rbtree_first and *)
(* rbtree_last, and those inside rbtree_next, _previous and _delete.       *)
RECURSIVE Outermost(_, _, _)
Outermost(t, n, s) ==
    IF t.kid[s][n] = Null THEN n ELSE Outermost(t, t.kid[s][n], s)

(* The first ancestor that is not reached from its side s. *)
RECURSIVE Climb(_, _, _)
Climb(t, n, s) ==
    LET p == t.parent[n]
    IN  IF p # Null /\ n = t.kid[s][p] THEN Climb(t, p, s) ELSE p

(* Mutant: there is no way up from a child on side s. *)
StepNoClimb(t, n, s) ==
    LET p == t.parent[n]
    IN  IF t.kid[s][n] # Null THEN Outermost(t, t.kid[s][n], Other(s))
        ELSE IF p # Null /\ n = t.kid[s][p] THEN Null ELSE p

(* rbtree_next (s = "right") and rbtree_previous (s = "left"). *)
Step(t, n, s) ==
    IF t.kid[s][n] # Null THEN Outermost(t, t.kid[s][n], Other(s)) ELSE Climb(t, n, s)

(* RBTREE_FOR from n on, and its counterpart with rbtree_previous. *)
RECURSIVE WalkFrom(_, _, _)
WalkFrom(t, n, s) == IF n = Null THEN <<>> ELSE <<n>> \o WalkFrom(t, Step(t, n, s), s)

(* traverse_postorder: the order in which func sees the nodes. *)
RECURSIVE Postorder(_, _)
Postorder(t, n) ==
    IF n = Null THEN <<>>
    ELSE Postorder(t, t.kid["left"][n]) \o Postorder(t, t.kid["right"][n]) \o <<n>>
-----------------------------------------------------------------------------
(* change_parent_ptr: p's link to old leads to new. *)
ChangeParentPtr(t, p, old, new) ==
    IF p = Null
    THEN [t EXCEPT !.root = IF @ = old THEN new ELSE @]
    ELSE [t EXCEPT !.kid = [s \in Side |-> [@[s] EXCEPT ![p] = IF @ = old THEN new ELSE @]]]

(* change_child_ptr: c's parent is new if it was old. *)
ChangeChildPtr(t, c, old, new) ==
    IF c # Null /\ t.parent[c] = old THEN [t EXCEPT !.parent[c] = new] ELSE t

(* The outer links of d and of the leftmost node m of its right subtree    *)
(* change over, those between the two excepted.                            *)
SwapOuterLinks(t, d, m) ==
    LET adjacent == t.kid["right"][d] = m
        a == ChangeParentPtr(t, t.parent[d], d, m)
        b == IF adjacent THEN a ELSE ChangeParentPtr(a, a.parent[m], m, d)
        c == ChangeChildPtr(ChangeChildPtr(b, b.kid["left"][m], m, d), b.kid["right"][m], m, d)
        e == ChangeChildPtr(c, c.kid["left"][d], d, m)
    IN  IF adjacent THEN e ELSE ChangeChildPtr(e, e.kid["right"][d], d, m)

Swapped(f, x, y) == [f EXCEPT ![x] = f[y], ![y] = f[x]]

(* Mutant: the colours move with the nodes. *)
SwapWithSuccessorColoured(t, d, m) ==
    LET o == SwapOuterLinks(t, d, m)
        l == IF o.kid["right"][d] = m
             THEN [o EXCEPT !.kid["right"][d] = d, !.parent[m] = m] ELSE o
    IN  [l EXCEPT !.parent = Swapped(@, d, m),
                  !.kid = [s \in Side |-> Swapped(@[s], d, m)]]

(* The first part of rbtree_delete for a node d with two children: d and m *)
(* change places, colours stay where they are.                             *)
SwapWithSuccessor(t, d, m) ==
    LET o == SwapOuterLinks(t, d, m)
        l == IF o.kid["right"][d] = m
             THEN [o EXCEPT !.kid["right"][d] = d, !.parent[m] = m] ELSE o
    IN  [l EXCEPT !.parent = Swapped(@, d, m),
                  !.kid = [s \in Side |-> Swapped(@[s], d, m)],
                  !.color = Swapped(@, d, m)]

SideOf(t, child, p) == IF t.kid["right"][p] = child THEN "right" ELSE "left"
SiblingOf(t, child, p) == t.kid[Other(SideOf(t, child, p))][p]
BlackKids(t, n) == \A s \in Side : t.color[t.kid[s][n]] = "black"
PaintReal(t, n, c) == IF n = Null THEN t ELSE Paint(t, n, c)

(* The end of rbtree_delete_fixup: the red of p moves to the sibling, or a *)
(* red child of the sibling, brought to the far side first if need be, is  *)
(* used to make up for the black that child's side lacks.                  *)
EndDeleteFixup(t, child, p) ==
    LET s == SideOf(t, child, p)
        sib == SiblingOf(t, child, p)
        near == t.kid[s][sib]
        u == IF /\ t.color[sib] = "black"
                /\ t.color[near] = "red"
                /\ t.color[t.kid[Other(s)][sib]] = "black"
             THEN Rotate(Paint(Paint(t, sib, "red"), near, "black"), sib, Other(s)) ELSE t
        sib2 == SiblingOf(u, child, p)
        v == Paint(Paint(u, sib2, u.color[p]), p, "black")
    IN  IF t.color[p] = "red" /\ t.color[sib] = "black" /\ BlackKids(t, sib)
        THEN Paint(PaintReal(t, sib, "red"), p, "black")
        ELSE Rotate(Paint(v, v.kid[Other(s)][sib2], "black"), p, s)

(* rbtree_delete_fixup: child's subtree under p is one black short. *)
RECURSIVE DeleteFixup(_, _, _)
DeleteFixup(t, child, p) ==
    LET sib == SiblingOf(t, child, p)
        u == IF t.color[sib] = "red"
             THEN Rotate(Paint(Paint(t, p, "red"), sib, "black"), p, SideOf(t, child, p)) ELSE t
        sib2 == SiblingOf(u, child, p)
    IN  IF p = Null THEN t
        ELSE IF u.color[p] = "black" /\ u.color[sib2] = "black" /\ BlackKids(u, sib2)
        THEN DeleteFixup(PaintReal(u, sib2, "red"), p, u.parent[p])
        ELSE EndDeleteFixup(u, child, p)

(* The second part of rbtree_delete: d, with one child at most, is         *)
(* replaced by it.                                                         *)
Unlinked(t, d) ==
    LET child == IF t.kid["left"][d] # Null THEN t.kid["left"][d] ELSE t.kid["right"][d]
        p == t.parent[d]
        u == ChangeChildPtr(ChangeParentPtr(t, p, d, child), child, d, p)
    IN  IF u.color[d] = "red" THEN u
        ELSE IF u.color[child] = "red" THEN PaintReal(u, child, "black")
        ELSE DeleteFixup(u, child, p)

(* rbtree_delete of a node d that was found: the links of d are cleared in *)
(* the end.                                                                *)
Deleted(t, d) ==
    LET two == \A s \in Side : t.kid[s][d] # Null
        u == IF two THEN SwapWithSuccessor(t, d, Outermost(t, t.kid["right"][d], "left")) ELSE t
    IN  [Unlinked(u, d) EXCEPT !.count = @ - 1,
                               !.parent[d] = Null,
                               !.kid = [s \in Side |-> [@[s] EXCEPT ![d] = Null]],
                               !.color[d] = "black"]
-----------------------------------------------------------------------------
Members == LET seq == Postorder(tree, tree.root) IN {seq[i] : i \in 1..Len(seq)}

(* Mutant: a duplicate is reported as inserted. *)
InsertAlwaysSucceeds(n) ==
    /\ n \notin Members
    /\ tree' = Inserted(tree, n)
    /\ reply' = n

(* A node that is in no tree is inserted; callers never insert one twice.  *)
Insert(n) ==
    /\ n \notin Members
    /\ tree' = Inserted(tree, n)
    /\ reply' = IF tree' = tree THEN Null ELSE n

Delete(k) ==
    LET d == Search(tree, k)
    IN  /\ tree' = IF d = Null THEN tree ELSE Deleted(tree, d)
        /\ reply' = d

Next == \E n \in Node : Insert(n) \/ Delete(Key[n])

Spec == Init /\ [][Next]_vars
-----------------------------------------------------------------------------
(* Black nodes on each way from n down, 0 when two ways differ or a link   *)
(* is not mirrored by a parent pointer; the null node counts as one.       *)
RECURSIVE BlackHeight(_)
BlackHeight(n) ==
    LET kids == {tree.kid[s][n] : s \in Side}
        heights == {BlackHeight(c) : c \in kids}
        own == IF tree.color[n] = "black" THEN 1 ELSE 0
    IN  IF n = Null THEN 1
        ELSE IF /\ Cardinality(heights) = 1 /\ 0 \notin heights
                /\ \A c \in kids \ {Null} : tree.parent[c] = n
        THEN own + CHOOSE h \in heights : TRUE
        ELSE 0

(* After every call the tree is a red-black tree: the root is black, a red *)
(* node has no red child, all ways down have the same number of black      *)
(* nodes, and count is right.  The fixups of insertion and deletion must   *)
(* restore this for every shape, or searches degrade and later fixups read *)
(* siblings that are not there.                                            *)
RedBlack ==
    /\ tree.color[tree.root] = "black" /\ tree.parent[tree.root] = Null
    /\ \A n \in Members : tree.color[n] = "red" => BlackKids(tree, n)
    /\ BlackHeight(tree.root) > 0
    /\ tree.count = Cardinality(Members)

(* No call writes to the null node that all trees share, and a node that   *)
(* has left the tree keeps no pointer into it.                             *)
NothingDangles ==
    \A c \in Cell \ Members :
        /\ tree.parent[c] = Null
        /\ \A s \in Side : tree.kid[s][c] = Null
        /\ tree.color[c] = "black"

(* What the calls that only look return.  rbtree_search and                *)
(* rbtree_find_less_equal find the member with the greatest key up to k;   *)
(* RBTREE_FOR and its reverse visit every member once, in order;           *)
(* traverse_postorder comes to a node after both its children, so that a   *)
(* callback may free it.                                                   *)
LooksAreRight ==
    LET up == WalkFrom(tree, Outermost(tree, tree.root, "left"), "right")
        down == WalkFrom(tree, Outermost(tree, tree.root, "right"), "left")
        post == Postorder(tree, tree.root)
        size == Cardinality(Members)
        found(k) == FindLessEqual(tree, k, tree.root, Null)
    IN  /\ Len(up) = size /\ Len(down) = size /\ Len(post) = size
        /\ {up[i] : i \in 1..Len(up)} = Members
        /\ \A i \in 2..size : Key[up[i - 1]] < Key[up[i]]
        /\ \A i \in 1..size : down[i] = up[size + 1 - i]
        /\ \A i, j \in 1..size : tree.parent[post[i]] = post[j] => i < j
        /\ \A m \in Node :
              LET k == Key[m]
                  below == {n \in Members : Key[n] <= k}
              IN  /\ IF below = {} THEN found(k) = Null
                     ELSE found(k) \in below /\ \A n \in below : Key[n] <= Key[found(k)]
                  /\ Search(tree, k) = IF \E n \in Members : Key[n] = k THEN found(k) ELSE Null

Promise == INSTANCE OrderedSet WITH members <- Members

(* To its callers the tree is a set of nodes with distinct keys: insertion *)
(* refuses exactly the keys that are held, deletion removes and returns    *)
(* the holder of a key and nothing else.                                   *)
IsOrderedSet == Promise!SSpec
=============================================================================
