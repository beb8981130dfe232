----------------------------- MODULE OrderedSet -----------------------------
(***************************************************************************)
(* What the callers of rbtree.c rely on and the other modules of this      *)
(* project assume when they treat a tree as a set: a key is held once and  *)
(* a node stays until its key is deleted.                                  *)
(***************************************************************************)
EXTENDS Naturals

CONSTANTS
    Node,     \* the nodes callers own
    Key,      \* the sorting key of each node
    Null      \* RBTREE_NULL, also stands for a NULL result

VARIABLES
    members,  \* the nodes in the set
    reply     \* what the last call returned, a node or Null

svars == <<members, reply>>

Holder(k) == {n \in members : Key[n] = k}

SInit == members = {} /\ reply = Null

SInsert(n) ==
    IF Holder(Key[n]) # {}
    THEN members' = members /\ reply' = Null
    ELSE members' = members \cup {n} /\ reply' = n

SDelete(k) ==
    /\ members' = members \ Holder(k)
    /\ IF Holder(k) = {} THEN reply' = Null ELSE reply' \in Holder(k)

SNext ==
    \/ \E n \in Node \ members : SInsert(n)
    \/ \E n \in Node : SDelete(Key[n])

SSpec == SInit /\ [][SNext]_svars
=============================================================================
