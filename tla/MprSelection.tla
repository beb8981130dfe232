---------------------------- MODULE MprSelection ----------------------------
(***************************************************************************)
(* The pure part of simnet/olsr/olsr_mpr.c: what populate_mpr_set computes *)
(* from one node's neighbour table.  Addresses are natural numbers in the  *)
(* order of rbtree_compare_by_inetaddr, the order every RBTREE_FOR visits. *)
(*                                                                         *)
(* A selection in progress is a record: mpr (ctx->mpr_tree), n1 and n2     *)
(* (the local n1_set and n2_set).  OlsrMpr runs it step by step;           *)
(* PopulateMprSet below runs it to the end in one evaluation.              *)
(***************************************************************************)
EXTENDS AddrOrder, FiniteSets

(* The neighbour statuses calc_n1_set and the SPF accept as symmetric. *)
SymStatus == {"SYM", "MPR"}

(* calc_n1_set: the symmetric one-hop neighbours. *)
CalcN1(status) == {p \in DOMAIN status : status[p] \in SymStatus}

(* calc_n2_set: strict two-hop neighbours.  neighbor2[p] is p's tree of    *)
(* Neighbor2Elem; one's own address and one-hop neighbours are skipped.    *)
CalcN2(own, n1, neighbor2) ==
    (UNION {neighbor2[p] : p \in n1}) \ (n1 \cup {own})

(* The n1_tree that calc_n2_set collects for the two-hop neighbour x. *)
Bridges(x, n1, neighbor2) == {p \in n1 : x \in neighbor2[p]}

(* selected_mpr_tree: the neighbours that are the only bridge to some x. *)
UniqueBridges(n1, n2, neighbor2) ==
    {p \in n1 : \E x \in n2 : Bridges(x, n1, neighbor2) = {p}}

(* Mutant: m is added to mpr_tree but stays in n1_set, and so does n2_set. *)
SelectWithoutRemoval(sel, m, neighbor2) == [sel EXCEPT !.mpr = @ \cup {m}]

(* Move m from n1_set to mpr_tree; everything m bridges leaves n2_set. *)
Select(sel, m, neighbor2) ==
    [mpr |-> sel.mpr \cup {m},
     n1  |-> sel.n1 \ {m},
     n2  |-> sel.n2 \ neighbor2[m]]

(* populate_mpr_set before its two phases: a fresh, empty mpr_tree. *)
StartSelection(own, status, neighbor2) ==
    LET n1 == CalcN1(status)
    IN  [mpr |-> {}, n1 |-> n1, n2 |-> CalcN2(own, n1, neighbor2)]

(***************************************************************************)
(* add_unique_bridge_to_mpr.  Its second loop walks selected_mpr_tree and  *)
(* inserts the element it stands on, an intrusive node, into the still     *)
(* empty ctx->mpr_tree.  The insertion clears the node's child and parent  *)
(* links, so rbtree_next returns RBTREE_NULL and the loop ends after its   *)
(* first element: one unique bridge is selected, the lowest address.       *)
(***************************************************************************)
AddUniqueBridge(sel, neighbor2) ==
    LET only == UniqueBridges(sel.n1, sel.n2, neighbor2)
    IN  IF only = {} THEN sel ELSE Select(sel, FirstOf(only), neighbor2)

(* calc_reachability: how many of p's two-hop neighbours are uncovered. *)
Reachability(p, n2, neighbor2) == Cardinality(neighbor2[p] \cap n2)

(* Mutant: a neighbour that reaches a single uncovered node is not seen. *)
MaxReachableAboveOne(sel, neighbor2) ==
    {p \in sel.n1 :
        /\ Reachability(p, sel.n2, neighbor2) > 1
        /\ \A q \in sel.n1 : Reachability(q, sel.n2, neighbor2)
                                <= Reachability(p, sel.n2, neighbor2)}

(* The neighbours get_max_reachablilty_neigh may return, NULL when none: *)
(* reachability above zero and no other neighbour above it.              *)
MaxReachable(sel, neighbor2) ==
    {p \in sel.n1 :
        /\ Reachability(p, sel.n2, neighbor2) > 0
        /\ \A q \in sel.n1 : Reachability(q, sel.n2, neighbor2)
                                <= Reachability(p, sel.n2, neighbor2)}

(* The condition under which populate_mpr_set_by_reachability goes on. *)
GreedyContinues(sel, neighbor2) ==
    sel.n2 # {} /\ MaxReachable(sel, neighbor2) # {}

(* One turn of that loop; of equals the first in address order wins. *)
GreedyStep(sel, neighbor2) ==
    Select(sel, FirstOf(MaxReachable(sel, neighbor2)), neighbor2)

(* Mutant: clean_n1_set does not reset the status of the neighbours left. *)
StatusAfterNoReset(status, sel) ==
    [p \in DOMAIN status |-> IF p \in sel.mpr THEN "MPR" ELSE status[p]]

(* The statuses after a selection: set_neighbor_status(MPR_NEIGH) for the  *)
(* chosen, and clean_n1_set's SYM_NEIGH for what is left of n1_set.        *)
StatusAfter(status, sel) ==
    [p \in DOMAIN status |-> IF p \in sel.mpr THEN "MPR"
                             ELSE IF p \in sel.n1 THEN "SYM"
                             ELSE status[p]]

(* populate_mpr_set's selection in one evaluation: at most one greedy turn *)
(* per one-hop neighbour.                                                  *)
PopulateMprSet(own, status, neighbor2) ==
    LET start == StartSelection(own, status, neighbor2)
        turn[k \in Nat] ==
            IF k = 0 THEN AddUniqueBridge(start, neighbor2)
            ELSE LET sel == turn[k - 1]
                 IN  IF GreedyContinues(sel, neighbor2)
                     THEN GreedyStep(sel, neighbor2) ELSE sel
    IN  turn[Cardinality(start.n1)]
=============================================================================
