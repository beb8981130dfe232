------------------------------ MODULE OlsrMpr -------------------------------
(***************************************************************************)
(* MPR selection of one OLSR node (simnet/olsr/olsr_mpr.c) together with   *)
(* the handlers that change the tables it reads: HELLO reception, link     *)
(* expiry and two-hop tuple expiry.  simnet is single threaded, so the     *)
(* tables change only between two calls of populate_mpr_set; the call      *)
(* itself is one action per phase.                                         *)
(***************************************************************************)
EXTENDS MprSelection

CONSTANTS
    Addr,       \* node addresses, in rbtree order
    own_ip,     \* ctx->conf.own_ip
    Los,        \* pairs of nodes the PHY ever connects; others never hear each other
    AnsnMod     \* 2^16 in the code: ctx->ansn is a uint16_t

ASSUME AddrAssumption == /\ Addr \subseteq Nat
                         /\ IsFiniteSet(Addr)
                         /\ own_ip \in Addr
                         /\ Los \subseteq Addr \X Addr
ASSUME AnsnAssumption == AnsnMod \in Nat \ {0}

Peer == Addr \ {own_ip}

VARIABLES
    status,     \* ctx->neighbor_tree: NeighborElem.status, NONE when absent
    neighbor2,  \* NeighborElem.neighbor2_tree of every peer
    mpr_tree,   \* ctx->mpr_tree
    old_set,    \* populate_mpr_set's old_set
    n1_set,     \* populate_mpr_set's n1_set
    n2_set,     \* populate_mpr_set's n2_set
    ansn,       \* ctx->ansn
    pc          \* where populate_mpr_set stands; "idle" outside the call

vars == <<status, neighbor2, mpr_tree, old_set, n1_set, n2_set, ansn, pc>>
tables == <<status, neighbor2>>
locals == <<old_set, n1_set, n2_set>>

Statuses == {"NONE", "NOT", "SYM", "MPR"}

Selection == [mpr |-> mpr_tree, n1 |-> n1_set, n2 |-> n2_set]

Init ==
    /\ status = [p \in Peer |-> "NONE"]
    /\ neighbor2 = [p \in Peer |-> {}]
    /\ mpr_tree = {} /\ old_set = {} /\ n1_set = {} /\ n2_set = {}
    /\ ansn = 0
    /\ pc = "idle"

(* What a HELLO of p may list: the neighbours p has links with. *)
MayList(p) == {q \in Addr \ {p} : <<p, q>> \in Los}

(* The link to p is symmetric after a HELLO that lists this node, and it   *)
(* stays symmetric (until a timer removes it) after one that does not:     *)
(* populate_linkset and link_elem_asym_timer_set.                          *)
LinkIsSym(p, listed) == own_ip \in listed \/ status[p] \in SymStatus

(* update_neighbor_status: MPR is kept while the link is symmetric. *)
NeighborStatus(old, sym) ==
    IF ~sym THEN "NOT" ELSE IF old = "MPR" THEN old ELSE "SYM"

(* process_olsr_hello for a HELLO of p that lists the addresses listed.    *)
(* Its last statement calls populate_mpr_set, whose opening (fresh         *)
(* mpr_tree, calc_n1_set, calc_n2_set) is part of this step.               *)
RecvHello(p, listed) ==
    /\ pc = "idle"
    /\ <<p, own_ip>> \in Los
    /\ listed \subseteq MayList(p)
    /\ status' = [status EXCEPT ![p] = NeighborStatus(@, LinkIsSym(p, listed))]
    /\ neighbor2' = IF status'[p] \in SymStatus
                    THEN [neighbor2 EXCEPT ![p] = @ \cup (listed \ {own_ip})]
                    ELSE neighbor2
    /\ old_set' = mpr_tree
    /\ LET start == StartSelection(own_ip, status', neighbor2')
       IN  /\ mpr_tree' = start.mpr
           /\ n1_set' = start.n1
           /\ n2_set' = start.n2
    /\ pc' = "unique"
    /\ UNCHANGED ansn

(* link_timer_expire: no link is left, so the neighbour is NOT_NEIGH; the  *)
(* MPR set is not recomputed here.                                         *)
LinkExpire(p) ==
    /\ pc = "idle"
    /\ status[p] # "NONE"
    /\ status' = [status EXCEPT ![p] = "NOT"]
    /\ UNCHANGED <<neighbor2, mpr_tree, locals, ansn, pc>>

(* neigh2_elem_expire: the tuple goes, nothing is recomputed. *)
Neigh2Expire(p, x) ==
    /\ pc = "idle"
    /\ x \in neighbor2[p]
    /\ neighbor2' = [neighbor2 EXCEPT ![p] = @ \ {x}]
    /\ UNCHANGED <<status, mpr_tree, locals, ansn, pc>>

(* The phases store a selection back into the trees. *)
StoreSelection(sel) ==
    /\ mpr_tree' = sel.mpr
    /\ n1_set' = sel.n1
    /\ n2_set' = sel.n2

(* The set_neighbor_status(MPR_NEIGH) calls of a phase. *)
MarkMpr(sel) ==
    status' = [p \in Peer |-> IF p \in sel.mpr THEN "MPR" ELSE status[p]]

(* add_unique_bridge_to_mpr. *)
UniqueStep ==
    /\ pc = "unique"
    /\ LET sel == AddUniqueBridge(Selection, neighbor2)
       IN  StoreSelection(sel) /\ MarkMpr(sel)
    /\ pc' = "greedy"
    /\ UNCHANGED <<neighbor2, old_set, ansn>>

(* One turn of populate_mpr_set_by_reachability's loop. *)
ReachabilityStep ==
    /\ pc = "greedy"
    /\ GreedyContinues(Selection, neighbor2)
    /\ LET sel == GreedyStep(Selection, neighbor2)
       IN  StoreSelection(sel) /\ MarkMpr(sel)
    /\ UNCHANGED <<neighbor2, old_set, ansn, pc>>

(* The rest of populate_mpr_set: check_mpr_set_change, clean_n1_set.  The  *)
(* trees of the call are freed; what remains in n2_set stays visible for   *)
(* the log line "N2 set not empty!!" that follows.                         *)
FinishSelection ==
    /\ pc = "greedy"
    /\ ~GreedyContinues(Selection, neighbor2)
    /\ ansn' = IF old_set # mpr_tree THEN (ansn + 1) % AnsnMod ELSE ansn
    /\ status' = StatusAfter(status, Selection)
    /\ old_set' = {} /\ n1_set' = {}
    /\ pc' = "idle"
    /\ UNCHANGED <<neighbor2, mpr_tree, n2_set>>

Next ==
    \/ \E p \in Peer, listed \in SUBSET Addr : RecvHello(p, listed)
    \/ \E p \in Peer : LinkExpire(p)
    \/ \E p \in Peer, x \in Addr : Neigh2Expire(p, x)
    \/ UniqueStep
    \/ ReachabilityStep
    \/ FinishSelection

(* populate_mpr_set runs to its end once called: no other thread competes. *)
Fairness == WF_vars(UniqueStep \/ ReachabilityStep \/ FinishSelection)

Spec == Init /\ [][Next]_vars
FairSpec == Spec /\ Fairness
-----------------------------------------------------------------------------
TypeOK ==
    /\ status \in [Peer -> Statuses]
    /\ neighbor2 \in [Peer -> SUBSET Peer]
    /\ mpr_tree \subseteq Peer /\ old_set \subseteq Peer
    /\ n1_set \subseteq Peer /\ n2_set \subseteq Peer
    /\ ansn \in 0..(AnsnMod - 1)
    /\ pc \in {"idle", "unique", "greedy"}

(* The strict two-hop neighbours: not symmetric, behind a symmetric one. *)
IsSym(p) == status[p] \in SymStatus
TwoHop == {x \in Peer : ~IsSym(x) /\ \E p \in Peer : IsSym(p) /\ x \in neighbor2[p]}

CallEnds == pc = "greedy" /\ ~GreedyContinues(Selection, neighbor2)

(* Inside a call: the symmetric neighbours are split into selected and     *)
(* candidates, n2_set is exactly the two-hop neighbours no selected MPR    *)
(* bridges, and every selected neighbour carries MPR_NEIGH and bridges one.*)
(* Both phases of olsr_mpr.c keep it; the properties below follow from it. *)
SelectionInv ==
    pc # "idle" =>
        /\ mpr_tree \cup n1_set = {p \in Peer : IsSym(p)}
        /\ mpr_tree \cap n1_set = {}
        /\ n2_set = {x \in TwoHop : \A m \in mpr_tree : x \notin neighbor2[m]}
        /\ \A m \in mpr_tree : status[m] = "MPR" /\ neighbor2[m] \cap TwoHop # {}

(* When populate_mpr_set ends, every strict two-hop neighbour is bridged   *)
(* by a selected MPR, so its error line "N2 set not empty!!" is never      *)
(* reached (olsr_mpr.c:302), whichever neighbours the two phases picked.   *)
MprCoversTwoHop ==
    CallEnds => /\ n2_set = {}
                /\ \A x \in TwoHop : \E m \in mpr_tree : x \in neighbor2[m]

(* Between calls the status a HELLO advertises and the MPR set agree: a    *)
(* neighbour with status MPR_NEIGH is in mpr_tree, and a member of         *)
(* mpr_tree is MPR_NEIGH unless its link has expired since the last call.  *)
StatusMatchesMprSet ==
    pc = "idle" => \A p \in Peer :
        /\ status[p] = "MPR" => p \in mpr_tree
        /\ p \in mpr_tree => status[p] \in {"MPR", "NOT"}

(* Selection keeps MprPromise: the relays the rest of the node sees are    *)
(* those of the last finished call, and each call replaces them by a       *)
(* covering subset of the symmetric neighbours.                            *)
Promise == INSTANCE MprPromise WITH
    sym <- CalcN1(status), beyond <- neighbor2,
    relays <- IF pc = "idle" THEN mpr_tree ELSE old_set
KeepsPromise == Promise!Spec

(* The loop of populate_mpr_set_by_reachability terminates: every call of  *)
(* populate_mpr_set returns.                                               *)
SelectionReturns == pc = "unique" ~> pc = "idle"
=============================================================================
