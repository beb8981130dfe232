----------------------------- MODULE OlsrHello ------------------------------
(***************************************************************************)
(* Link sensing between OLSR nodes (simnet/olsr: olsr_hello.c,             *)
(* olsr_link.c, olsr_neighbor.c): periodic HELLOs over links that may lose *)
(* them, the link, neighbour, two-hop and MPR-selector sets they maintain, *)
(* and the timers that take entries away again.                            *)
(*                                                                         *)
(* Time advances in HELLO intervals: between two ticks every node sends    *)
(* one HELLO.  A timer counts the intervals it has left.  At zero it is    *)
(* due; its callback and the reception of a HELLO that would renew it can  *)
(* come in either order, the next tick only after both.                    *)
(***************************************************************************)
EXTENDS MprSelection, Integers

CONSTANTS
    Node,     \* node addresses, in rbtree order
    Radios,   \* the radio conditions to consider, see RadioConditions
    VTime     \* DEF_HELLO_VTIME in HELLO intervals; 3 in the code

(* The pairs <<n, m>> such that m can receive what n sends, and those of   *)
(* them over which the PHY loses packets for a time.                       *)
RadioConditions == [reach : SUBSET (Node \X Node), lossy : SUBSET (Node \X Node)]

ASSUME HelloAssumption == /\ Node \subseteq Nat
                          /\ IsFiniteSet(Node)
                          /\ Radios \subseteq RadioConditions
                          /\ VTime \in Nat \ {0}

VARIABLES
    radio,          \* the radio conditions, chosen at the start
    link,           \* LinkElem.status per node and neighbour, NONE when absent
    expire_timer,   \* LinkElem.expire_timer; asym_timer is always set with it,
                    \* to the same time and with the same callback
    sym_timer,      \* LinkElem.sym_timer
    status,         \* NeighborElem.status, NONE when absent
    neigh2_timer,   \* Neighbor2Elem.expire_timer per neighbour and address
    selector_timer, \* MprSelectorElem.expire_timer
    mpr_tree,       \* ctx->mpr_tree
    air,            \* HELLOs sent and not yet received
    sent,           \* nodes that have sent their HELLO of this interval
    calm,           \* TRUE once no HELLO is lost any more
    silence         \* history: intervals since a node last received from another

vars == <<radio, link, expire_timer, sym_timer, status, neigh2_timer, selector_timer,
          mpr_tree, air, sent, calm, silence>>

Off == -1         \* a timer that does not exist
PerPair(v) == [n \in Node |-> [m \in Node |-> v]]

(* The counter of silence stops where SymIsRecent no longer looks. *)
MaxSilence == 2 * VTime + 1

Neighbor2(n) == [p \in Node |-> {x \in Node : neigh2_timer[n][p][x] # Off}]
Selectors(n) == {m \in Node : selector_timer[n][m] # Off}

Init ==
    /\ radio \in Radios
    /\ link = PerPair("NONE") /\ status = PerPair("NONE")
    /\ expire_timer = PerPair(Off) /\ sym_timer = PerPair(Off)
    /\ selector_timer = PerPair(Off)
    /\ neigh2_timer = PerPair([x \in Node |-> Off])
    /\ mpr_tree = [n \in Node |-> {}]
    /\ air = {} /\ sent = {} /\ calm = FALSE
    /\ silence = PerPair(MaxSilence)
-----------------------------------------------------------------------------
(* Mutant: a HELLO lists every neighbour, the ones without a link too. *)
HelloOfNeighbors(n) ==
    {[addr |-> m, neigh |-> status[n][m]] : m \in {q \in Node : status[n][q] # "NONE"}}

(* Mutant: a HELLO lists symmetric links only. *)
HelloOfSymLinks(n) ==
    {[addr |-> m, neigh |-> status[n][m]] : m \in {q \in Node : link[n][q] = "SYM"}}

(* build_olsr_hello: every link with the status of its neighbour.  The     *)
(* links are ASYM_LINK or SYM_LINK, which populate_linkset treats alike.   *)
Hello(n) ==
    {[addr |-> m, neigh |-> status[n][m]] : m \in {q \in Node : link[n][q] # "NONE"}}

InRange(n) == {m \in Node : <<n, m>> \in radio.reach}
MayMiss(n) == IF calm THEN {} ELSE {m \in Node : <<n, m>> \in radio.lossy}

(* hello_timer_cb and the transmission: each node in range gets the HELLO  *)
(* or, over a lossy link and unless losses have ended, misses it.          *)
SendHello(n) ==
    /\ n \notin sent
    /\ \E missed \in SUBSET MayMiss(n) :
          air' = air \cup {[from |-> n, to |-> m, info |-> Hello(n)] :
                           m \in InRange(n) \ missed}
    /\ sent' = sent \cup {n}
    /\ UNCHANGED <<radio, link, expire_timer, sym_timer, status, neigh2_timer,
                   selector_timer, mpr_tree, calm, silence>>

(* Mutant: a running sym_timer is not set again. *)
SymTimerSetOnce(old, listed) == IF listed /\ old = Off THEN VTime ELSE old

(* link_elem_sym_timer_set, called when the HELLO lists its receiver. *)
SymTimerSet(old, listed) == IF listed THEN VTime ELSE old

(* update_neighbor_status: MPR is kept while the link is symmetric. *)
NeighborStatus(old, sym) ==
    IF ~sym THEN "NOT" ELSE IF old = "MPR" THEN old ELSE "SYM"

(* process_olsr_hello at n for a HELLO of p, populate_mpr_set included. *)
RecvHello(msg) ==
    LET n == msg.to
        p == msg.from
        listed == \E e \in msg.info : e.addr = n
        others == {e.addr : e \in msg.info} \ {n}
    IN
    /\ air' = air \ {msg}
    /\ link' = [link EXCEPT ![n][p] = IF listed \/ @ = "SYM" THEN "SYM" ELSE "ASYM"]
    /\ expire_timer' = [expire_timer EXCEPT ![n][p] = VTime]
    /\ sym_timer' = [sym_timer EXCEPT ![n][p] = SymTimerSet(@, listed)]
    /\ selector_timer' = [selector_timer EXCEPT ![n][p] =
                             IF [addr |-> n, neigh |-> "MPR"] \in msg.info THEN VTime ELSE @]
    /\ LET stat == [status[n] EXCEPT ![p] = NeighborStatus(@, link'[n][p] = "SYM")]
           sel == PopulateMprSet(n, stat, Neighbor2(n)')
       IN  /\ neigh2_timer' = IF stat[p] \in SymStatus
                              THEN [neigh2_timer EXCEPT ![n][p] =
                                      [x \in Node |-> IF x \in others THEN VTime ELSE @[x]]]
                              ELSE neigh2_timer
           /\ mpr_tree' = [mpr_tree EXCEPT ![n] = sel.mpr]
           /\ status' = [status EXCEPT ![n] = StatusAfter(stat, sel)]
    /\ silence' = [silence EXCEPT ![n][p] = 0]
    /\ UNCHANGED <<radio, sent, calm>>
-----------------------------------------------------------------------------
(* Mutant: the neighbour keeps its status when its link expires. *)
LinkExpireOnly(n, p) ==
    /\ expire_timer[n][p] = 0 \/ sym_timer[n][p] = 0
    /\ link' = [link EXCEPT ![n][p] = "NONE"]
    /\ expire_timer' = [expire_timer EXCEPT ![n][p] = Off]
    /\ sym_timer' = [sym_timer EXCEPT ![n][p] = Off]
    /\ UNCHANGED <<radio, status, neigh2_timer, selector_timer, mpr_tree, air, sent, calm, silence>>

(* link_timer_expire, the callback of all three timers of a link: the link *)
(* and its timers go, update_neighbor_status finds no link.                *)
LinkExpire(n, p) ==
    /\ expire_timer[n][p] = 0 \/ sym_timer[n][p] = 0
    /\ link' = [link EXCEPT ![n][p] = "NONE"]
    /\ expire_timer' = [expire_timer EXCEPT ![n][p] = Off]
    /\ sym_timer' = [sym_timer EXCEPT ![n][p] = Off]
    /\ status' = [status EXCEPT ![n][p] = "NOT"]
    /\ UNCHANGED <<radio, neigh2_timer, selector_timer, mpr_tree, air, sent, calm, silence>>

(* neigh2_elem_expire. *)
Neigh2Expire(n, p, x) ==
    /\ neigh2_timer[n][p][x] = 0
    /\ neigh2_timer' = [neigh2_timer EXCEPT ![n][p][x] = Off]
    /\ UNCHANGED <<radio, link, expire_timer, sym_timer, status, selector_timer,
                   mpr_tree, air, sent, calm, silence>>

(* mpr_selector_expire. *)
SelectorExpire(n, p) ==
    /\ selector_timer[n][p] = 0
    /\ selector_timer' = [selector_timer EXCEPT ![n][p] = Off]
    /\ UNCHANGED <<radio, link, expire_timer, sym_timer, status, neigh2_timer,
                   mpr_tree, air, sent, calm, silence>>

Due(n, p) ==
    \/ 0 \in {expire_timer[n][p], sym_timer[n][p], selector_timer[n][p]}
    \/ \E x \in Node : neigh2_timer[n][p][x] = 0

CountDown(timers) ==
    [n \in Node |-> [m \in Node |-> IF timers[n][m] = Off THEN Off ELSE timers[n][m] - 1]]

(* One HELLO interval passes. *)
Tick ==
    /\ sent = Node
    /\ air = {} /\ \A n, m \in Node : ~Due(n, m)
    /\ expire_timer' = CountDown(expire_timer)
    /\ sym_timer' = CountDown(sym_timer)
    /\ selector_timer' = CountDown(selector_timer)
    /\ neigh2_timer' = [n \in Node |-> CountDown(neigh2_timer[n])]
    /\ silence' = [n \in Node |-> [m \in Node |->
                     IF silence[n][m] < MaxSilence THEN silence[n][m] + 1 ELSE MaxSilence]]
    /\ sent' = {}
    /\ UNCHANGED <<radio, link, status, mpr_tree, air, calm>>

(* From here on the PHY delivers everything. *)
Settle ==
    /\ ~calm
    /\ calm' = TRUE
    /\ UNCHANGED <<radio, link, expire_timer, sym_timer, status, neigh2_timer,
                   selector_timer, mpr_tree, air, sent, silence>>

Next ==
    \/ \E n \in Node : SendHello(n)
    \/ \E msg \in air : RecvHello(msg)
    \/ \E n, p \in Node : LinkExpire(n, p)
    \/ \E n, p, x \in Node : Neigh2Expire(n, p, x)
    \/ \E n, p \in Node : SelectorExpire(n, p)
    \/ Tick
    \/ Settle

(* Timers fire, messages in a queue are read and time passes: each node is *)
(* a loop over mq_recv and timerqueue_work.                                *)
Progress ==
    \/ \E n \in Node : SendHello(n)
    \/ \E msg \in air : RecvHello(msg)
    \/ \E n, p \in Node : LinkExpire(n, p) \/ SelectorExpire(n, p)
    \/ \E n, p, x \in Node : Neigh2Expire(n, p, x)
    \/ Tick

Spec == Init /\ [][Next]_vars
FairSpec == Spec /\ WF_vars(Progress)
-----------------------------------------------------------------------------
Timer == [Node -> [Node -> Off..VTime]]

TypeOK ==
    /\ link \in [Node -> [Node -> {"NONE", "ASYM", "SYM"}]]
    /\ status \in [Node -> [Node -> {"NONE", "NOT", "SYM", "MPR"}]]
    /\ expire_timer \in Timer /\ sym_timer \in Timer /\ selector_timer \in Timer
    /\ neigh2_timer \in [Node -> Timer]
    /\ mpr_tree \in [Node -> SUBSET Node]
    /\ \A msg \in air : <<msg.from, msg.to>> \in radio.reach
    /\ sent \subseteq Node /\ calm \in BOOLEAN
    /\ silence \in [Node -> [Node -> 0..MaxSilence]]

(* A neighbour counts as symmetric exactly while its link does, whichever  *)
(* of reception, selection and expiry happened last; tables and timers     *)
(* keep their types.                                                       *)
NeighborFollowsLink ==
    TypeOK /\ \A n, m \in Node : status[n][m] \in SymStatus <=> link[n][m] = "SYM"

(* A node takes a link for symmetric only if the other end has received    *)
(* from it within two hold times: one until the other end forgets the      *)
(* link, one until its last HELLO that mentioned it is forgotten.          *)
SymIsRecent ==
    \A n, m \in Node : link[n][m] = "SYM" => silence[m][n] <= 2 * VTime

(* A node that has been selected as MPR and forwards for its selector      *)
(* still has the link to it, unless the selector entry is about to expire  *)
(* as well: no timer of the link can run out before the selector's.        *)
SelectorHasLink ==
    \A n, m \in Node :
        selector_timer[n][m] > 0 => link[n][m] = "SYM"

(* Both nodes can receive what the other sends. *)
TwoWay(n, m) == {<<n, m>>, <<m, n>>} \subseteq radio.reach

(* What link sensing is for: over every two-way radio link both ends are   *)
(* symmetric, over no other one; two-hop neighbours are covered by MPRs,   *)
(* and each MPR knows who selected it.                                     *)
Converged ==
    /\ \A n, m \in Node : link[n][m] = "SYM" <=> TwoWay(n, m)
    /\ \A n, x \in Node :
          (n # x /\ ~TwoWay(n, x) /\ \E m \in Node : TwoWay(n, m) /\ TwoWay(m, x))
              => \E m \in mpr_tree[n] : TwoWay(n, m) /\ TwoWay(m, x)
    /\ \A n, m \in Node : n \in Selectors(m) <=> m \in mpr_tree[n]

(* Once losses end the network converges and stays converged, whatever     *)
(* stale links, selectors and running timers the losses have left behind.  *)
Convergence == calm ~> []Converged
=============================================================================
