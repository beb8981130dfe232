----------------------------- MODULE MprPromise -----------------------------
(***************************************************************************)
(* What MPR selection promises to the rest of OLSR: whenever a node        *)
(* reselects, its relays are symmetric neighbours that together reach      *)
(* every strict two-hop neighbour.  Which relays are picked is left open.  *)
(***************************************************************************)
CONSTANTS Addr, own_ip

VARIABLES
    sym,      \* symmetric neighbours
    beyond,   \* beyond[p]: the nodes p has told it can reach
    relays    \* the advertised MPR set

Peers == Addr \ {own_ip}
vars == <<sym, beyond, relays>>

Init == sym = {} /\ beyond = [p \in Peers |-> {}] /\ relays = {}

(* The neighbourhood moves on; the relays are not reconsidered. *)
NeighborhoodChanges ==
    /\ sym' \in SUBSET Peers
    /\ beyond' \in [Peers -> SUBSET Peers]
    /\ UNCHANGED relays

(* x is two hops away and the relays R reach it. *)
StrictTwoHop(x) == x \notin sym /\ \E p \in sym : x \in beyond[p]
ReachedBy(R, x) == \E m \in R : x \in beyond[m]

Reselect ==
    /\ relays' \in SUBSET sym
    /\ \A x \in Peers : StrictTwoHop(x) => ReachedBy(relays', x)
    /\ UNCHANGED <<sym, beyond>>

Next == NeighborhoodChanges \/ Reselect

Spec == Init /\ [][Next]_vars
=============================================================================
