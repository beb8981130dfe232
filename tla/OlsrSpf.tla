------------------------------ MODULE OlsrSpf -------------------------------
(***************************************************************************)
(* calc_routing_table (simnet/olsr/olsr_spf.c): the breadth-first route    *)
(* computation of one node, its callers, and the per-destination routing   *)
(* statistics it maintains.  simnet is single threaded: neighbours and     *)
(* topology change between two calculations only.  A calculation is one    *)
(* action per turn of its loops, because what it must keep (routes are     *)
(* simple, shortest, and comparable with the old ones) depends on the      *)
(* order in which the queue and the table grow.                            *)
(***************************************************************************)
EXTENDS AddrOrder, Sequences

CONSTANTS
    Addr,     \* node addresses, in rbtree order
    own_ip,   \* ctx->conf.own_ip
    Links,    \* pairs <<n, m>>: n may have m as a neighbour and advertise it
    MaxObsolete \* max_obsolutes in remove_obsolute_advertised_neighbor: 10

ASSUME AddrAssumption == /\ Addr \subseteq Nat
                         /\ IsFiniteSet(Addr)
                         /\ own_ip \in Addr
                         /\ Links \subseteq Addr \X Addr
                         /\ MaxObsolete \in Nat \ {0}

Peer == Addr \ {own_ip}

VARIABLES
    sym,          \* neighbours with status SYM_NEIGH or MPR_NEIGH
    known,        \* originators with a TopologyInfoElem in ctx->topology_tree
    an_tree,      \* an_tree[o]: addresses o advertised, {} when o is not known
    routing_table,\* ctx->routing_table: per destination hop_count and route
    old_table,    \* calc_routing_table's old_table
    visit_queue,  \* calc_routing_table's visit_queue
    curr,         \* curr_entry->dest_addr, meaningful while pc = "scan"
    stat,         \* NeighborInfo.routing.path, its first hop_count elements
    pc            \* where calc_routing_table stands; "idle" outside the call

vars == <<sym, known, an_tree, routing_table, old_table, visit_queue, curr, stat, pc>>
topology == <<sym, known, an_tree>>

(* No RoutingEntry in the tree. *)
NoEntry == [hop_count |-> 0, route |-> <<>>]
EmptyTable == [d \in Peer |-> NoEntry]
Routed == {d \in Peer : routing_table[d].hop_count > 0}

(* The addresses in o's an_tree while duplicate_neigh_info is in force: an *)
(* advertisement between two known originators counts in both directions.  *)
AdvertisedBy(o) ==
    IF o \in known
    THEN an_tree[o] \cup {q \in known : o \in an_tree[q]}
    ELSE {}

Init ==
    /\ sym = {} /\ known = {}
    /\ an_tree = [o \in Peer |-> {}]
    /\ routing_table = EmptyTable /\ old_table = EmptyTable
    /\ visit_queue = <<>> /\ curr = own_ip
    /\ stat = [d \in Peer |-> <<>>]
    /\ pc = "idle"
-----------------------------------------------------------------------------
(* The head of calc_routing_table: the old table is put aside. *)
CallCalcRoutingTable ==
    /\ old_table' = routing_table
    /\ routing_table' = EmptyTable
    /\ visit_queue' = <<>>
    /\ pc' = "onehop"
    /\ UNCHANGED <<curr, stat>>

(* set_neighbor_status with a new status: between not symmetric and        *)
(* symmetric, or between SYM_NEIGH and MPR_NEIGH.                          *)
SetNeighborStatus(p) ==
    /\ pc = "idle"
    /\ <<own_ip, p>> \in Links
    /\ sym' \in {sym \cup {p}, sym \ {p}, sym}
    /\ p \in sym \cup sym'
    /\ UNCHANGED <<known, an_tree>>
    /\ CallCalcRoutingTable

(* Mutant: only removed addresses set info_changed. *)
ProcessTcRemovalOnly(o, new) ==
    /\ pc = "idle"
    /\ sym # {}
    /\ \A a \in new : <<o, a>> \in Links
    /\ known' = known \cup {o}
    /\ an_tree' = [an_tree EXCEPT
                     ![o] = new \cup AfterFirst(an_tree[o] \ new, MaxObsolete)]
    /\ UNCHANGED sym
    /\ IF an_tree[o] \ new # {}
       THEN CallCalcRoutingTable
       ELSE UNCHANGED <<routing_table, old_table, visit_queue, curr, stat, pc>>

(* The part of process_olsr_tc behind its filters (a symmetric neighbour   *)
(* handed the message over, its ANSN is not old): o's advertised set       *)
(* becomes new, but at most MaxObsolete old addresses are removed.  Routes *)
(* are recomputed only if an address was inserted or removed; creating the *)
(* TopologyInfoElem alone does not set info_changed.                       *)
ProcessTc(o, new) ==
    /\ pc = "idle"
    /\ sym # {}
    /\ \A a \in new : <<o, a>> \in Links
    /\ known' = known \cup {o}
    /\ an_tree' = [an_tree EXCEPT
                     ![o] = new \cup AfterFirst(an_tree[o] \ new, MaxObsolete)]
    /\ UNCHANGED sym
    /\ IF new # an_tree[o]
       THEN CallCalcRoutingTable
       ELSE UNCHANGED <<routing_table, old_table, visit_queue, curr, stat, pc>>

(* topology_info_timer_expire_cb. *)
TopologyExpire(o) ==
    /\ pc = "idle"
    /\ o \in known
    /\ known' = known \ {o}
    /\ an_tree' = [an_tree EXCEPT ![o] = {}]
    /\ UNCHANGED sym
    /\ CallCalcRoutingTable
-----------------------------------------------------------------------------
(* routing_table_add_one_hop_neigh: one turn of its loop, and its end. *)
AddOneHop ==
    /\ pc = "onehop"
    /\ sym \ Routed # {}
    /\ LET d == FirstOf(sym \ Routed)
       IN  /\ routing_table' = [routing_table EXCEPT
                                    ![d] = [hop_count |-> 1, route |-> <<d>>]]
           /\ visit_queue' = Append(visit_queue, d)
    /\ UNCHANGED <<topology, old_table, curr, stat, pc>>

OneHopDone ==
    /\ pc = "onehop"
    /\ sym \subseteq Routed
    /\ pc' = "visit"
    /\ UNCHANGED <<topology, routing_table, old_table, visit_queue, curr, stat>>

(* Mutant: the visited entry is not removed from the queue. *)
VisitWithoutPop ==
    /\ pc = "visit"
    /\ visit_queue # <<>>
    /\ curr' = Head(visit_queue)
    /\ pc' = "scan"
    /\ UNCHANGED <<topology, routing_table, old_table, visit_queue, stat>>

(* The outer loop takes the next entry to visit. *)
Visit ==
    /\ pc = "visit"
    /\ visit_queue # <<>>
    /\ curr' = Head(visit_queue)
    /\ visit_queue' = Tail(visit_queue)
    /\ pc' = "scan"
    /\ UNCHANGED <<topology, routing_table, old_table, stat>>

(* What the inner loop adds: neighbours of curr without a route yet, this  *)
(* node excepted; nothing when curr has no TopologyInfoElem.               *)
Candidates == AdvertisedBy(curr) \ (Routed \cup {own_ip})

(* Mutant: the route of curr is taken over without its new last hop. *)
ExtendRouteWithoutDest(entry, d) ==
    [hop_count |-> entry.hop_count + 1, route |-> entry.route]

(* Mutant: the destination is put in front of curr's route. *)
ExtendRouteInFront(entry, d) ==
    [hop_count |-> entry.hop_count + 1, route |-> <<d>> \o entry.route]

(* The new entry: a copy of curr's route with the destination added. *)
ExtendRoute(entry, d) ==
    [hop_count |-> entry.hop_count + 1, route |-> Append(entry.route, d)]

(* Mutant: the new entry is visited next, not last. *)
AddRouteDepthFirst ==
    /\ pc = "scan"
    /\ Candidates # {}
    /\ LET d == FirstOf(Candidates)
       IN  /\ routing_table' = [routing_table EXCEPT
                                    ![d] = ExtendRoute(routing_table[curr], d)]
           /\ visit_queue' = <<d>> \o visit_queue
    /\ UNCHANGED <<topology, old_table, curr, stat, pc>>

(* The inner loop: one new entry, or its end. *)
AddRoute ==
    /\ pc = "scan"
    /\ Candidates # {}
    /\ LET d == FirstOf(Candidates)
       IN  /\ routing_table' = [routing_table EXCEPT
                                    ![d] = ExtendRoute(routing_table[curr], d)]
           /\ visit_queue' = Append(visit_queue, d)
    /\ UNCHANGED <<topology, old_table, curr, stat, pc>>

ScanDone ==
    /\ pc = "scan"
    /\ Candidates = {}
    /\ pc' = "visit"
    /\ UNCHANGED <<topology, routing_table, old_table, visit_queue, curr, stat>>

(* update_route_info_changed's comparison: the first hop_count addresses   *)
(* of the new route against the old route's list.  Beyond the end of the   *)
(* old list the code would compare with the list head.                     *)
SameRoute(new, old) ==
    \A i \in 1..new.hop_count :
        i <= Len(old.route) /\ new.route[i] = old.route[i]

(* Mutant: statistics of a destination that is lost are not reset. *)
UpdatedStatNoReset(d) ==
    LET new == routing_table[d]
        old == old_table[d]
    IN  IF new = NoEntry \/ (old # NoEntry /\ SameRoute(new, old))
        THEN stat[d] ELSE new.route

(* update_route_info: what becomes of the statistics of destination d. *)
UpdatedStat(d) ==
    LET new == routing_table[d]
        old == old_table[d]
    IN  IF new = NoEntry
        THEN IF old = NoEntry THEN stat[d] ELSE <<>>
        ELSE IF old # NoEntry /\ SameRoute(new, old) THEN stat[d] ELSE new.route

(* The end of calc_routing_table: the duplicated entries and the old table *)
(* go, the statistics are brought up to date.                              *)
FinishCalc ==
    /\ pc = "visit"
    /\ visit_queue = <<>>
    /\ stat' = [d \in Peer |-> UpdatedStat(d)]
    /\ old_table' = EmptyTable
    /\ pc' = "idle"
    /\ UNCHANGED <<topology, routing_table, visit_queue, curr>>

Next ==
    \/ \E p \in Peer : SetNeighborStatus(p)
    \/ \E o \in Peer, new \in SUBSET Addr : ProcessTc(o, new)
    \/ \E o \in Peer : TopologyExpire(o)
    \/ AddOneHop \/ OneHopDone
    \/ Visit \/ AddRoute \/ ScanDone
    \/ FinishCalc

(* A calculation runs to its end once called: no other thread competes. *)
Fairness == WF_vars(AddOneHop \/ OneHopDone \/ Visit \/ AddRoute \/ ScanDone \/ FinishCalc)

Spec == Init /\ [][Next]_vars
FairSpec == Spec /\ Fairness
-----------------------------------------------------------------------------
Entry == [hop_count : Nat, route : Seq(Peer)]

TypeOK ==
    /\ sym \subseteq Peer /\ known \subseteq Peer
    /\ an_tree \in [Peer -> SUBSET Addr]
    /\ routing_table \in [Peer -> Entry]
    /\ old_table \in [Peer -> Entry]
    /\ visit_queue \in Seq(Peer)
    /\ curr \in Addr
    /\ stat \in [Peer -> Seq(Peer)]
    /\ pc \in {"idle", "onehop", "visit", "scan"}

(* A hop the topology allows: q was advertised by p, or p by the known     *)
(* originator q, and p is itself a known originator.                       *)
Hop(p, q) == p \in known /\ (q \in an_tree[p] \/ (q \in known /\ p \in an_tree[q]))

(* The sequence r is a route to d over links that sym and the topology     *)
(* justify.                                                                *)
IsRouteTo(r, d) ==
    /\ r # <<>> /\ r[1] \in sym /\ r[Len(r)] = d
    /\ \A i \in 1..(Len(r) - 1) : Hop(r[i], r[i + 1])

(* An entry for d is absent, or its route ends in d without visiting a     *)
(* node twice and hop_count is the length of the route.                    *)
IsSimpleEntry(e, d) ==
    \/ e = NoEntry
    \/ /\ e.hop_count = Len(e.route) /\ e.route # <<>>
       /\ e.route[Len(e.route)] = d
       /\ \A i, j \in 1..Len(e.route) : e.route[i] = e.route[j] => i = j

(* Entries of both tables are simple at all times.  While a calculation is *)
(* under way each entry is justified by the topology and passes only       *)
(* through destinations that already have entries, and so does everything  *)
(* that waits to be visited.                                               *)
RouteInv ==
    /\ \A d \in Peer : /\ IsSimpleEntry(routing_table[d], d)
                       /\ IsSimpleEntry(old_table[d], d)
    /\ pc # "idle" =>
        /\ \A d \in Routed :
              /\ IsRouteTo(routing_table[d].route, d)
              /\ \A i \in 1..Len(routing_table[d].route) : routing_table[d].route[i] \in Routed
        /\ \A i \in 1..Len(visit_queue) : visit_queue[i] \in Routed
        /\ pc = "scan" => curr \in Routed

CalcEnds == pc = "visit" /\ visit_queue = <<>>

(* The nodes at most k hops away; k hops reach everything there is. *)
Within == [k \in 0..Cardinality(Peer) |->
    {d \in Peer : \E r \in UNION {[1..n -> Peer] : n \in 1..k} : IsRouteTo(r, d)}]

(* A finished calculation has an entry for exactly the reachable nodes,    *)
(* with the least possible hop count: the queue makes the search           *)
(* breadth-first, so a longer route never takes an entry first.            *)
ShortestRoutes ==
    CalcEnds => \A d \in Peer, k \in 1..Cardinality(Peer) :
        routing_table[d].hop_count = k <=> d \in Within[k] \ Within[k - 1]

(* update_route_info_changed never walks past the end of the old route's   *)
(* list: two routes to one destination are equal or differ at an index     *)
(* that both have.                                                         *)
ComparisonInBounds ==
    CalcEnds => \A d \in Routed : old_table[d] # NoEntry =>
        LET new == routing_table[d].route
            old == old_table[d].route
        IN  new = old \/ \E i \in 1..Len(new) : i <= Len(old) /\ new[i] # old[i]

(* What is reported about a destination is what packets to it follow: the  *)
(* statistics hold the route of the table, or nothing when there is none.  *)
StatMatchesTable ==
    pc = "idle" => \A d \in Peer : stat[d] = routing_table[d].route

(* Every call of calc_routing_table returns. *)
CalcReturns == pc = "onehop" ~> pc = "idle"

(* Between calls the table covers the topology: every symmetric neighbour  *)
(* has an entry, and a node that is missing although a routed one leads to *)
(* it hides behind a node whose own advertisement is empty.  That much is  *)
(* all that is lost by process_olsr_tc not recalculating when a TC only    *)
(* creates its TopologyInfoElem (olsr_tc.c:113-130, 183).                  *)
TableFollowsTopology ==
    pc = "idle" =>
        /\ sym \subseteq Routed
        /\ \A p \in Routed, q \in Peer :
              Hop(p, q) /\ q \notin Routed => an_tree[p] = {}
=============================================================================
