--------------------------- MODULE OlsrSpfProofs ----------------------------
(***************************************************************************)
(* Proofs about calc_routing_table, for any set of addresses and any       *)
(* sequence of neighbour and topology changes: the routes are simple, the  *)
(* search that finds them is breadth-first, so they are the shortest ones, *)
(* and the statistics follow them.  And about the packets that are sent by *)
(* such tables, for any nodes and tables: there is one copy of each.       *)
(***************************************************************************)
EXTENDS OlsrSpf, OlsrData, FiniteSetTheorems, SequenceTheorems, WellFoundedInduction, TLAPS

(* A non-empty set of addresses has a lowest one: RBTREE_FOR starts there. *)
LEMMA FirstOfIn ==
    ASSUME NEW S, S \subseteq Nat, S # {}
    PROVE  FirstOf(S) \in S /\ \A y \in S : FirstOf(S) <= y
<1> DEFINE R == {ss \in Nat \X Nat : ss[1] < ss[2]}
<1>1. IsWellFoundedOn(R, Nat)
  BY NatLessThanWellFounded, Zenon DEF OpToRel
<1> HIDE DEF R
<1>2. PICK x \in S : \A y \in S : ~ (<<y, x>> \in R)
  BY <1>1, WFMin
<1>3. \A y \in S : ~ (y < x)
  BY <1>2 DEF R
<1>4. \A y \in S : x <= y
  BY <1>3
<1> QED BY <1>4 DEF FirstOf

(* The initial context satisfies the invariants. *)
LEMMA InitInv == Init => TypeOK /\ RouteInv
<1> SUFFICES ASSUME Init PROVE TypeOK /\ RouteInv
  OBVIOUS
<1>1. NoEntry \in Entry
  BY DEF NoEntry, Entry
<1>2. TypeOK
  BY <1>1, AddrAssumption DEF Init, TypeOK, EmptyTable, Peer
<1>3. RouteInv
  BY DEF Init, RouteInv, EmptyTable, IsSimpleEntry
<1> QED BY <1>2, <1>3

(* Entering calc_routing_table puts a table of simple entries aside and    *)
(* starts from an empty one.                                               *)
LEMMA CallKeepsInv ==
    ASSUME TypeOK, RouteInv, CallCalcRoutingTable,
           sym' \subseteq Peer, known' \subseteq Peer, an_tree' \in [Peer -> SUBSET Addr]
    PROVE  TypeOK' /\ RouteInv'
<1>1. /\ old_table' = routing_table /\ routing_table' = EmptyTable
      /\ visit_queue' = <<>> /\ pc' = "onehop" /\ curr' = curr /\ stat' = stat
  BY DEF CallCalcRoutingTable
<1>2. NoEntry \in Entry
  BY DEF NoEntry, Entry
<1>3. TypeOK'
  BY <1>1, <1>2 DEF TypeOK, EmptyTable
<1>4. Routed' = {}
  BY <1>1 DEF Routed, EmptyTable, NoEntry
<1>5. \A d \in Peer : IsSimpleEntry(routing_table[d], d)' /\ IsSimpleEntry(old_table[d], d)'
  BY <1>1 DEF RouteInv, EmptyTable, IsSimpleEntry
<1> QED BY <1>1, <1>3, <1>4, <1>5 DEF RouteInv

(* One new entry for a destination without one, whose route is justified   *)
(* and simple and passes through routed nodes besides its end, keeps the   *)
(* invariant: what both loops of calc_routing_table have in common.        *)
LEMMA NewEntryKeepsInv ==
    ASSUME TypeOK, RouteInv, pc \in {"onehop", "scan"}, pc' = pc,
           NEW d \in Peer, d \notin Routed, NEW e \in Entry,
           e # NoEntry, IsSimpleEntry(e, d), IsRouteTo(e.route, d),
           \A i \in 1..Len(e.route) : e.route[i] \in Routed \cup {d},
           routing_table' = [routing_table EXCEPT ![d] = e],
           visit_queue' = Append(visit_queue, d),
           UNCHANGED <<topology, old_table, curr, stat>>
    PROVE  TypeOK' /\ RouteInv'
<1>1. TypeOK'
  BY DEF TypeOK, topology
<1>2. e.hop_count > 0
  BY DEF IsSimpleEntry, Entry
<1>3. Routed' = Routed \cup {d}
  BY <1>2 DEF Routed, TypeOK
<1>4. \A c \in Peer : routing_table'[c] = IF c = d THEN e ELSE routing_table[c]
  BY DEF TypeOK
<1>5. \A c \in Peer : IsSimpleEntry(routing_table[c], c)' /\ IsSimpleEntry(old_table[c], c)'
  <2> SUFFICES ASSUME NEW c \in Peer
               PROVE  IsSimpleEntry(routing_table'[c], c) /\ IsSimpleEntry(old_table'[c], c)
    BY DEF IsSimpleEntry
  <2>1. IsSimpleEntry(routing_table[c], c) /\ IsSimpleEntry(old_table[c], c)
    BY DEF RouteInv
  <2>2. old_table'[c] = old_table[c]
    OBVIOUS
  <2>3. routing_table'[c] = IF c = d THEN e ELSE routing_table[c]
    BY <1>4
  <2> QED BY <2>1, <2>2, <2>3
<1>6. \A r, c : IsRouteTo(r, c)' <=> IsRouteTo(r, c)
  BY DEF IsRouteTo, Hop, topology
<1>7. ASSUME NEW c \in Routed'
      PROVE  /\ IsRouteTo(routing_table[c].route, c)'
             /\ \A i \in 1..Len(routing_table'[c].route) : routing_table'[c].route[i] \in Routed'
  <2>1. CASE c = d
    BY <1>3, <1>4, <1>6, <2>1 
  <2>2. CASE c # d
    <3>1. c \in Routed /\ c \in Peer /\ routing_table'[c] = routing_table[c]
      BY <1>3, <1>4, <2>2 DEF Routed
    <3> QED BY <1>3, <1>6, <3>1 DEF RouteInv
  <2> QED BY <2>1, <2>2
<1>8. \A i \in 1..Len(visit_queue') : visit_queue'[i] \in Routed'
  <2>1. \A i \in 1..Len(visit_queue) : visit_queue[i] \in Routed
    BY DEF RouteInv
  <2>2. visit_queue \in Seq(Peer)
    BY DEF TypeOK
  <2>3. /\ Len(visit_queue') = Len(visit_queue) + 1
        /\ \A i \in 1..Len(visit_queue') :
              visit_queue'[i] = IF i <= Len(visit_queue) THEN visit_queue[i] ELSE d
    BY <2>2
  <2> QED BY <1>3, <2>1, <2>2, <2>3
<1>9. pc' = "scan" => curr' \in Routed'
  BY <1>3 DEF RouteInv
<1> QED BY <1>1, <1>5, <1>7, <1>8, <1>9 DEF RouteInv

(* Every caller, loop turn and end of calc_routing_table keeps the types   *)
(* and the invariant.                                                      *)
LEMMA StepKeepsInv ==
    ASSUME TypeOK, RouteInv, [Next]_vars
    PROVE  TypeOK' /\ RouteInv'
<1>1. ASSUME NEW p \in Peer, SetNeighborStatus(p) PROVE TypeOK' /\ RouteInv'
  <2>1. sym' \subseteq Peer /\ known' = known /\ an_tree' = an_tree /\ CallCalcRoutingTable
    BY <1>1 DEF SetNeighborStatus, TypeOK
  <2> QED BY <2>1, CallKeepsInv DEF TypeOK
<1>2. ASSUME NEW o \in Peer, NEW new \in SUBSET Addr, ProcessTc(o, new)
      PROVE  TypeOK' /\ RouteInv'
  <2>1. /\ sym' = sym /\ known' \subseteq Peer /\ an_tree' \in [Peer -> SUBSET Addr]
        /\ pc = "idle"
    BY <1>2 DEF ProcessTc, TypeOK, AfterFirst
  <2>2. CASE CallCalcRoutingTable
    BY <2>1, <2>2, CallKeepsInv DEF TypeOK
  <2>3. CASE UNCHANGED <<routing_table, old_table, visit_queue, curr, stat, pc>>
    BY <2>1, <2>3 DEF TypeOK, RouteInv
  <2> QED BY <1>2, <2>2, <2>3 DEF ProcessTc
<1>3. ASSUME NEW o \in Peer, TopologyExpire(o) PROVE TypeOK' /\ RouteInv'
  <2>1. /\ sym' = sym /\ known' \subseteq Peer /\ an_tree' \in [Peer -> SUBSET Addr]
        /\ CallCalcRoutingTable
    BY <1>3 DEF TopologyExpire, TypeOK
  <2> QED BY <2>1, CallKeepsInv DEF TypeOK
<1>4. ASSUME AddOneHop PROVE TypeOK' /\ RouteInv'
  <2> DEFINE d == FirstOf(sym \ Routed)
             e == [hop_count |-> 1, route |-> <<d>>]
  <2>1. sym \ Routed \subseteq Nat /\ sym \ Routed # {}
    BY <1>4, AddrAssumption DEF AddOneHop, TypeOK, Peer
  <2>2. d \in sym \ Routed
    BY <2>1, FirstOfIn
  <2>3. d \in Peer /\ d \notin Routed /\ d \in sym
    BY <2>2 DEF TypeOK
  <2>4. /\ routing_table' = [routing_table EXCEPT ![d] = e]
        /\ visit_queue' = Append(visit_queue, d)
        /\ UNCHANGED <<topology, old_table, curr, stat>>
        /\ pc = "onehop" /\ pc' = pc
    BY <1>4 DEF AddOneHop
  <2> HIDE DEF d
  <2>5. e \in Entry /\ e # NoEntry /\ IsSimpleEntry(e, d)
    BY <2>3 DEF Entry, NoEntry, IsSimpleEntry
  <2>6. IsRouteTo(e.route, d) /\ (\A i \in 1..Len(e.route) : e.route[i] \in Routed \cup {d})
    BY <2>3 DEF IsRouteTo
  <2> HIDE DEF e
  <2> QED BY <2>3, <2>4, <2>5, <2>6, NewEntryKeepsInv
<1>5. ASSUME OneHopDone PROVE TypeOK' /\ RouteInv'
  BY <1>5 DEF OneHopDone, topology, TypeOK, RouteInv, Routed, IsRouteTo, Hop
<1>6. ASSUME Visit PROVE TypeOK' /\ RouteInv'
  <2>1. visit_queue \in Seq(Peer) /\ visit_queue # <<>>
    BY <1>6 DEF Visit, TypeOK
  <2>2. /\ Head(visit_queue) = visit_queue[1] /\ 1 \in 1..Len(visit_queue)
        /\ Tail(visit_queue) \in Seq(Peer) /\ Len(Tail(visit_queue)) = Len(visit_queue) - 1
        /\ \A i \in 1..Len(Tail(visit_queue)) :
              Tail(visit_queue)[i] = visit_queue[i + 1] /\ i + 1 \in 1..Len(visit_queue)
    BY <2>1
  <2>3. /\ UNCHANGED <<sym, known, an_tree, routing_table, old_table, stat>>
        /\ pc # "idle" /\ pc' = "scan"
        /\ curr' = visit_queue[1] /\ visit_queue' = Tail(visit_queue)
    BY <1>6, <2>2 DEF Visit, topology
  <2>4. curr' \in Routed /\ (\A i \in 1..Len(visit_queue') : visit_queue'[i] \in Routed)
    BY <2>2, <2>3 DEF RouteInv
  <2>5. TypeOK'
    BY <2>2, <2>3, <2>4 DEF TypeOK, Routed, Peer
  <2> QED BY <2>3, <2>4, <2>5 DEF RouteInv, Routed, IsRouteTo, Hop
<1>7. ASSUME AddRoute PROVE TypeOK' /\ RouteInv'
  <2> DEFINE d == FirstOf(Candidates)
             r == routing_table[curr].route
             e == ExtendRoute(routing_table[curr], d)
  <2>1. Candidates \subseteq Nat /\ Candidates # {}
    BY <1>7, AddrAssumption DEF AddRoute, Candidates, AdvertisedBy, TypeOK, Peer
  <2>2. d \in Candidates
    BY <2>1, FirstOfIn
  <2>3. /\ routing_table' = [routing_table EXCEPT ![d] = e]
        /\ visit_queue' = Append(visit_queue, d)
        /\ UNCHANGED <<topology, old_table, curr, stat>>
        /\ pc = "scan" /\ pc' = pc
    BY <1>7 DEF AddRoute
  <2> HIDE DEF d
  <2>4. d \in Peer /\ d \notin Routed /\ Hop(curr, d)
    BY <2>2, AddrAssumption DEF Candidates, AdvertisedBy, Hop, TypeOK, Peer
  <2>5. /\ curr \in Routed /\ curr \in Peer
        /\ r \in Seq(Peer) /\ r # <<>> /\ Len(r) \in Nat /\ Len(r) > 0
        /\ routing_table[curr].hop_count = Len(r)
    BY <2>3 DEF RouteInv, Routed, TypeOK, Entry, IsSimpleEntry, NoEntry
  <2>6. /\ IsRouteTo(r, curr) /\ (\A i \in 1..Len(r) : r[i] \in Routed)
        /\ \A i, j \in 1..Len(r) : r[i] = r[j] => i = j
    BY <2>3, <2>5 DEF RouteInv, IsSimpleEntry, NoEntry
  <2> HIDE DEF r
  <2>7. e = [hop_count |-> Len(r) + 1, route |-> Append(r, d)]
    BY <2>5 DEF ExtendRoute, r
  <2> HIDE DEF e
  <2>8. /\ Append(r, d) \in Seq(Peer) /\ Len(Append(r, d)) = Len(r) + 1
        /\ Append(r, d)[Len(r) + 1] = d
        /\ \A i \in 1..Len(r) : Append(r, d)[i] = r[i]
    BY <2>4, <2>5
  <2>9. e \in Entry /\ e # NoEntry
    BY <2>5, <2>7, <2>8 DEF Entry, NoEntry
  <2>10. \A i \in 1..Len(e.route) : e.route[i] \in Routed \cup {d}
    BY <2>5, <2>6, <2>7, <2>8
  <2>11. IsSimpleEntry(e, d)
    <3>1. \A i, j \in 1..(Len(r) + 1) : Append(r, d)[i] = Append(r, d)[j] => i = j
      BY <2>4, <2>5, <2>6, <2>8
    <3> QED BY <2>5, <2>7, <2>8, <3>1 DEF IsSimpleEntry
  <2>12. IsRouteTo(e.route, d)
    <3>1. ASSUME NEW i \in 1..Len(r) PROVE Hop(Append(r, d)[i], Append(r, d)[i + 1])
      <4>1. CASE i = Len(r)
        BY <2>4, <2>5, <2>6, <2>8, <4>1 DEF IsRouteTo
      <4>2. CASE i # Len(r)
        <5>1. i \in 1..(Len(r) - 1) /\ i + 1 \in 1..Len(r)
          BY <2>5, <4>2
        <5>2. Hop(r[i], r[i + 1])
          BY <2>6, <5>1 DEF IsRouteTo
        <5> QED BY <2>8, <5>1, <5>2
      <4> QED BY <4>1, <4>2
    <3>2. Append(r, d)[1] \in sym
      BY <2>5, <2>6, <2>8 DEF IsRouteTo
    <3>3. Append(r, d) # <<>>
      BY <2>5, <2>8
    <3> QED BY <2>5, <2>7, <2>8, <3>1, <3>2, <3>3 DEF IsRouteTo
  <2> QED BY <2>3, <2>4, <2>9, <2>10, <2>11, <2>12, NewEntryKeepsInv
<1>8. ASSUME ScanDone PROVE TypeOK' /\ RouteInv'
  BY <1>8 DEF ScanDone, topology, TypeOK, RouteInv, Routed, IsRouteTo, Hop
<1>9. ASSUME FinishCalc PROVE TypeOK' /\ RouteInv'
  <2>1. /\ UNCHANGED <<sym, known, an_tree, routing_table, visit_queue, curr>>
        /\ old_table' = EmptyTable /\ pc' = "idle"
        /\ stat' = [d \in Peer |-> UpdatedStat(d)]
    BY <1>9 DEF FinishCalc, topology
  <2>2. \A d \in Peer : UpdatedStat(d) \in Seq(Peer)
    BY DEF UpdatedStat, TypeOK, Entry
  <2>3. NoEntry \in Entry
    BY DEF NoEntry, Entry
  <2>4. TypeOK'
    BY <2>1, <2>2, <2>3 DEF TypeOK, EmptyTable
  <2> QED BY <2>1, <2>4 DEF RouteInv, EmptyTable, IsSimpleEntry
<1>10. CASE UNCHANGED vars
  BY <1>10 DEF vars, TypeOK, RouteInv, Routed, IsRouteTo, Hop
<1> QED BY <1>1, <1>2, <1>3, <1>4, <1>5, <1>6, <1>7, <1>8, <1>9, <1>10 DEF Next

(* A route that agrees with a simple route to the same destination on all  *)
(* its own positions is that route: the destination ends both.             *)
LEMMA AgreeingRoutesEqual ==
    ASSUME NEW d \in Peer, NEW e \in Entry, NEW f \in Entry,
           e # NoEntry, f # NoEntry, IsSimpleEntry(e, d), IsSimpleEntry(f, d),
           \A i \in 1..Len(e.route) : i <= Len(f.route) => e.route[i] = f.route[i]
    PROVE  e.route = f.route
<1> DEFINE r == e.route
           s == f.route
<1>1. /\ r \in Seq(Peer) /\ s \in Seq(Peer) /\ r # <<>> /\ s # <<>>
      /\ r[Len(r)] = d /\ s[Len(s)] = d
      /\ \A i, j \in 1..Len(r) : r[i] = r[j] => i = j
      /\ \A i, j \in 1..Len(s) : s[i] = s[j] => i = j
      /\ \A i \in 1..Len(r) : i <= Len(s) => r[i] = s[i]
  BY DEF Entry, IsSimpleEntry
<1> HIDE DEF r, s
<1>2. /\ Len(r) \in Nat \ {0} /\ Len(s) \in Nat \ {0}
      /\ Len(r) \in 1..Len(r) /\ Len(s) \in 1..Len(s)
  BY <1>1
<1>3. CASE Len(r) <= Len(s)
  <2>1. s[Len(r)] = s[Len(s)] /\ Len(r) \in 1..Len(s)
    BY <1>1, <1>2, <1>3
  <2>2. Len(r) = Len(s)
    BY <1>1, <1>2, <2>1
  <2>3. \A i \in 1..Len(r) : r[i] = s[i]
    BY <1>1, <1>2, <2>2
  <2>4. r = s
    BY <1>1, <2>2, <2>3, SeqEqual
  <2> QED BY <2>4 DEF r, s
<1>4. CASE ~ (Len(r) <= Len(s))
  <2>1. Len(s) \in 1..Len(r) /\ r[Len(s)] = s[Len(s)]
    BY <1>1, <1>2, <1>4
  <2>2. Len(s) = Len(r)
    BY <1>1, <1>2, <2>1
  <2> QED BY <1>2, <1>4, <2>2
<1> QED BY <1>3, <1>4

(* The types, and the shape of both routing tables, hold at every step of  *)
(* every calculation.                                                      *)
THEOREM RouteInvariant == Spec => [](TypeOK /\ RouteInv)
<1>1. Init => TypeOK /\ RouteInv
  BY InitInv
<1>2. TypeOK /\ RouteInv /\ [Next]_vars => (TypeOK /\ RouteInv)'
  BY StepKeepsInv
<1> QED BY <1>1, <1>2, PTL DEF Spec

(* update_route_info_changed stays inside the old route's list, because    *)
(* both routes are simple and end in the destination.                      *)
THEOREM RouteComparison == Spec => []ComparisonInBounds
<1>1. ASSUME TypeOK, RouteInv PROVE ComparisonInBounds
  <2> SUFFICES ASSUME NEW d \in Routed, old_table[d] # NoEntry,
                      ~ \E i \in 1..Len(routing_table[d].route) :
                            /\ i <= Len(old_table[d].route)
                            /\ routing_table[d].route[i] # old_table[d].route[i]
               PROVE  routing_table[d].route = old_table[d].route
    BY DEF ComparisonInBounds
  <2>1. /\ d \in Peer /\ routing_table[d] \in Entry /\ old_table[d] \in Entry
        /\ routing_table[d] # NoEntry
    BY <1>1 DEF TypeOK, Routed, NoEntry
  <2>2. IsSimpleEntry(routing_table[d], d) /\ IsSimpleEntry(old_table[d], d)
    BY <1>1, <2>1 DEF RouteInv
  <2> QED BY <2>1, <2>2, AgreeingRoutesEqual
<1> QED BY <1>1, RouteInvariant, PTL

(* During a calculation the statistics still hold the routes of the table  *)
(* that was put aside; outside it, those of the current one.               *)
StatInv ==
    \A d \in Peer :
        stat[d] = (IF pc = "idle" THEN routing_table[d] ELSE old_table[d]).route

(* FinishCalc gives every destination the statistics of its new entry.     *)
LEMMA FinishedStat ==
    ASSUME TypeOK, RouteInv, StatInv, pc = "visit", NEW d \in Peer
    PROVE  UpdatedStat(d) = routing_table[d].route
<1> DEFINE new == routing_table[d]
           old == old_table[d]
<1>1. /\ new \in Entry /\ old \in Entry /\ stat[d] = old.route
      /\ IsSimpleEntry(new, d) /\ IsSimpleEntry(old, d)
  BY DEF TypeOK, RouteInv, StatInv
<1>2. CASE new = NoEntry
  BY <1>1, <1>2 DEF UpdatedStat, NoEntry
<1>3. CASE new # NoEntry /\ old # NoEntry /\ SameRoute(new, old)
  <2>1. new.hop_count = Len(new.route)
    BY <1>1, <1>3 DEF IsSimpleEntry
  <2>2. \A i \in 1..Len(new.route) : new.route[i] = old.route[i]
    BY <1>3, <2>1 DEF SameRoute
  <2> HIDE DEF new, old
  <2>3. new.route = old.route
    BY <1>1, <1>3, <2>2, AgreeingRoutesEqual
  <2> QED BY <1>1, <1>3, <2>3 DEF UpdatedStat, new, old
<1>4. CASE new # NoEntry /\ ~ (old # NoEntry /\ SameRoute(new, old))
  BY <1>4 DEF UpdatedStat
<1> QED BY <1>2, <1>3, <1>4

(* What the node reports about a destination is the route its packets      *)
(* take: update_route_info leaves no stale path behind.                    *)
THEOREM StatisticsFollowTable == Spec => []StatMatchesTable
<1>1. Init => StatInv
  BY DEF Init, StatInv, EmptyTable, NoEntry
<1>2. ASSUME TypeOK, RouteInv, StatInv, [Next]_vars PROVE StatInv'
  <2>1. CASE pc = "idle" /\ CallCalcRoutingTable
    BY <1>2, <2>1 DEF StatInv, CallCalcRoutingTable
  <2>2. CASE FinishCalc
    BY <1>2, <2>2, FinishedStat DEF FinishCalc, StatInv
  <2>3. CASE UNCHANGED <<routing_table, old_table, stat, pc>>
    BY <1>2, <2>3 DEF StatInv
  <2>4. CASE pc # "idle" /\ pc' # "idle" /\ UNCHANGED <<old_table, stat>>
    BY <1>2, <2>4 DEF StatInv
  <2>5. ASSUME NEW p \in Peer, SetNeighborStatus(p) PROVE StatInv'
    BY <2>1, <2>5 DEF SetNeighborStatus
  <2>6. ASSUME NEW o \in Peer, NEW new \in SUBSET Addr, ProcessTc(o, new) PROVE StatInv'
    BY <2>1, <2>3, <2>6 DEF ProcessTc
  <2>7. ASSUME NEW o \in Peer, TopologyExpire(o) PROVE StatInv'
    BY <2>1, <2>7 DEF TopologyExpire
  <2>8. CASE AddOneHop \/ OneHopDone
    BY <2>4, <2>8 DEF AddOneHop, OneHopDone
  <2>9. CASE Visit \/ AddRoute \/ ScanDone
    BY <2>4, <2>9 DEF Visit, AddRoute, ScanDone
  <2>10. CASE UNCHANGED vars
    BY <2>3, <2>10 DEF vars
  <2> QED BY <1>2, <2>2, <2>5, <2>6, <2>7, <2>8, <2>9, <2>10 DEF Next
<1>3. StatInv => StatMatchesTable
  BY DEF StatInv, StatMatchesTable
<1> QED BY <1>1, <1>2, <1>3, RouteInvariant, PTL DEF Spec
-----------------------------------------------------------------------------
(* The search is breadth-first. *)

(* The destinations whose neighbours have still to be looked at. *)
Pending == {visit_queue[i] : i \in 1..Len(visit_queue)}
               \cup (IF pc = "scan" THEN {curr} ELSE {})

hop(d) == routing_table[d].hop_count

(* A node without a TopologyInfoElem advertises nothing. *)
KnownInv == \A o \in Peer \ known : an_tree[o] = {}

(* The symmetric neighbours come first, one hop away. *)
OneHopInv ==
    /\ pc = "onehop" => /\ Routed \subseteq Pending
                        /\ \A d \in Routed : hop(d) = 1
    /\ pc \in {"visit", "scan"} => sym \subseteq Routed
    /\ \A d \in Routed \cap sym : hop(d) = 1

(* Whatever is one hop behind a destination that has been looked at has an *)
(* entry, at most one hop longer.                                          *)
ClosedInv ==
    \A p \in Routed \ Pending, q \in Peer :
        Hop(p, q) => q \in Routed /\ hop(q) <= hop(p) + 1

(* The queue holds two layers of the search at most, the nearer one first, *)
(* and no entry lies beyond them.                                          *)
LayerInv ==
    /\ \A i, j \in 1..Len(visit_queue) : i <= j => hop(visit_queue[i]) <= hop(visit_queue[j])
    /\ \A i \in 1..Len(visit_queue) : \A d \in Routed : hop(d) <= hop(visit_queue[i]) + 1
    /\ pc = "scan" =>
        /\ \A d \in Routed : hop(d) <= hop(curr) + 1
        /\ \A i \in 1..Len(visit_queue) : hop(curr) <= hop(visit_queue[i])

SearchInv == pc # "idle" => OneHopInv /\ ClosedInv /\ LayerInv

BfsInv == KnownInv /\ SearchInv /\ TableFollowsTopology

(* What a step that adds one entry does to the search: both loops of       *)
(* calc_routing_table have it in common.                                   *)
LEMMA EntryAdded ==
    ASSUME TypeOK, RouteInv, pc # "idle", pc' = pc,
           NEW d \in Peer, d \notin Routed, NEW e \in Entry, e.hop_count > 0,
           routing_table' = [routing_table EXCEPT ![d] = e],
           visit_queue' = Append(visit_queue, d),
           UNCHANGED <<topology, curr>>
    PROVE  /\ Routed' = Routed \cup {d}
           /\ hop(d)' = e.hop_count
           /\ \A c \in Routed : hop(c)' = hop(c) /\ c # d
           /\ \A c \in Routed' : hop(c)' \in Nat
           /\ Pending' = Pending \cup {d}
           /\ Len(visit_queue') = Len(visit_queue) + 1 /\ Len(visit_queue) \in Nat
           /\ \A i \in 1..Len(visit_queue) :
                 visit_queue'[i] = visit_queue[i] /\ visit_queue[i] \in Routed
           /\ visit_queue'[Len(visit_queue) + 1] = d
           /\ \A p, q : Hop(p, q)' <=> Hop(p, q)
<1>1. Routed' = Routed \cup {d} /\ hop(d)' = e.hop_count
  BY DEF Routed, hop, TypeOK
<1>2. \A c \in Routed : hop(c)' = hop(c) /\ c # d
  BY DEF Routed, hop, TypeOK
<1>3. \A c \in Routed' : hop(c)' \in Nat
  <2>1. routing_table' \in [Peer -> Entry]
    BY DEF TypeOK
  <2> QED BY <2>1 DEF Routed, hop, Entry
<1>4. visit_queue \in Seq(Peer)
  BY DEF TypeOK
<1>5. /\ Len(visit_queue') = Len(visit_queue) + 1 /\ Len(visit_queue) \in Nat
      /\ \A i \in 1..Len(visit_queue) : visit_queue'[i] = visit_queue[i]
      /\ visit_queue'[Len(visit_queue) + 1] = d
  BY <1>4
<1>6. \A i \in 1..Len(visit_queue) : visit_queue[i] \in Routed
  BY DEF RouteInv
<1>7. Pending' = Pending \cup {d}
  BY <1>5 DEF Pending
<1>8. \A p, q : Hop(p, q)' <=> Hop(p, q)
  BY DEF Hop, topology
<1> QED BY <1>1, <1>2, <1>3, <1>5, <1>6, <1>7, <1>8

(* A new calculation starts with nothing searched. *)
LEMMA CallStartsSearch ==
    ASSUME TypeOK, CallCalcRoutingTable, KnownInv'
    PROVE  BfsInv'
<1>1. routing_table' = EmptyTable /\ visit_queue' = <<>> /\ pc' = "onehop"
  BY DEF CallCalcRoutingTable
<1>2. Routed' = {} /\ Len(visit_queue') = 0
  BY <1>1 DEF Routed, EmptyTable, NoEntry
<1>3. SearchInv'
  BY <1>1, <1>2 DEF SearchInv, OneHopInv, ClosedInv, LayerInv
<1>4. TableFollowsTopology'
  BY <1>1 DEF TableFollowsTopology
<1> QED BY <1>3, <1>4 DEF BfsInv

(* The changes of neighbours and topology keep the invariant: all but one  *)
(* start a calculation, and a TC that starts none changes nothing but that *)
(* its originator, which advertises nothing, becomes known.                *)
LEMMA ChangesKeepBfs ==
    ASSUME TypeOK, BfsInv
    PROVE  /\ \A p \in Peer : SetNeighborStatus(p) => BfsInv'
           /\ \A o \in Peer, new \in SUBSET Addr : ProcessTc(o, new) => BfsInv'
           /\ \A o \in Peer : TopologyExpire(o) => BfsInv'
<1>1. ASSUME NEW p \in Peer, SetNeighborStatus(p) PROVE BfsInv'
  BY <1>1, CallStartsSearch DEF SetNeighborStatus, BfsInv, KnownInv
<1>2. ASSUME NEW o \in Peer, TopologyExpire(o) PROVE BfsInv'
  BY <1>2, CallStartsSearch DEF TopologyExpire, BfsInv, KnownInv, TypeOK
<1>3. ASSUME NEW o \in Peer, NEW new \in SUBSET Addr, ProcessTc(o, new) PROVE BfsInv'
  <2>1. KnownInv'
    BY <1>3 DEF ProcessTc, BfsInv, KnownInv, TypeOK
  <2>2. CASE new # an_tree[o]
    BY <1>3, <2>1, <2>2, CallStartsSearch DEF ProcessTc
  <2>3. CASE new = an_tree[o]
    <3>1. /\ known' = known \cup {o} /\ sym' = sym
          /\ routing_table' = routing_table /\ pc = "idle" /\ pc' = "idle"
      BY <1>3, <2>3 DEF ProcessTc
    <3>2. an_tree' = an_tree
      <4>1. AfterFirst(an_tree[o] \ new, MaxObsolete) = {}
        BY <2>3 DEF AfterFirst
      <4> QED BY <1>3, <2>3, <4>1 DEF ProcessTc, TypeOK
    <3>3. Routed' = Routed
      BY <3>1 DEF Routed
    <3>4. ASSUME NEW p \in Routed, NEW q \in Peer, Hop(p, q)', q \notin Routed
          PROVE  an_tree[p] = {}
      <4>1. p \in Peer
        BY DEF Routed
      <4>2. CASE p \notin known
        BY <4>1, <4>2 DEF BfsInv, KnownInv
      <4>3. CASE Hop(p, q)
        BY <3>1, <3>4, <4>3 DEF BfsInv, TableFollowsTopology
      <4>4. CASE p \in known /\ ~ Hop(p, q)
        <5>1. q \notin known /\ q \in known' /\ p \in an_tree[q]
          BY <3>1, <3>2, <3>4, <4>4 DEF Hop
        <5> QED BY <5>1 DEF BfsInv, KnownInv
      <4> QED BY <4>2, <4>3, <4>4
    <3>5. TableFollowsTopology'
      BY <3>1, <3>2, <3>3, <3>4 DEF BfsInv, TableFollowsTopology
    <3> QED BY <2>1, <3>1, <3>5 DEF BfsInv, SearchInv
  <2> QED BY <2>2, <2>3
<1> QED BY <1>1, <1>2, <1>3

(* routing_table_add_one_hop_neigh keeps the invariant. *)
LEMMA OneHopKeepsBfs ==
    ASSUME TypeOK, RouteInv, BfsInv
    PROVE  (AddOneHop \/ OneHopDone) => BfsInv'
<1>1. ASSUME AddOneHop PROVE BfsInv'
  <2>1. sym \ Routed \subseteq Nat /\ sym \ Routed # {}
    BY <1>1, AddrAssumption DEF AddOneHop, TypeOK, Peer
  <2>2. PICK d \in sym \ Routed :
           /\ routing_table' = [routing_table EXCEPT ![d] = [hop_count |-> 1, route |-> <<d>>]]
           /\ visit_queue' = Append(visit_queue, d)
    BY <1>1, <2>1, FirstOfIn DEF AddOneHop
  <2>3. /\ UNCHANGED <<topology, curr>>
        /\ pc = "onehop" /\ pc' = pc /\ sym' = sym /\ known' = known /\ an_tree' = an_tree
    BY <1>1 DEF AddOneHop, topology
  <2> DEFINE e == [hop_count |-> 1, route |-> <<d>>]
  <2>4. d \in Peer /\ d \notin Routed /\ e \in Entry /\ e.hop_count = 1
    BY <2>2 DEF Entry, TypeOK
  <2>5. routing_table' = [routing_table EXCEPT ![d] = e] /\ visit_queue' = Append(visit_queue, d)
    BY <2>2
  <2> HIDE DEF e
  <2>6. /\ Routed' = Routed \cup {d} /\ hop(d)' = 1
        /\ \A c \in Routed : hop(c)' = hop(c)
        /\ Pending' = Pending \cup {d}
    <3>1. e.hop_count > 0 /\ pc # "idle"
      BY <2>3, <2>4
    <3>2. hop(d)' = e.hop_count
      BY <2>3, <2>4, <2>5, <3>1, EntryAdded
    <3> QED BY <2>3, <2>4, <2>5, <3>1, <3>2, EntryAdded
  <2>7. Routed \subseteq Pending /\ \A c \in Routed : hop(c) = 1
    BY <2>3 DEF BfsInv, SearchInv, OneHopInv
  <2>8. Routed' \subseteq Pending' /\ \A c \in Routed' : hop(c)' = 1
    BY <2>6, <2>7
  <2>9. \A i \in 1..Len(visit_queue') : visit_queue'[i] \in Routed'
    BY <1>1, StepKeepsInv, <2>3 DEF RouteInv, Next
  <2>10. OneHopInv' /\ ClosedInv'
    BY <2>3, <2>8 DEF OneHopInv, ClosedInv
  <2>11. LayerInv'
    BY <2>3, <2>8, <2>9 DEF LayerInv, hop
  <2> QED BY <2>3, <2>10, <2>11 DEF BfsInv, KnownInv, SearchInv, TableFollowsTopology
<1>2. ASSUME OneHopDone PROVE BfsInv'
  <2>1. /\ pc = "onehop" /\ pc' = "visit" /\ sym \subseteq Routed
        /\ UNCHANGED <<sym, known, an_tree, routing_table, visit_queue, curr>>
    BY <1>2 DEF OneHopDone, topology
  <2>2. /\ Routed' = Routed /\ Pending' = Pending
        /\ \A c : hop(c)' = hop(c)
        /\ \A p, q : Hop(p, q)' <=> Hop(p, q)
    BY <2>1 DEF Routed, Pending, hop, Hop
  <2>3. OneHopInv /\ ClosedInv /\ LayerInv
    BY <2>1 DEF BfsInv, SearchInv
  <2>4. OneHopInv'
    BY <2>1, <2>2, <2>3 DEF OneHopInv
  <2>5. ClosedInv'
    BY <2>2, <2>3 DEF ClosedInv
  <2>6. LayerInv'
    BY <2>1, <2>2, <2>3 DEF LayerInv
  <2> QED BY <2>1, <2>4, <2>5, <2>6 DEF BfsInv, KnownInv, SearchInv, TableFollowsTopology
<1> QED BY <1>1, <1>2

(* Taking the next entry to visit keeps the invariant: it is the nearest   *)
(* one of the queue.                                                       *)
LEMMA VisitKeepsBfs ==
    ASSUME TypeOK, RouteInv, BfsInv, Visit
    PROVE  BfsInv'
<1>1. /\ pc = "visit" /\ pc' = "scan" /\ visit_queue # <<>>
      /\ curr' = Head(visit_queue) /\ visit_queue' = Tail(visit_queue)
      /\ UNCHANGED <<sym, known, an_tree, routing_table>>
  BY DEF Visit, topology
<1>2. visit_queue \in Seq(Peer)
  BY DEF TypeOK
<1>3. /\ Len(visit_queue) \in Nat \ {0} /\ curr' = visit_queue[1]
      /\ Len(visit_queue') = Len(visit_queue) - 1
      /\ \A i \in 1..Len(visit_queue') : visit_queue'[i] = visit_queue[i + 1]
  BY <1>1, <1>2
<1>4. /\ Routed' = Routed
      /\ \A c : hop(c)' = hop(c)
      /\ \A p, q : Hop(p, q)' <=> Hop(p, q)
  BY <1>1 DEF Routed, hop, Hop
<1>5. Pending' = Pending
  <2>1. \A i \in 1..Len(visit_queue) : i = 1 \/ (i - 1 \in 1..Len(visit_queue')
                                                 /\ visit_queue[i] = visit_queue'[i - 1])
    BY <1>3
  <2>2. \A i \in 1..Len(visit_queue') : i + 1 \in 1..Len(visit_queue)
    BY <1>3
  <2>3. 1 \in 1..Len(visit_queue)
    BY <1>3
  <2> DEFINE Q == {visit_queue[i] : i \in 1..Len(visit_queue)}
             R == {visit_queue'[i] : i \in 1..Len(visit_queue')}
  <2>4. Q \subseteq R \cup {curr'}
    BY <1>3, <2>1
  <2>5. R \cup {curr'} \subseteq Q
    BY <1>3, <2>2, <2>3
  <2>6. Pending = Q /\ Pending' = R \cup {curr'}
    BY <1>1 DEF Pending
  <2> QED BY <2>4, <2>5, <2>6
<1>6. OneHopInv /\ ClosedInv /\ LayerInv
  BY <1>1 DEF BfsInv, SearchInv
<1>7. OneHopInv'
  BY <1>1, <1>4, <1>6 DEF OneHopInv
<1>8. ClosedInv'
  BY <1>4, <1>5, <1>6 DEF ClosedInv
<1>9. \A i \in 1..Len(visit_queue') : i + 1 \in 1..Len(visit_queue) /\ 1 <= i + 1
  BY <1>3
<1>10. \A i, j \in 1..Len(visit_queue') : i <= j => i + 1 <= j + 1
  BY <1>3
<1>11. 1 \in 1..Len(visit_queue)
  BY <1>3
<1>12. LayerInv'
  BY <1>1, <1>3, <1>4, <1>6, <1>9, <1>10, <1>11 DEF LayerInv
<1> QED BY <1>1, <1>7, <1>8, <1>12 DEF BfsInv, KnownInv, SearchInv, TableFollowsTopology

(* A new entry behind curr lies one hop beyond it, in the last layer.      *)
LEMMA AddRouteKeepsBfs ==
    ASSUME TypeOK, RouteInv, BfsInv, AddRoute
    PROVE  BfsInv'
<1>1. Candidates \subseteq Nat /\ Candidates # {}
  BY AddrAssumption DEF AddRoute, Candidates, AdvertisedBy, TypeOK, Peer
<1>2. PICK d \in Candidates :
         /\ routing_table' = [routing_table EXCEPT ![d] = ExtendRoute(routing_table[curr], d)]
         /\ visit_queue' = Append(visit_queue, d)
  BY <1>1, FirstOfIn DEF AddRoute
<1>3. /\ UNCHANGED <<topology, curr>>
      /\ pc = "scan" /\ pc' = pc /\ sym' = sym /\ known' = known /\ an_tree' = an_tree
      /\ curr' = curr
  BY DEF AddRoute, topology
<1>4. d \in Peer /\ d \notin Routed
  BY <1>2, AddrAssumption DEF Candidates, AdvertisedBy, TypeOK, Peer
<1>5. curr \in Routed /\ curr \in Peer /\ routing_table[curr] \in Entry
  BY <1>3 DEF RouteInv, TypeOK, Routed
<1> DEFINE e == ExtendRoute(routing_table[curr], d)
           n == Len(visit_queue)
           h == hop(curr) + 1
<1>6. e \in Entry /\ e.hop_count = h /\ hop(curr) \in Nat
  BY <1>4, <1>5 DEF ExtendRoute, Entry, hop
<1>7. routing_table' = [routing_table EXCEPT ![d] = e] /\ visit_queue' = Append(visit_queue, d)
  BY <1>2
<1> HIDE DEF e
<1>8. /\ Routed' = Routed \cup {d} /\ routing_table'[d].hop_count = h
      /\ \A c \in Routed : routing_table'[c].hop_count = hop(c) /\ c # d
      /\ Pending' = Pending \cup {d}
      /\ Len(visit_queue') = n + 1 /\ n \in Nat
      /\ \A i \in 1..n : visit_queue'[i] = visit_queue[i] /\ visit_queue[i] \in Routed
      /\ visit_queue'[n + 1] = d
      /\ \A p, q : Hop(p, q)' <=> Hop(p, q)
  <2>1. e.hop_count > 0
    BY <1>6
  <2>2. hop(d)' = e.hop_count /\ (\A c \in Routed : hop(c)' = hop(c))
    BY <1>3, <1>4, <1>6, <1>7, <2>1, EntryAdded
  <2>3. /\ routing_table'[d].hop_count = h
        /\ \A c \in Routed : routing_table'[c].hop_count = hop(c)
    BY <1>6, <2>2 DEF hop
  <2> QED BY <1>3, <1>4, <1>6, <1>7, <2>1, <2>3, EntryAdded
<1>9. OneHopInv /\ ClosedInv /\ LayerInv
  BY <1>3 DEF BfsInv, SearchInv
<1>10. d \notin sym
  BY <1>3, <1>4, <1>9 DEF OneHopInv
<1>11. OneHopInv'
  BY <1>3, <1>8, <1>9, <1>10 DEF OneHopInv, hop
<1>12. ClosedInv'
  BY <1>8, <1>9 DEF ClosedInv, hop
<1>13. \A i \in 1..Len(visit_queue') : i \in 1..n \/ i = n + 1
  BY <1>8
<1>14. \A c \in Routed : hop(c) \in Nat /\ hop(c) <= h
  <2>1. \A c \in Routed : hop(c) \in Nat
    BY DEF Routed, hop, TypeOK, Entry
  <2> QED BY <1>3, <1>9, <2>1 DEF LayerInv
<1>15. \A i \in 1..n : hop(curr) <= hop(visit_queue[i])
  BY <1>3, <1>9 DEF LayerInv
<1>16. \A i, j \in 1..n : i <= j => hop(visit_queue[i]) <= hop(visit_queue[j])
  BY <1>9 DEF LayerInv
(* The hop counts after the step. *)
<1> DEFINE hopN(c) == routing_table'[c].hop_count
<1>17. \A c \in Routed : hopN(c) = hop(c)
  BY <1>8
<1>18. hopN(d) = h
  BY <1>8
<1> HIDE DEF n, hopN
<1>19. LayerInv'
  <2>1. ASSUME NEW i \in 1..Len(visit_queue'), NEW j \in 1..Len(visit_queue'), i <= j
        PROVE  hopN(visit_queue'[i]) <= hopN(visit_queue'[j])
    <3>1. CASE i \in 1..n /\ j \in 1..n
      BY <1>8, <1>16, <1>17, <2>1, <3>1
    <3>2. CASE i \in 1..n /\ j = n + 1
      BY <1>8, <1>14, <1>17, <1>18, <3>2
    <3>3. CASE i = n + 1
      <4>1. j = i
        BY <1>8, <1>13, <2>1, <3>3
      <4> QED BY <1>6, <1>8, <1>18, <3>3, <4>1
    <3> QED BY <1>13, <3>1, <3>2, <3>3
  <2>2. ASSUME NEW i \in 1..Len(visit_queue'), NEW c \in Routed'
        PROVE  hopN(c) <= hopN(visit_queue'[i]) + 1
    <3>1. hopN(c) <= h /\ hopN(c) \in Nat
      BY <1>6, <1>8, <1>14, <1>17, <1>18
    <3>2. CASE i \in 1..n
      <4>1. hopN(visit_queue'[i]) = hop(visit_queue[i]) /\ hop(visit_queue[i]) \in Nat
        BY <1>8, <1>14, <1>17, <3>2
      <4>2. hop(curr) <= hop(visit_queue[i])
        BY <1>15, <3>2
      <4> QED BY <1>6, <3>1, <4>1, <4>2
    <3>3. CASE i = n + 1
      BY <1>6, <1>8, <1>18, <3>1, <3>3
    <3> QED BY <1>13, <3>2, <3>3
  <2>3. \A c \in Routed' : hopN(c) <= hopN(curr) + 1
    BY <1>5, <1>6, <1>8, <1>14, <1>17, <1>18
  <2>4. ASSUME NEW i \in 1..Len(visit_queue') PROVE hopN(curr) <= hopN(visit_queue'[i])
    BY <1>5, <1>6, <1>8, <1>13, <1>14, <1>15, <1>17, <1>18
  <2> QED BY <1>3, <2>1, <2>2, <2>3, <2>4 DEF LayerInv, hop, hopN
<1> QED BY <1>3, <1>11, <1>12, <1>19 DEF BfsInv, KnownInv, SearchInv, TableFollowsTopology

(* The end of a scan keeps the invariant: with no candidate left, all that *)
(* is one hop behind curr has an entry, and none lies beyond its layer.    *)
LEMMA ScanDoneKeepsBfs ==
    ASSUME TypeOK, RouteInv, BfsInv, ScanDone
    PROVE  BfsInv'
<1>1. /\ pc = "scan" /\ pc' = "visit" /\ Candidates = {}
      /\ UNCHANGED <<sym, known, an_tree, routing_table, visit_queue, curr>>
  BY DEF ScanDone, topology
<1>2. /\ Routed' = Routed /\ Pending \subseteq Pending' \cup {curr}
      /\ \A c : hop(c)' = hop(c)
      /\ \A p, q : Hop(p, q)' <=> Hop(p, q)
  BY <1>1 DEF Routed, Pending, hop, Hop
<1>3. OneHopInv /\ ClosedInv /\ LayerInv
  BY <1>1 DEF BfsInv, SearchInv
<1>4. ASSUME NEW q \in Peer, Hop(curr, q) PROVE q \in Routed /\ hop(q) <= hop(curr) + 1
  <2>1. q \in Routed
    BY <1>1, <1>4 DEF Hop, Candidates, AdvertisedBy, Peer
  <2> QED BY <1>1, <1>3, <2>1 DEF LayerInv
<1>5. OneHopInv'
  BY <1>1, <1>2, <1>3 DEF OneHopInv
<1>6. ClosedInv'
  BY <1>2, <1>3, <1>4 DEF ClosedInv
<1>7. LayerInv'
  BY <1>1, <1>2, <1>3 DEF LayerInv
<1> QED BY <1>1, <1>5, <1>6, <1>7 DEF BfsInv, KnownInv, SearchInv, TableFollowsTopology

(* Every step keeps the search invariant.  When the queue is empty nothing *)
(* is pending, and the closure of the search is that of the table.         *)
LEMMA StepKeepsBfs ==
    ASSUME TypeOK, RouteInv, BfsInv, [Next]_vars
    PROVE  BfsInv'
<1>1. ASSUME FinishCalc PROVE BfsInv'
  <2>1. /\ pc = "visit" /\ pc' = "idle" /\ visit_queue = <<>>
        /\ UNCHANGED <<sym, known, an_tree, routing_table>>
    BY <1>1 DEF FinishCalc, topology
  <2>2. OneHopInv /\ ClosedInv
    BY <2>1 DEF BfsInv, SearchInv
  <2>3. Pending = {} /\ Routed' = Routed /\ (\A p, q : Hop(p, q)' <=> Hop(p, q))
    BY <2>1 DEF Pending, Routed, Hop
  <2>4. TableFollowsTopology'
    BY <2>1, <2>2, <2>3 DEF TableFollowsTopology, OneHopInv, ClosedInv
  <2> QED BY <2>1, <2>4 DEF BfsInv, KnownInv, SearchInv
<1>2. CASE UNCHANGED vars
  <2>1. UNCHANGED <<sym, known, an_tree, routing_table, visit_queue, curr, pc>>
    BY <1>2 DEF vars
  <2> QED BY <2>1 DEF BfsInv, KnownInv, SearchInv, OneHopInv, ClosedInv, LayerInv,
                      TableFollowsTopology, Routed, Pending, hop, Hop
<1> QED BY <1>1, <1>2, ChangesKeepBfs, OneHopKeepsBfs, VisitKeepsBfs, AddRouteKeepsBfs,
           ScanDoneKeepsBfs DEF Next

(* The invariant of the search holds at every step of every calculation.   *)
THEOREM BreadthFirst == Spec => []BfsInv
<1>1. Init => BfsInv
  BY DEF Init, BfsInv, KnownInv, SearchInv, TableFollowsTopology, Routed, EmptyTable, NoEntry
<1>2. TypeOK /\ RouteInv /\ BfsInv /\ [Next]_vars => BfsInv'
  BY StepKeepsBfs
<1> QED BY <1>1, <1>2, RouteInvariant, PTL DEF Spec

(* Between calls the table covers the topology, but for what hides behind  *)
(* originators that advertise nothing: process_olsr_tc's decision not to   *)
(* recalculate loses no more than that.                                    *)
THEOREM TableCoversTopology == Spec => []TableFollowsTopology
<1>1. BfsInv => TableFollowsTopology
  BY DEF BfsInv
<1> QED BY <1>1, BreadthFirst, PTL

(* When the search ends, a node that k hops can reach has an entry of at   *)
(* most k hops.  The first position of a route at which this failed would  *)
(* be neither its first, a symmetric neighbour, nor behind one that was    *)
(* looked at.                                                              *)
LEMMA ReachedWithin ==
    ASSUME TypeOK, BfsInv, CalcEnds, NEW d \in Peer, NEW n \in Nat \ {0},
           NEW r \in [1..n -> Peer], IsRouteTo(r, d), Len(r) = n
    PROVE  d \in Routed /\ hop(d) <= n
<1> DEFINE Bad == {i \in 1..n : ~ (r[i] \in Routed /\ hop(r[i]) <= i)}
<1>1. Pending = {} /\ pc = "visit"
  BY DEF CalcEnds, Pending
<1>2. OneHopInv /\ ClosedInv
  BY <1>1 DEF BfsInv, SearchInv
<1>3. \A c \in Routed : hop(c) \in Nat
  BY DEF Routed, hop, TypeOK, Entry
<1>4. r[1] \in sym /\ r[n] = d /\ \A i \in 1..(n - 1) : Hop(r[i], r[i + 1])
  BY DEF IsRouteTo
<1>5. Bad = {}
  <2> SUFFICES ASSUME Bad # {} PROVE FALSE
    OBVIOUS
  <2> DEFINE i == FirstOf(Bad)
  <2>1. Bad \subseteq Nat
    OBVIOUS
  <2>2. i \in Bad /\ \A j \in Bad : i <= j
    BY <2>1, FirstOfIn
  <2> HIDE DEF i, Bad
  <2>3. i \in 1..n /\ ~ (r[i] \in Routed /\ hop(r[i]) <= i)
    BY <2>2 DEF Bad
  <2>4. CASE i = 1
    BY <1>1, <1>2, <1>4, <2>3, <2>4 DEF OneHopInv
  <2>5. CASE i # 1
    <3> DEFINE j == i - 1
    <3>1. j \in 1..(n - 1) /\ j \in 1..n /\ j + 1 = i /\ j < i
      BY <2>3, <2>5
    <3>2. j \notin Bad
      BY <2>2, <2>3, <3>1
    <3>3. r[j] \in Routed /\ hop(r[j]) <= j
      BY <3>1, <3>2 DEF Bad
    <3>4. Hop(r[j], r[i]) /\ r[i] \in Peer
      BY <1>4, <2>3, <3>1
    <3>5. r[i] \in Routed /\ hop(r[i]) <= hop(r[j]) + 1
      BY <1>1, <1>2, <3>3, <3>4 DEF ClosedInv
    <3>6. hop(r[i]) \in Nat /\ hop(r[j]) \in Nat
      BY <1>3, <3>3, <3>5
    <3> QED BY <2>3, <3>1, <3>3, <3>5, <3>6
  <2> QED BY <2>4, <2>5
<1>6. n \in 1..n /\ n \notin Bad
  BY <1>5
<1> QED BY <1>4, <1>6

(* A finished calculation has an entry for exactly the reachable nodes,    *)
(* with the least possible hop count: calc_routing_table is a shortest     *)
(* path search.                                                            *)
THEOREM RoutesAreShortest == Spec => []ShortestRoutes
<1>1. ASSUME TypeOK, RouteInv, BfsInv PROVE ShortestRoutes
  <2> SUFFICES ASSUME CalcEnds, NEW d \in Peer, NEW k \in 1..Cardinality(Peer)
               PROVE  hop(d) = k <=> d \in Within[k] \ Within[k - 1]
    BY DEF ShortestRoutes, hop
  <2>1. Cardinality(Peer) \in Nat
    BY AddrAssumption, FS_Subset, FS_CardinalityType DEF Peer
  <2>2. \A m \in 0..Cardinality(Peer) : d \in Within[m] <=>
           \E n \in 1..m : \E r \in [1..n -> Peer] : IsRouteTo(r, d)
    BY DEF Within
  <2>3. ASSUME NEW m \in 0..Cardinality(Peer), d \in Within[m]
        PROVE  d \in Routed /\ hop(d) <= m
    <3>1. PICK n \in 1..m : \E r \in [1..n -> Peer] : IsRouteTo(r, d)
      BY <2>2, <2>3
    <3>2. PICK r \in [1..n -> Peer] : IsRouteTo(r, d)
      BY <3>1
    <3>3. n \in Nat \ {0} /\ n <= m
      BY <2>1
    <3>4. Len(r) = n
      BY <3>3
    <3>5. d \in Routed /\ hop(d) <= n
      BY <1>1, <3>2, <3>3, <3>4, ReachedWithin
    <3>6. hop(d) \in Nat
      BY <1>1 DEF hop, TypeOK, Entry
    <3> QED BY <2>1, <3>3, <3>5, <3>6
  <2>4. ASSUME NEW m \in 1..Cardinality(Peer), d \in Routed, hop(d) <= m
        PROVE  d \in Within[m]
    <3> DEFINE r == routing_table[d].route
    <3>1. /\ IsRouteTo(r, d) /\ r \in Seq(Peer) /\ Len(r) = hop(d)
      BY <1>1, <2>4 DEF CalcEnds, RouteInv, TypeOK, Entry, Routed, IsSimpleEntry, NoEntry, hop
    <3>2. Len(r) \in 1..m /\ r \in [1..Len(r) -> Peer]
      BY <2>1, <2>4, <3>1 DEF Routed, hop
    <3>3. m \in 0..Cardinality(Peer)
      BY <2>1
    <3> HIDE DEF r
    <3> QED BY <2>2, <3>1, <3>2, <3>3
  <2>5. hop(d) \in Nat /\ (d \in Routed <=> hop(d) > 0)
    BY <1>1 DEF Routed, hop, TypeOK, Entry
  <2>6. k \in 0..Cardinality(Peer) /\ k - 1 \in 0..Cardinality(Peer) /\ k > 0 /\ k \in Nat
    BY <2>1
  <2>7. ASSUME hop(d) = k PROVE d \in Within[k] /\ d \notin Within[k - 1]
    BY <2>3, <2>4, <2>5, <2>6, <2>7
  <2>8. ASSUME d \in Within[k], d \notin Within[k - 1] PROVE hop(d) = k
    <3>1. d \in Routed /\ hop(d) <= k
      BY <2>3, <2>6, <2>8
    <3>2. SUFFICES ASSUME hop(d) <= k - 1 PROVE FALSE
      BY <2>5, <2>6, <3>1
    <3>3. k - 1 \in 1..Cardinality(Peer)
      BY <2>5, <2>6, <3>1, <3>2
    <3> QED BY <2>4, <2>8, <3>1, <3>2, <3>3
  <2> QED BY <2>7, <2>8
<1> QED BY <1>1, RouteInvariant, BreadthFirst, PTL
-----------------------------------------------------------------------------
(* The data plane. *)

(* Whatever is under way carries a packet to Dest. *)
Carried == Packet \cup {e \in Envelope : e.orig_dst_ip = Dest}

DataTypes ==
    /\ route \in [Node -> Node \cup {NoRoute}]
    /\ inbox \in [Node -> Seq(Carried)] /\ \A n \in Node : Len(inbox[n]) <= QCap
    /\ received \in Seq(Node)

(* There is one copy that its holder will take, or none and at most one    *)
(* has been delivered, to Dest.                                            *)
CopyInv ==
    /\ \A c, d \in Live : c = d
    /\ Live # {} => received = <<>>
    /\ Len(received) <= 1
    /\ \A i \in 1..Len(received) : received[i] = Dest

(* The places in queues whose contents are addressed to the node there. *)
LiveIn(box) == {c \in UNION {{n} \X DOMAIN box[n] : n \in Node} : box[c[1]][c[2]].daddr = c[1]}

LEMMA LiveIs ==
    ASSUME NEW box \in [Node -> Seq(Carried)]
    PROVE  \A c : c \in LiveIn(box) <=> \E n \in Node : \E i \in 1..Len(box[n]) :
                                           c = <<n, i>> /\ box[n][i].daddr = n
<1>1. \A n \in Node : DOMAIN box[n] = 1..Len(box[n])
  OBVIOUS
<1>2. ASSUME NEW c, c \in LiveIn(box)
      PROVE  \E n \in Node : \E i \in 1..Len(box[n]) : c = <<n, i>> /\ box[n][i].daddr = n
  <2>1. /\ c \in UNION {{n} \X DOMAIN box[n] : n \in Node}
        /\ box[c[1]][c[2]].daddr = c[1]
    BY <1>2 DEF LiveIn
  <2>2. PICK n \in Node : c \in {n} \X DOMAIN box[n]
    BY <2>1
  <2>3. c = <<c[1], c[2]>> /\ c[1] = n /\ c[2] \in DOMAIN box[n]
    BY <2>2
  <2> QED BY <1>1, <2>1, <2>3
<1>3. ASSUME NEW n \in Node, NEW i \in 1..Len(box[n]), box[n][i].daddr = n
      PROVE  <<n, i>> \in LiveIn(box)
  <2>1. <<n, i>> \in {n} \X DOMAIN box[n]
    BY <1>1
  <2>2. <<n, i>>[1] = n /\ <<n, i>>[2] = i
    OBVIOUS
  <2> QED BY <1>3, <2>1, <2>2 DEF LiveIn
<1> QED BY <1>2, <1>3

(* Queues that hold packets to Dest, what ip_route gives to send_remote,   *)
(* and queues some of which that has been added to.                        *)
Boxes(box) == box \in [Node -> Seq(Carried)] /\ \A m \in Node : Len(box[m]) <= QCap
Sendable(frames) == frames = <<>> \/ \E f \in Carried : frames = <<f>>
Grown(box, left, frames) ==
    \A m \in Node : \/ box[m] = left[m]
                    \/ \E f \in Carried : frames = <<f>> /\ box[m] = Append(left[m], f)

(* send_remote adds one frame to queues at most, where there is room. *)
LEMMA PassedIs ==
    ASSUME NEW n \in Node, NEW left, Boxes(left), NEW frames, Sendable(frames)
    PROVE  Boxes(Passed(n, frames, left)) /\ Grown(Passed(n, frames, left), left, frames)
<1>1. \A m \in Node : \/ Passed(n, frames, left)[m] = left[m]
                      \/ /\ Passed(n, frames, left)[m] = left[m] \o frames
                         /\ Len(left[m]) < QCap
  BY DEF Passed
<1>2. \A m \in Node : left[m] \in Seq(Carried) /\ Len(left[m]) \in Nat /\ Len(left[m]) <= QCap
  BY DEF Boxes
<1>3. \A m \in Node : left[m] \o <<>> = left[m]
  BY <1>2
<1>4. \A m \in Node, f \in Carried : /\ left[m] \o <<f>> = Append(left[m], f)
                                     /\ Append(left[m], f) \in Seq(Carried)
                                     /\ Len(Append(left[m], f)) = Len(left[m]) + 1
  BY <1>2
<1>5. \A m \in Node : \/ Passed(n, frames, left)[m] = left[m]
                      \/ \E f \in Carried : /\ frames = <<f>> /\ Len(left[m]) < QCap
                                            /\ Passed(n, frames, left)[m] = Append(left[m], f)
  BY <1>1, <1>3, <1>4 DEF Sendable
<1>6. \A m \in Node : /\ Passed(n, frames, left)[m] \in Seq(Carried)
                      /\ Len(Passed(n, frames, left)[m]) <= QCap
  <2> TAKE m \in Node
  <2>1. CASE Passed(n, frames, left)[m] = left[m]
    BY <1>2, <2>1
  <2>2. ASSUME NEW f \in Carried, Len(left[m]) < QCap,
               Passed(n, frames, left)[m] = Append(left[m], f)
        PROVE  /\ Passed(n, frames, left)[m] \in Seq(Carried)
               /\ Len(Passed(n, frames, left)[m]) <= QCap
    <3>1. Len(left[m]) + 1 <= QCap
      BY <1>2, <2>2, DataAssumption
    <3> QED BY <1>4, <2>2, <3>1
  <2> QED BY <1>5, <2>1, <2>2
<1>7. Passed(n, frames, left) = [m \in Node |-> Passed(n, frames, left)[m]]
  BY DEF Passed
<1>8. Passed(n, frames, left) \in [Node -> Seq(Carried)]
  BY <1>6, <1>7
<1> QED BY <1>5, <1>6, <1>8 DEF Boxes, Grown

(* ip_route sends one frame at most, with the packet in it. *)
LEMMA RoutedFrame ==
    ASSUME DataTypes, NEW n \in Node, NEW pkt \in Packet, NEW local \in BOOLEAN
    PROVE  Sendable(ip_route(n, pkt, local))
<1>1. pkt.protocol = "UDP" /\ pkt.saddr \in Node /\ pkt.daddr = Dest /\ pkt \in Carried
  BY DEF Packet, Data, Carried
<1>2. CASE route[n] = NoRoute
  BY <1>2 DEF ip_route, Sendable
<1>3. CASE route[n] # NoRoute /\ route[n] = Dest /\ local
  BY <1>1, <1>3 DEF ip_route, Sendable
<1>4. CASE route[n] # NoRoute /\ ~(route[n] = Dest /\ local)
  <2>1. route[n] \in Node
    BY <1>4 DEF DataTypes
  <2>2. minimal_mip_encap(pkt, n, route[n]) \in Carried
    BY <1>1, <2>1, DataAssumption DEF minimal_mip_encap, Carried, Envelope
  <2> QED BY <1>4, <2>2 DEF ip_route, Sendable
<1> QED BY <1>2, <1>3, <1>4

(* Sending when no copy is left that anyone will take makes one at most:   *)
(* of the frames of a broadcast only that of its addressee counts.         *)
LEMMA SendingMakesOne ==
    ASSUME NEW n \in Node, NEW left, Boxes(left), NEW frames, Sendable(frames),
           LiveIn(left) = {}
    PROVE  /\ \A c, d \in LiveIn(Passed(n, frames, left)) : c = d
           /\ frames = <<>> => LiveIn(Passed(n, frames, left)) = {}
<1> DEFINE box == Passed(n, frames, left)
<1>0. Boxes(box) /\ Grown(box, left, frames)
  BY PassedIs
<1> HIDE DEF box
<1>1. ASSUME NEW c \in LiveIn(box)
      PROVE  \E f \in Carried : frames = <<f>> /\ c = <<f.daddr, Len(left[f.daddr]) + 1>>
  <2>1. PICK m \in Node : \E i \in 1..Len(box[m]) : c = <<m, i>> /\ box[m][i].daddr = m
    BY <1>0, LiveIs DEF Boxes
  <2>2. PICK i \in 1..Len(box[m]) : c = <<m, i>> /\ box[m][i].daddr = m
    BY <2>1
  <2>3. left[m] \in Seq(Carried) /\ \A k \in 1..Len(left[m]) : left[m][k].daddr # m
    BY LiveIs DEF Boxes
  <2>4. PICK f \in Carried : frames = <<f>> /\ box[m] = Append(left[m], f)
    BY <1>0, <2>2, <2>3 DEF Grown
  <2>5. /\ Len(box[m]) = Len(left[m]) + 1 /\ box[m][Len(left[m]) + 1] = f
        /\ \A k \in 1..Len(left[m]) : box[m][k] = left[m][k]
    BY <2>3, <2>4
  <2>6. Len(left[m]) \in Nat
    BY <2>3
  <2>7. i = Len(left[m]) + 1
    BY <2>2, <2>3, <2>5, <2>6
  <2> QED BY <2>2, <2>4, <2>5, <2>7
<1>2. ASSUME NEW c \in LiveIn(box), NEW d \in LiveIn(box) PROVE c = d
  <2>1. PICK f \in Carried : frames = <<f>> /\ c = <<f.daddr, Len(left[f.daddr]) + 1>>
    BY <1>1
  <2>2. PICK g \in Carried : frames = <<g>> /\ d = <<g.daddr, Len(left[g.daddr]) + 1>>
    BY <1>1
  <2>3. f = g
    BY <2>1, <2>2
  <2> QED BY <2>1, <2>2, <2>3
<1>3. \A f : <<f>> # <<>>
  OBVIOUS
<1> QED BY <1>1, <1>2, <1>3 DEF box

(* What is in a queue, opened, is a packet to Dest. *)
LEMMA OpenedIs ==
    ASSUME NEW pkt \in Carried
    PROVE  /\ pkt.protocol = "MOBILE" => minimal_mip_decap(pkt) \in Packet
           /\ pkt.protocol # "MOBILE" => pkt \in Packet
           /\ \A p \in Packet : p.daddr = Dest
<1>1. CASE pkt \in Packet
  BY <1>1 DEF Packet, Data
<1>2. CASE pkt \in Envelope /\ pkt.orig_dst_ip = Dest
  <2>1. /\ pkt.protocol = "MOBILE" /\ pkt.ipproto = "UDP" /\ pkt.orig_src_ip \in Node
    BY <1>2 DEF Envelope
  <2>2. minimal_mip_decap(pkt) = Data(pkt.orig_src_ip)
    BY <1>2, <2>1 DEF minimal_mip_decap, Data
  <2> QED BY <2>1, <2>2 DEF Packet, Data
<1> QED BY <1>1, <1>2 DEF Carried

(* The queues without the frame that n takes out. *)
IsRest(left, n) == left = [inbox EXCEPT ![n] = Tail(@)]

(* What is in them. *)
LEMMA TakenOut ==
    ASSUME DataTypes, NEW n \in Node, inbox[n] # <<>>, NEW left, IsRest(left, n)
    PROVE  /\ Boxes(left)
           /\ Head(inbox[n]) \in Carried
           /\ \A m \in Node : m # n => left[m] = inbox[m]
           /\ Len(inbox[n]) = Len(left[n]) + 1
           /\ Head(inbox[n]) = inbox[n][1]
           /\ \A i \in 1..Len(left[n]) : left[n][i] = inbox[n][i + 1]
<1>1. /\ \A m \in Node : inbox[m] \in Seq(Carried) /\ Len(inbox[m]) <= QCap
      /\ inbox \in [Node -> Seq(Carried)] /\ QCap \in Nat
  BY DataAssumption DEF DataTypes
<1>2. /\ Tail(inbox[n]) \in Seq(Carried) /\ Len(inbox[n]) = Len(Tail(inbox[n])) + 1
      /\ Head(inbox[n]) = inbox[n][1] /\ Head(inbox[n]) \in Carried
      /\ \A i \in 1..Len(Tail(inbox[n])) : Tail(inbox[n])[i] = inbox[n][i + 1]
  BY <1>1
<1>3. /\ left \in [Node -> Seq(Carried)] /\ left[n] = Tail(inbox[n])
      /\ \A m \in Node : m # n => left[m] = inbox[m]
  BY <1>1, <1>2 DEF IsRest
<1>4. Len(left[n]) <= QCap
  <2>1. Len(left[n]) \in Nat /\ Len(inbox[n]) \in Nat /\ Len(inbox[n]) <= QCap
    BY <1>1, <1>3
  <2> QED BY <1>1, <1>2, <1>3, <2>1
<1> QED BY <1>1, <1>2, <1>3, <1>4 DEF Boxes

-----------------------------------------------------------------------------
DataInv == DataTypes /\ CopyInv

(* A packet is sent when no copy of the last one is left. *)
LEMMA LocalKeepsInv ==
    ASSUME DataInv, NEW n \in Node, handle_local_data_pkt(n)
    PROVE  DataInv'
<1> DEFINE frames == ip_route(n, Data(n), TRUE)
<1>1. /\ Live = {} /\ inbox' = Passed(n, frames, inbox) /\ received' = <<>> /\ route' = route
  BY DEF handle_local_data_pkt
<1>2. Data(n) \in Packet
  BY DEF Packet
<1>3. Sendable(frames)
  BY <1>2, RoutedFrame DEF DataInv
<1> HIDE DEF frames
<1>4. Boxes(inbox)
  BY DEF DataInv, DataTypes, Boxes
<1>5. DataTypes'
  <2>1. Boxes(inbox')
    BY <1>1, <1>3, <1>4, PassedIs
  <2> QED BY <1>1, <2>1 DEF DataInv, DataTypes, Boxes
<1>6. \A c, d \in Live' : c = d
  <2>1. LiveIn(inbox) = {} /\ Live' = LiveIn(inbox')
    BY <1>1 DEF Live, LiveIn
  <2> QED BY <1>1, <1>3, <1>4, <2>1, SendingMakesOne
<1> QED BY <1>1, <1>5, <1>6 DEF DataInv, CopyInv

(* A frame for another node is dropped; of a frame for this one either the *)
(* packet is delivered or one new frame is sent.                           *)
LEMMA RemoteKeepsInv ==
    ASSUME DataInv, NEW n \in Node, handle_remote_data_pkt(n)
    PROVE  DataInv'
<1> DEFINE pkt == Head(inbox[n])
           mine == n = pkt.daddr
           inner == IF pkt.protocol = "MOBILE" THEN minimal_mip_decap(pkt) ELSE pkt
           arrived == pkt.protocol = "MOBILE" => n = inner.daddr
           frames == IF mine /\ ~arrived THEN ip_route(n, inner, FALSE) ELSE <<>>
           left == [inbox EXCEPT ![n] = Tail(@)]
<1>1. /\ inbox[n] # <<>> /\ inbox' = Passed(n, frames, left) /\ route' = route
      /\ received' = IF mine /\ arrived THEN Append(received, n) ELSE received
  BY DEF handle_remote_data_pkt, IP_C_CLASS_MATCH
<1>0. DataTypes /\ inbox[n] # <<>> /\ IsRest(left, n)
  BY <1>1 DEF DataInv, IsRest
<1> HIDE DEF left
<1>2. /\ Boxes(left) /\ pkt \in Carried
      /\ \A m \in Node : m # n => left[m] = inbox[m]
      /\ Len(inbox[n]) = Len(left[n]) + 1
      /\ pkt = inbox[n][1]
      /\ \A i \in 1..Len(left[n]) : left[n][i] = inbox[n][i + 1]
  BY <1>0, TakenOut
<1>3. inner \in Packet /\ inner.daddr = Dest
  BY <1>2, OpenedIs
<1>4. Sendable(frames)
  BY <1>0, <1>3, RoutedFrame DEF Sendable
<1>5. mine /\ arrived => n = Dest
  BY <1>2, <1>3, OpenedIs
<1>6. frames # <<>> => mine /\ ~arrived
  OBVIOUS
<1> HIDE DEF inner, arrived, frames
<1>7. inbox \in [Node -> Seq(Carried)] /\ Live = LiveIn(inbox) /\ Live' = LiveIn(inbox')
  BY DEF DataInv, DataTypes, Live, LiveIn
<1>8. \A m \in Node : Len(left[m]) \in Nat /\ Len(inbox[m]) \in Nat
  BY <1>2, <1>7 DEF Boxes
<1>9. DataTypes'
  <2>1. received' \in Seq(Node)
    BY <1>1 DEF DataInv, DataTypes
  <2>2. Boxes(inbox')
    BY <1>1, <1>2, <1>4, PassedIs
  <2> QED BY <1>1, <2>1, <2>2 DEF DataInv, DataTypes, Boxes
<1>10. ASSUME NEW m \in Node, NEW i \in 1..Len(left[m]), left[m][i].daddr = m
       PROVE  <<m, IF m = n THEN i + 1 ELSE i>> \in Live
  <2>1. CASE m = n
    <3>1. i + 1 \in 1..Len(inbox[n]) /\ inbox[n][i + 1].daddr = n
      BY <1>2, <1>8, <1>10, <2>1
    <3> QED BY <1>7, <2>1, <3>1, LiveIs
  <2>2. CASE m # n
    BY <1>2, <1>7, <1>10, <2>2, LiveIs
  <2> QED BY <2>1, <2>2
<1>11. CASE mine
  <2>1. 1 \in 1..Len(inbox[n]) /\ inbox[n][1].daddr = n
    BY <1>2, <1>8, <1>11
  <2>2. <<n, 1>> \in Live
    BY <1>7, <2>1, LiveIs
  <2>3. \A c \in Live : c = <<n, 1>>
    BY <2>2 DEF DataInv, CopyInv
  <2>4. ASSUME NEW m \in Node, NEW i \in 1..Len(left[m]), left[m][i].daddr = m PROVE FALSE
    <3>1. <<m, IF m = n THEN i + 1 ELSE i>> = <<n, 1>>
      BY <1>10, <2>3, <2>4
    <3>2. m = n /\ i + 1 = 1
      BY <3>1
    <3> QED BY <3>2
  <2>5. LiveIn(left) = {}
    BY <1>2, <2>4, LiveIs DEF Boxes
  <2>6. /\ \A c, d \in Live' : c = d
        /\ frames = <<>> => Live' = {}
    BY <1>1, <1>2, <1>4, <1>7, <2>5, SendingMakesOne
  <2>7. received = <<>>
    BY <2>2 DEF DataInv, CopyInv
  <2>8. CASE arrived
    <3>1. received' = <<n>> /\ n = Dest /\ frames = <<>>
      BY <1>1, <1>5, <1>6, <1>11, <2>7, <2>8
    <3>2. Len(received') <= 1 /\ \A i \in 1..Len(received') : received'[i] = Dest
      BY <3>1
    <3> QED BY <1>9, <2>6, <3>1, <3>2 DEF DataInv, CopyInv
  <2>9. CASE ~arrived
    <3>1. received' = <<>>
      BY <1>1, <2>7, <2>9
    <3> QED BY <1>9, <2>6, <3>1 DEF DataInv, CopyInv
  <2> QED BY <2>8, <2>9
<1>12. CASE ~mine
  <2>1. frames = <<>> /\ received' = received
    BY <1>1, <1>6, <1>12
  <2>2. inbox' = left
    <3>1. \A f : <<f>> # <<>>
      OBVIOUS
    <3>2. Boxes(inbox') /\ Grown(inbox', left, frames)
      BY <1>1, <1>2, <1>4, PassedIs
    <3>3. \A m \in Node : inbox'[m] = left[m]
      BY <2>1, <3>1, <3>2 DEF Grown
    <3> QED BY <1>2, <3>2, <3>3 DEF Boxes
  <2>3. ASSUME NEW c \in Live'
        PROVE  \E m \in Node, i \in Nat : c = <<m, i>> /\ <<m, IF m = n THEN i + 1 ELSE i>> \in Live
    <3>1. PICK m \in Node : \E i \in 1..Len(left[m]) : c = <<m, i>> /\ left[m][i].daddr = m
      <4>1. c \in LiveIn(left)
        BY <1>7, <2>2, <2>3
      <4> QED BY <1>2, <4>1, LiveIs DEF Boxes
    <3>2. PICK i \in 1..Len(left[m]) : c = <<m, i>> /\ left[m][i].daddr = m
      BY <3>1
    <3> QED BY <1>8, <1>10, <3>2
  <2>4. ASSUME NEW c \in Live', NEW d \in Live' PROVE c = d
    <3>1. PICK m \in Node, i \in Nat : c = <<m, i>> /\ <<m, IF m = n THEN i + 1 ELSE i>> \in Live
      BY <2>3
    <3>2. PICK l \in Node, j \in Nat : d = <<l, j>> /\ <<l, IF l = n THEN j + 1 ELSE j>> \in Live
      BY <2>3
    <3>3. <<m, IF m = n THEN i + 1 ELSE i>> = <<l, IF l = n THEN j + 1 ELSE j>>
      BY <3>1, <3>2 DEF DataInv, CopyInv
    <3>4. m = l /\ i = j
      BY <3>3
    <3> QED BY <3>1, <3>2, <3>4
  <2>5. Live' # {} => received = <<>>
    BY <2>3 DEF DataInv, CopyInv
  <2> QED BY <1>9, <2>1, <2>4, <2>5 DEF DataInv, CopyInv
<1> QED BY <1>11, <1>12

(* However broadcasts are heard, tables differ and nodes move, one node at *)
(* most will take the packet, and only Dest delivers it, once.             *)
THEOREM DeliveredOnce == DataSpec => []OneCopy
<1>1. DataInit => DataInv
  <2> SUFFICES ASSUME DataInit PROVE DataInv
    OBVIOUS
  <2>1. DataTypes
    BY DataAssumption DEF DataInit, DataTypes
  <2>2. \A n \in Node : inbox[n] = <<>>
    BY DEF DataInit
  <2>3. Live = {}
    <3>1. Live = LiveIn(inbox) /\ inbox \in [Node -> Seq(Carried)]
      BY <2>1 DEF Live, LiveIn, DataTypes
    <3> QED BY <2>2, <3>1, LiveIs
  <2> QED BY <2>1, <2>3 DEF DataInit, DataInv, CopyInv
<1>2. DataInv /\ [DataNext]_dvars => DataInv'
  <2> SUFFICES ASSUME DataInv, [DataNext]_dvars PROVE DataInv'
    OBVIOUS
  <2>1. ASSUME NEW n \in Node, NEW r \in Node \cup {NoRoute}, Recalculate(n, r) PROVE DataInv'
    BY <2>1 DEF Recalculate, DataInv, DataTypes, CopyInv, Live
  <2>2. ASSUME NEW e \in Edge, Move(e) PROVE DataInv'
    BY <2>2 DEF Move, DataInv, DataTypes, CopyInv, Live
  <2>3. CASE UNCHANGED dvars
    BY <2>3 DEF dvars, DataInv, DataTypes, CopyInv, Live
  <2> QED BY <2>1, <2>2, <2>3, LocalKeepsInv, RemoteKeepsInv DEF DataNext
<1>3. DataInv => OneCopy
  <2> SUFFICES ASSUME DataInv PROVE OneCopy
    OBVIOUS
  <2>1. Cardinality(Live) + Len(received) <= 1
    <3>1. CASE Live = {}
      BY <3>1, FS_EmptySet DEF DataInv, CopyInv, DataTypes
    <3>2. CASE Live # {}
      <4>1. PICK c \in Live : Live = {c}
        BY <3>2 DEF DataInv, CopyInv
      <4>2. Cardinality(Live) = 1
        BY <4>1, FS_Singleton
      <4> QED BY <3>2, <4>2 DEF DataInv, CopyInv
    <3> QED BY <3>1, <3>2
  <2>2. DOMAIN received = 1..Len(received)
    BY DEF DataInv, DataTypes
  <2>3. ASSUME NEW n \in Node, NEW i \in DOMAIN inbox[n] PROVE inbox[n][i] \in Packet \cup Envelope
    <3>1. inbox[n] \in Seq(Carried)
      BY DEF DataInv, DataTypes
    <3>2. inbox[n][i] \in Carried
      BY <2>3, <3>1
    <3> QED BY <3>2 DEF Carried
  <2> QED BY <2>1, <2>2, <2>3 DEF OneCopy, DataInv, DataTypes, CopyInv
<1> QED BY <1>1, <1>2, <1>3, PTL DEF DataSpec
=============================================================================
