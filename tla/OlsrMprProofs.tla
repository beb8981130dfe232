--------------------------- MODULE OlsrMprProofs ----------------------------
(***************************************************************************)
(* Proofs about MPR selection, for any set of addresses, any radio graph   *)
(* and any sequence of HELLOs and expirations.                             *)
(***************************************************************************)
EXTENDS OlsrMpr, FiniteSetTheorems, WellFoundedInduction, TLAPS

-----------------------------------------------------------------------------
(* Helpers: least element, greatest measure. *)

(* Any non-empty set of naturals has a least element: the first element an *)
(* RBTREE_FOR loop visits exists.                                          *)
LEMMA NatMin ==
    ASSUME NEW T, T \subseteq Nat, T # {}
    PROVE  \E x \in T : \A y \in T : x <= y
<1> DEFINE R == {ss \in Nat \X Nat : ss[1] < ss[2]}
<1>0. IsWellFoundedOn(R, Nat)
  BY NatLessThanWellFounded, Zenon DEF OpToRel
<1> HIDE DEF R
<1>1. PICK x \in T : \A y \in T : ~ (<<y, x>> \in R)
  BY <1>0, WFMin
<1>2. \A y \in T : ~ (y < x)
  BY <1>1 DEF R
<1> QED
  BY <1>2

(* FirstOf picks an element of its argument. *)
LEMMA FirstOfIn ==
    ASSUME NEW S, S \subseteq Nat, S # {}
    PROVE  FirstOf(S) \in S
BY NatMin DEF FirstOf

(* A bounded measure on a non-empty set reaches its maximum: the loop of   *)
(* get_max_reachablilty_neigh finds a neighbour no other one exceeds.      *)
LEMMA MaxExists ==
    ASSUME NEW S, S # {}, NEW f \in [S -> Nat], NEW B \in Nat,
           \A p \in S : f[p] <= B
    PROVE  \E p \in S : \A q \in S : f[q] <= f[p]
<1> DEFINE T == {B - f[p] : p \in S}
<1>1. T \subseteq Nat /\ T # {}
  OBVIOUS
<1>2. PICK x \in T : \A y \in T : x <= y
  <2> HIDE DEF T
  <2> QED BY <1>1, NatMin
<1>3. PICK p \in S : x = B - f[p]
  BY <1>2
<1>4. ASSUME NEW q \in S PROVE f[q] <= f[p]
  <2>1. B - f[p] <= B - f[q]
    BY <1>2, <1>3
  <2> QED BY <2>1
<1> QED BY <1>4

(* Reachability counts a finite set: it is a natural number no larger than *)
(* the number of addresses, and positive exactly when the set is not empty.*)
LEMMA ReachabilityFacts ==
    ASSUME NEW p, NEW n2 \in SUBSET Addr, NEW nb
    PROVE  /\ Reachability(p, n2, nb) \in Nat
           /\ Reachability(p, n2, nb) <= Cardinality(Addr)
           /\ Reachability(p, n2, nb) > 0 <=> nb[p] \cap n2 # {}
<1> DEFINE U == nb[p] \cap n2
<1>1. U \in SUBSET Addr /\ IsFiniteSet(Addr)
  BY AddrAssumption
<1> HIDE DEF U
<1>2. IsFiniteSet(U) /\ Cardinality(U) <= Cardinality(Addr)
  BY <1>1, FS_Subset
<1>3. Cardinality(U) \in Nat /\ Cardinality(Addr) \in Nat
  BY <1>1, <1>2, FS_CardinalityType
<1>4. Cardinality(U) = 0 <=> U = {}
  BY <1>2, FS_EmptySet
<1>5. Reachability(p, n2, nb) = Cardinality(U)
  BY DEF Reachability, U
<1>6. nb[p] \cap n2 = U
  BY DEF U
<1> QED BY <1>2, <1>3, <1>4, <1>5, <1>6

(* get_max_reachablilty_neigh returns NULL only if no neighbour left in    *)
(* n1_set reaches a node left in n2_set.                                   *)
LEMMA MaxReachableNonEmpty ==
    ASSUME NEW sel, NEW nb, sel.n2 \in SUBSET Addr,
           NEW b \in sel.n1, nb[b] \cap sel.n2 # {}
    PROVE  MaxReachable(sel, nb) # {}
<1> DEFINE f == [p \in sel.n1 |-> Reachability(p, sel.n2, nb)]
           B == Cardinality(Addr)
<1>1. f \in [sel.n1 -> Nat] /\ (\A p \in sel.n1 : f[p] <= B)
  BY ReachabilityFacts
<1>2. B \in Nat
  BY AddrAssumption, FS_CardinalityType
<1>3. PICK p \in sel.n1 : \A q \in sel.n1 : f[q] <= f[p]
  <2> HIDE DEF f, B
  <2> QED BY <1>1, <1>2, MaxExists
<1>4. f[b] > 0
  BY ReachabilityFacts
<1>5. f[p] > 0
  <2>1. f[b] \in Nat /\ f[p] \in Nat /\ f[b] <= f[p]
    BY <1>1, <1>3
  <2> QED BY <1>4, <2>1
<1>6. p \in MaxReachable(sel, nb)
  BY <1>3, <1>5 DEF MaxReachable
<1> QED BY <1>6
-----------------------------------------------------------------------------
(* Steps of the selection. *)

(* Selecting a candidate that bridges an uncovered node, with the          *)
(* set_neighbor_status(MPR_NEIGH) that goes with it, keeps the invariant:  *)
(* what both phases of populate_mpr_set have in common.                    *)
LEMMA SelectKeepsInv ==
    ASSUME TypeOK, SelectionInv, pc # "idle",
           NEW m \in n1_set, neighbor2[m] \cap n2_set # {},
           StoreSelection(Select(Selection, m, neighbor2)),
           MarkMpr(Select(Selection, m, neighbor2)),
           UNCHANGED <<neighbor2, old_set, ansn>>,
           pc' = "greedy"
    PROVE  TypeOK' /\ SelectionInv'
<1>1. /\ mpr_tree' = mpr_tree \cup {m}
      /\ n1_set' = n1_set \ {m}
      /\ n2_set' = n2_set \ neighbor2[m]
      /\ status' = [p \in Peer |-> IF p \in mpr_tree \cup {m} THEN "MPR" ELSE status[p]]
  BY DEF StoreSelection, MarkMpr, Select, Selection
<1>2. m \in Peer /\ mpr_tree \subseteq Peer /\ IsSym(m)
  BY DEF TypeOK, SelectionInv, IsSym
<1>3. \A p \in Peer : IsSym(p)' <=> IsSym(p)
  BY <1>1, <1>2 DEF IsSym, SymStatus, SelectionInv
<1>4. TwoHop' = TwoHop
  BY <1>3 DEF TwoHop
<1>5. TypeOK'
  BY <1>1, <1>2 DEF TypeOK, Statuses
<1>6. mpr_tree' \cup n1_set' = {p \in Peer : IsSym(p)'} /\ mpr_tree' \cap n1_set' = {}
  BY <1>1, <1>2, <1>3 DEF SelectionInv
<1>7. n2_set' = {x \in TwoHop' : \A k \in mpr_tree' : x \notin neighbor2'[k]}
  BY <1>1, <1>4 DEF SelectionInv
<1>8. \A k \in mpr_tree' : status'[k] = "MPR" /\ neighbor2'[k] \cap TwoHop' # {}
  BY <1>1, <1>2, <1>4 DEF SelectionInv
<1> QED BY <1>5, <1>6, <1>7, <1>8 DEF SelectionInv

(* Type correctness and the selection invariant are preserved by every     *)
(* handler and every phase of populate_mpr_set.                            *)
LEMMA StepKeepsInv ==
    ASSUME TypeOK, SelectionInv, [Next]_vars
    PROVE  TypeOK' /\ SelectionInv'
<1>1. ASSUME NEW p \in Peer, NEW listed \in SUBSET Addr, RecvHello(p, listed)
      PROVE  TypeOK' /\ SelectionInv'
  <2>1. status' \in [Peer -> Statuses] /\ neighbor2' \in [Peer -> SUBSET Peer]
    BY <1>1 DEF RecvHello, TypeOK, Statuses, NeighborStatus, Peer
  <2>2. /\ mpr_tree' = {}
        /\ n1_set' = CalcN1(status')
        /\ n2_set' = CalcN2(own_ip, CalcN1(status'), neighbor2')
        /\ old_set' = mpr_tree /\ pc' = "unique" /\ ansn' = ansn
    BY <1>1 DEF RecvHello, StartSelection
  <2>3. n1_set' = {q \in Peer : IsSym(q)'}
    BY <2>1, <2>2 DEF CalcN1, IsSym
  <2>4. n2_set' = TwoHop'
    <3>1. ASSUME NEW x \in n2_set' PROVE x \in TwoHop'
      BY <2>1, <2>2, <2>3 DEF CalcN2, TwoHop
    <3>2. ASSUME NEW x \in TwoHop' PROVE x \in n2_set'
      BY <2>1, <2>2, <2>3 DEF CalcN2, TwoHop, Peer
    <3> QED BY <3>1, <3>2
  <2>5. TypeOK'
    BY <2>1, <2>2, <2>3, <2>4 DEF TypeOK, TwoHop
  <2> QED BY <2>2, <2>3, <2>4, <2>5 DEF SelectionInv
<1>2. ASSUME NEW p \in Peer, LinkExpire(p) PROVE TypeOK' /\ SelectionInv'
  BY <1>2 DEF LinkExpire, locals, TypeOK, Statuses, SelectionInv
<1>3. ASSUME NEW p \in Peer, NEW x \in Addr, Neigh2Expire(p, x)
      PROVE  TypeOK' /\ SelectionInv'
  BY <1>3 DEF Neigh2Expire, locals, TypeOK, SelectionInv
<1>4. ASSUME UniqueStep PROVE TypeOK' /\ SelectionInv'
  <2> DEFINE only == UniqueBridges(n1_set, n2_set, neighbor2)
  <2>1. CASE only = {}
    <3>1. /\ mpr_tree' = mpr_tree /\ n1_set' = n1_set /\ n2_set' = n2_set
          /\ status' = [p \in Peer |-> IF p \in mpr_tree THEN "MPR" ELSE status[p]]
          /\ UNCHANGED <<neighbor2, old_set, ansn>> /\ pc' = "greedy" /\ pc # "idle"
      BY <1>4, <2>1 DEF UniqueStep, AddUniqueBridge, StoreSelection, MarkMpr, Selection
    <3>2. status' = status
      BY <3>1 DEF SelectionInv, TypeOK
    <3> QED BY <3>1, <3>2 DEF TypeOK, SelectionInv, TwoHop, IsSym
  <2>2. CASE only # {}
    <3> DEFINE m == FirstOf(only)
    <3>1. only \subseteq Nat
      BY AddrAssumption DEF UniqueBridges, TypeOK, Peer
    <3>2. m \in only
      BY <2>2, <3>1, FirstOfIn
    <3>3. m \in n1_set /\ neighbor2[m] \cap n2_set # {}
      BY <3>2 DEF UniqueBridges, Bridges
    <3>4. AddUniqueBridge(Selection, neighbor2) = Select(Selection, m, neighbor2)
      BY <2>2 DEF AddUniqueBridge, Selection
    <3> HIDE DEF m
    <3> QED BY <1>4, <3>3, <3>4, SelectKeepsInv DEF UniqueStep
  <2> QED BY <2>1, <2>2
<1>5. ASSUME ReachabilityStep PROVE TypeOK' /\ SelectionInv'
  <2> DEFINE best == MaxReachable(Selection, neighbor2)
             m == FirstOf(best)
  <2>1. best # {} /\ GreedyStep(Selection, neighbor2) = Select(Selection, m, neighbor2)
    BY <1>5 DEF ReachabilityStep, GreedyContinues, GreedyStep
  <2>2. best \subseteq n1_set
    BY DEF MaxReachable, Selection
  <2>3. best \subseteq Nat
    BY <2>2, AddrAssumption DEF TypeOK, Peer
  <2>4. m \in best
    BY <2>1, <2>3, FirstOfIn
  <2>5. Reachability(m, n2_set, neighbor2) > 0
    BY <2>4 DEF MaxReachable, Selection
  <2>6. n2_set \in SUBSET Addr
    BY DEF TypeOK, Peer
  <2>7. neighbor2[m] \cap n2_set # {}
    BY <2>5, <2>6, ReachabilityFacts
  <2> HIDE DEF best, m
  <2> QED BY <1>5, <2>1, <2>2, <2>4, <2>7, SelectKeepsInv DEF ReachabilityStep
<1>6. ASSUME FinishSelection PROVE TypeOK' /\ SelectionInv'
  <2>1. ansn' \in 0..(AnsnMod - 1)
    BY <1>6, AnsnAssumption DEF FinishSelection, TypeOK
  <2>2. status' \in [Peer -> Statuses]
    BY <1>6 DEF FinishSelection, StatusAfter, TypeOK, Statuses
  <2> QED BY <1>6, <2>1, <2>2 DEF FinishSelection, TypeOK, SelectionInv
<1>7. CASE UNCHANGED vars
  BY <1>7 DEF vars, TypeOK, SelectionInv, TwoHop, IsSym
<1> QED BY <1>1, <1>2, <1>3, <1>4, <1>5, <1>6, <1>7 DEF Next
-----------------------------------------------------------------------------
(* Theorems. *)

(* The initial context is type correct and satisfies every invariant.      *)
LEMMA InitInv == Init => TypeOK /\ SelectionInv /\ StatusMatchesMprSet
BY AnsnAssumption DEF Init, TypeOK, Statuses, SelectionInv, StatusMatchesMprSet

(* Type correctness of the node's tables and of populate_mpr_set's locals, *)
(* together with the invariant of the selection.                           *)
THEOREM SelectionInvariant == Spec => [](TypeOK /\ SelectionInv)
<1>1. TypeOK /\ SelectionInv /\ [Next]_vars => (TypeOK /\ SelectionInv)'
  BY StepKeepsInv
<1> QED BY <1>1, InitInv, PTL DEF Spec

(* A call that ends has emptied n2_set.  If a two-hop neighbour x were     *)
(* left, one of its bridges would still be in n1_set with reachability     *)
(* above zero, and the loop would go on.                                   *)
LEMMA EndOfCall ==
    ASSUME TypeOK, SelectionInv, CallEnds
    PROVE  /\ n2_set = {}
           /\ \A x \in TwoHop : \E m \in mpr_tree : x \in neighbor2[m]
<1>1. ASSUME NEW x \in n2_set PROVE FALSE
  <2>1. x \in TwoHop /\ \A m \in mpr_tree : x \notin neighbor2[m]
    BY <1>1 DEF SelectionInv, CallEnds
  <2>2. PICK b \in Peer : IsSym(b) /\ x \in neighbor2[b]
    BY <2>1 DEF TwoHop
  <2>3. b \in n1_set
    BY <2>1, <2>2 DEF SelectionInv, CallEnds
  <2>4. /\ b \in Selection.n1 /\ Selection.n2 \in SUBSET Addr
        /\ neighbor2[b] \cap Selection.n2 # {}
    BY <1>1, <2>2, <2>3 DEF Selection, TypeOK, Peer
  <2>5. MaxReachable(Selection, neighbor2) # {}
    BY <2>4, MaxReachableNonEmpty
  <2>6. Selection.n2 # {}
    BY <1>1 DEF Selection
  <2> QED BY <2>5, <2>6 DEF CallEnds, GreedyContinues
<1> QED BY <1>1 DEF SelectionInv, CallEnds

(* populate_mpr_set never ends with an uncovered two-hop neighbour: the    *)
(* log line "N2 set not empty!!" of olsr_mpr.c is unreachable.             *)
THEOREM MprCoverage == Spec => []MprCoversTwoHop
<1>1. TypeOK /\ SelectionInv => MprCoversTwoHop
  BY EndOfCall DEF MprCoversTwoHop
<1> QED BY <1>1, SelectionInvariant, PTL

(* The MPR_NEIGH statuses a HELLO advertises agree with mpr_tree whenever  *)
(* no call is under way.                                                   *)
THEOREM StatusAgreement == Spec => []StatusMatchesMprSet
<1>1. ASSUME TypeOK, SelectionInv, StatusMatchesMprSet, [Next]_vars
      PROVE  StatusMatchesMprSet'
  <2>1. ASSUME NEW p \in Peer, LinkExpire(p) PROVE StatusMatchesMprSet'
    BY <1>1, <2>1 DEF LinkExpire, StatusMatchesMprSet, TypeOK
  <2>2. ASSUME NEW p \in Peer, NEW x \in Addr, Neigh2Expire(p, x)
        PROVE  StatusMatchesMprSet'
    BY <1>1, <2>2 DEF Neigh2Expire, StatusMatchesMprSet
  <2>3. ASSUME FinishSelection PROVE StatusMatchesMprSet'
    <3>1. \A p \in Peer : status'[p] = IF p \in mpr_tree THEN "MPR"
                                      ELSE IF p \in n1_set THEN "SYM" ELSE status[p]
      BY <1>1, <2>3 DEF FinishSelection, StatusAfter, Selection, TypeOK
    <3>2. \A p \in Peer : p \notin mpr_tree /\ p \notin n1_set => status[p] # "MPR"
      BY <1>1, <2>3 DEF FinishSelection, SelectionInv, IsSym, SymStatus
    <3>3. mpr_tree' = mpr_tree
      BY <2>3 DEF FinishSelection
    <3> QED BY <3>1, <3>2, <3>3 DEF StatusMatchesMprSet
  <2>4. ASSUME pc' # "idle" PROVE StatusMatchesMprSet'
    BY <2>4 DEF StatusMatchesMprSet
  <2>5. CASE UNCHANGED vars
    BY <1>1, <2>5 DEF vars, StatusMatchesMprSet
  <2> QED BY <1>1, <2>1, <2>2, <2>3, <2>4, <2>5
          DEF Next, RecvHello, UniqueStep, ReachabilityStep
<1>2. TypeOK /\ SelectionInv /\ StatusMatchesMprSet /\ [Next]_vars
        => StatusMatchesMprSet'
  BY <1>1
<1> QED BY <1>2, InitInv, SelectionInvariant, PTL DEF Spec
-----------------------------------------------------------------------------
(* The implementation of MprPromise. *)

(* The relays that MprPromise speaks of. *)
Relays == IF pc = "idle" THEN mpr_tree ELSE old_set

(* OlsrMpr implements MprPromise: between calls the MPR set only changes   *)
(* by being replaced, at the end of populate_mpr_set, by symmetric         *)
(* neighbours that reach every strict two-hop neighbour.                   *)
THEOREM MprRefinement == Spec => KeepsPromise
<1>1. Init => Promise!Init
  BY DEF Init, Promise!Init, Promise!Peers, Peer, CalcN1, SymStatus
<1>2. ASSUME TypeOK, SelectionInv, [Next]_vars
      PROVE  [Promise!Next]_(Promise!vars)
  <2>0. TypeOK'
    BY <1>2, StepKeepsInv
  <2>1. /\ CalcN1(status) \in SUBSET Peer /\ CalcN1(status') \in SUBSET Peer
        /\ neighbor2' \in [Peer -> SUBSET Peer]
    BY <1>2, <2>0 DEF TypeOK, CalcN1
  <2>2. ASSUME UNCHANGED Relays PROVE Promise!NeighborhoodChanges
    BY <2>1, <2>2 DEF Promise!NeighborhoodChanges, Promise!Peers, Peer, Relays
  <2>3. ASSUME NEW p \in Peer, NEW listed \in SUBSET Addr, RecvHello(p, listed)
        PROVE  UNCHANGED Relays
    BY <2>3 DEF RecvHello, Relays
  <2>4. ASSUME NEW p \in Peer, LinkExpire(p) PROVE UNCHANGED Relays
    BY <2>4 DEF LinkExpire, Relays, locals
  <2>5. ASSUME NEW p \in Peer, NEW x \in Addr, Neigh2Expire(p, x) PROVE UNCHANGED Relays
    BY <2>5 DEF Neigh2Expire, Relays, locals
  <2>6. CASE UniqueStep \/ ReachabilityStep
    <3>1. UNCHANGED Relays
      BY <2>6 DEF UniqueStep, ReachabilityStep, Relays
    <3> QED BY <2>2, <3>1 DEF Promise!Next
  <2>7. CASE FinishSelection
    <3>1. CallEnds /\ pc = "greedy"
      BY <2>7 DEF FinishSelection, CallEnds
    <3>2. \A x \in TwoHop : \E m \in mpr_tree : x \in neighbor2[m]
      BY <1>2, <3>1, EndOfCall
    <3>3. CalcN1(status) = {p \in Peer : IsSym(p)}
      BY <1>2 DEF CalcN1, IsSym, TypeOK
    <3>4. CalcN1(status') = CalcN1(status)
      BY <1>2, <2>7, <3>1, <3>3
      DEF FinishSelection, StatusAfter, Selection, SelectionInv, CalcN1, IsSym, SymStatus, TypeOK
    <3>5. mpr_tree \in SUBSET CalcN1(status)
      BY <1>2, <3>1, <3>3 DEF SelectionInv
    <3>6. mpr_tree' = mpr_tree /\ neighbor2' = neighbor2 /\ pc' = "idle"
      BY <2>7 DEF FinishSelection
    <3>7. \A x \in Peer :
            Promise!StrictTwoHop(x) => \E m \in mpr_tree : x \in neighbor2[m]
      BY <3>2, <3>3 DEF Promise!StrictTwoHop, TwoHop
    <3>8. Promise!Reselect
      BY <3>4, <3>5, <3>6, <3>7
      DEF Promise!Reselect, Promise!ReachedBy, Promise!Peers, Peer
    <3> QED BY <3>8 DEF Promise!Next
  <2>8. CASE UNCHANGED vars
    BY <2>8 DEF vars, Promise!vars
  <2> QED BY <1>2, <2>2, <2>3, <2>4, <2>5, <2>6, <2>7, <2>8 DEF Next, Promise!Next
<1>3. TypeOK /\ SelectionInv /\ [Next]_vars => [Promise!Next]_(Promise!vars)
  BY <1>2
<1> QED BY <1>1, <1>3, SelectionInvariant, PTL DEF Spec, KeepsPromise, Promise!Spec
=============================================================================
