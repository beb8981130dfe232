-------------------------- MODULE OlsrHelloProofs ---------------------------
(***************************************************************************)
(* Link sensing, for any nodes, any radio conditions, any losses and any   *)
(* hold time: the neighbour table follows the links, a symmetric link is   *)
(* not older than two hold times, and the link to a selector is there.     *)
(***************************************************************************)
EXTENDS OlsrHello, FiniteSetTheorems, WellFoundedInduction, TLAPS

Statuses == {"NONE", "NOT", "SYM", "MPR"}
Entry == [addr : Node, neigh : Statuses]

(* What the handlers may find. *)
HelloTypes ==
    /\ TypeOK
    /\ radio \in RadioConditions
    /\ air \subseteq [from : Node, to : Node, info : SUBSET Entry]

StatusInv == \A n, m \in Node : status[n][m] \in SymStatus <=> link[n][m] = "SYM"

(* Two nodes know of each other's receptions by one hold time each: a link *)
(* exists for one after the last reception, and a HELLO that lists a link  *)
(* is received while it exists; it keeps the link of its receiver          *)
(* symmetric for one more.                                                 *)
RecentInv ==
    /\ \A n, m \in Node : link[n][m] # "NONE" =>
          expire_timer[n][m] >= 0 /\ silence[n][m] + expire_timer[n][m] <= VTime
    /\ \A msg \in air : (\E e \in msg.info : e.addr = msg.to) =>
          silence[msg.from][msg.to] <= VTime
    /\ \A n, m \in Node : link[n][m] = "SYM" =>
          sym_timer[n][m] >= 0 /\ silence[m][n] + sym_timer[n][m] <= 2 * VTime

(* No timer of a link runs out before that of the selector. *)
SelectorInv ==
    \A n, m \in Node : selector_timer[n][m] > 0 =>
       /\ link[n][m] = "SYM"
       /\ selector_timer[n][m] <= sym_timer[n][m]
       /\ selector_timer[n][m] <= expire_timer[n][m]

IInv == HelloTypes /\ StatusInv /\ RecentInv /\ SelectorInv
-----------------------------------------------------------------------------
(* A non-empty set of naturals has a least element. *)
LEMMA LeastOf ==
    ASSUME NEW T, T \subseteq Nat, T # {}
    PROVE  \E x \in T : \A y \in T : x <= y
<1> DEFINE R == {ss \in Nat \X Nat : ss[1] < ss[2]}
<1>1. IsWellFoundedOn(R, Nat)
  BY NatLessThanWellFounded, Zenon DEF OpToRel
<1> HIDE DEF R
<1>2. PICK x \in T : \A y \in T : <<y, x>> \notin R
  BY <1>1, WFMin
<1>3. \A y \in T : ~(y < x)
  BY <1>2 DEF R
<1> QED BY <1>3

(* A set of naturals that is closed under successor is all of Nat: what    *)
(* stands in for induction below.                                          *)
LEMMA AllNat ==
    ASSUME NEW T, 0 \in T, \A k \in Nat : k \in T => k + 1 \in T
    PROVE  Nat \subseteq T
<1> SUFFICES ASSUME Nat \ T # {} PROVE FALSE
  OBVIOUS
<1>1. PICK x \in Nat \ T : \A y \in Nat \ T : x <= y
  BY LeastOf
<1>2. x # 0 /\ x - 1 \in Nat /\ (x - 1) + 1 = x
  BY <1>1
<1>3. x - 1 \notin T
  BY <1>1, <1>2
<1>4. x - 1 \in Nat \ T /\ ~(x <= x - 1)
  BY <1>1, <1>2, <1>3
<1> QED BY <1>1, <1>4

(* One turn of populate_mpr_set_by_reachability, and the states of the     *)
(* selection before and after each of its first n turns.                   *)
GreedyTurn(sel, neighbor2) ==
    IF GreedyContinues(sel, neighbor2) THEN GreedyStep(sel, neighbor2) ELSE sel

IsRun(f, n, first, neighbor2) ==
    f = [k \in 0..n |-> IF k = 0 THEN first ELSE GreedyTurn(f[k - 1], neighbor2)]

(* There is a run of every length, *)
LEMMA RunExists ==
    ASSUME NEW first, NEW neighbor2, NEW n \in Nat
    PROVE  \E f : IsRun(f, n, first, neighbor2)
<1> DEFINE T == {k \in Nat : \E f : IsRun(f, k, first, neighbor2)}
<1>1. 0 \in T
  <2>1. IsRun([k \in 0..0 |-> first], 0, first, neighbor2)
    BY DEF IsRun
  <2> QED BY <2>1
<1>2. ASSUME NEW k \in Nat, k \in T PROVE k + 1 \in T
  <2>1. PICK f : f = [j \in 0..k |-> IF j = 0 THEN first ELSE GreedyTurn(f[j - 1], neighbor2)]
    BY <1>2 DEF IsRun
  <2>2. PICK g : g = [j \in 0..(k + 1) |-> IF j <= k THEN f[j] ELSE GreedyTurn(f[k], neighbor2)]
    OBVIOUS
  <2>3. \A j \in 0..k : g[j] = f[j]
    BY <2>2
  <2>4. ASSUME NEW j \in 0..(k + 1)
        PROVE  g[j] = IF j = 0 THEN first ELSE GreedyTurn(g[j - 1], neighbor2)
    <3>1. CASE j = 0
      BY <2>1, <2>3, <3>1
    <3>2. CASE j \in 1..k
      <4>1. j \in 0..k /\ j - 1 \in 0..k /\ j # 0
        BY <3>2
      <4> QED BY <2>1, <2>3, <4>1
    <3>3. CASE j = k + 1
      <4>1. j # 0 /\ ~(j <= k) /\ j - 1 = k /\ k \in 0..k
        BY <3>3
      <4> QED BY <2>2, <2>3, <4>1
    <3> QED BY <3>1, <3>2, <3>3
  <2>5. IsRun(g, k + 1, first, neighbor2)
    BY <2>2, <2>4 DEF IsRun
  <2> QED BY <2>5
<1> HIDE DEF T
<1>3. Nat \subseteq T
  BY <1>1, <1>2, AllNat
<1> QED BY <1>3 DEF T

(* and a longer run goes on where a shorter one ends. *)
LEMMA RunUnique ==
    ASSUME NEW first, NEW neighbor2, NEW n \in Nat, NEW m \in Nat, n <= m,
           NEW f, IsRun(f, n, first, neighbor2), NEW g, IsRun(g, m, first, neighbor2)
    PROVE  \A k \in 0..n : f[k] = g[k]
<1> DEFINE T == {k \in Nat : k <= n => f[k] = g[k]}
<1>1. 0 \in T
  BY DEF IsRun
<1>2. ASSUME NEW k \in Nat, k \in T PROVE k + 1 \in T
  <2>1. SUFFICES ASSUME k + 1 <= n PROVE f[k + 1] = g[k + 1]
    OBVIOUS
  <2>2. f[k] = g[k] /\ k + 1 \in 0..n /\ k + 1 \in 0..m /\ k + 1 # 0 /\ (k + 1) - 1 = k
    BY <1>2, <2>1
  <2>3. f[k + 1] = GreedyTurn(f[k], neighbor2)
    BY <2>2 DEF IsRun
  <2>4. g[k + 1] = GreedyTurn(g[k], neighbor2)
    BY <2>2 DEF IsRun
  <2> QED BY <2>2, <2>3, <2>4
<1> HIDE DEF T
<1>3. Nat \subseteq T
  BY <1>1, <1>2, AllNat
<1> QED BY <1>3 DEF T

(* So the recursive definition in PopulateMprSet defines a function. *)
LEMMA TurnExists ==
    ASSUME NEW first, NEW neighbor2
    PROVE  \E f : f = [k \in Nat |-> IF k = 0 THEN first ELSE GreedyTurn(f[k - 1], neighbor2)]
<1> DEFINE Run(n) == CHOOSE f : IsRun(f, n, first, neighbor2)
<1>1. \A n \in Nat : IsRun(Run(n), n, first, neighbor2)
  BY RunExists
<1> HIDE DEF Run
<1>2. PICK g : g = [n \in Nat |-> Run(n)[n]]
  OBVIOUS
<1>3. ASSUME NEW k \in Nat
      PROVE  g[k] = IF k = 0 THEN first ELSE GreedyTurn(g[k - 1], neighbor2)
  <2>1. CASE k = 0
    BY <1>1, <1>2, <2>1 DEF IsRun
  <2>2. CASE k # 0
    <3>1. k - 1 \in Nat /\ k - 1 <= k /\ k - 1 \in 0..(k - 1) /\ k \in 0..k
      BY <2>2
    <3>2. Run(k)[k] = GreedyTurn(Run(k)[k - 1], neighbor2)
      BY <1>1, <2>2, <3>1 DEF IsRun
    <3>3. Run(k - 1)[k - 1] = Run(k)[k - 1]
      BY <1>1, <3>1, RunUnique
    <3>4. g[k] = Run(k)[k] /\ g[k - 1] = Run(k - 1)[k - 1]
      BY <1>2, <3>1
    <3> QED BY <2>2, <3>2, <3>3, <3>4
  <2> QED BY <2>1, <2>2
<1> QED BY <1>2, <1>3

(* Only symmetric neighbours are selected, and only these are candidates.  *)
Selects(sel, n1) == sel.mpr \subseteq n1 /\ sel.n1 \subseteq n1

(* FirstOf picks an element of its argument. *)
LEMMA FirstOfIn == ASSUME NEW S, S \subseteq Nat, S # {} PROVE FirstOf(S) \in S
BY LeastOf DEF FirstOf

(* A turn selects a candidate. *)
LEMMA TurnSelects ==
    ASSUME NEW n1 \in SUBSET Nat, NEW sel, Selects(sel, n1), NEW neighbor2
    PROVE  Selects(GreedyTurn(sel, neighbor2), n1)
<1>1. CASE GreedyContinues(sel, neighbor2)
  <2>1. PICK M : M = MaxReachable(sel, neighbor2)
    OBVIOUS
  <2>2. M # {} /\ M \subseteq sel.n1 /\ M \subseteq Nat
    BY <1>1, <2>1 DEF GreedyContinues, MaxReachable, Selects
  <2>3. FirstOf(M) \in sel.n1
    BY <2>2, FirstOfIn
  <2> QED BY <1>1, <2>1, <2>3 DEF GreedyTurn, GreedyStep, Select, Selects
<1>2. CASE ~GreedyContinues(sel, neighbor2)
  BY <1>2 DEF GreedyTurn
<1> QED BY <1>1, <1>2

(* populate_mpr_set selects from calc_n1_set's set. *)
LEMMA PopulateSelects ==
    ASSUME NEW own, NEW stat, NEW neighbor2, DOMAIN stat \subseteq Node
    PROVE  Selects(PopulateMprSet(own, stat, neighbor2), CalcN1(stat))
<1> DEFINE start == StartSelection(own, stat, neighbor2)
           first == AddUniqueBridge(start, neighbor2)
           turn[k \in Nat] ==
              IF k = 0 THEN AddUniqueBridge(start, neighbor2)
              ELSE LET sel == turn[k - 1]
                   IN  IF GreedyContinues(sel, neighbor2)
                       THEN GreedyStep(sel, neighbor2) ELSE sel
<1>1. PopulateMprSet(own, stat, neighbor2) = turn[Cardinality(start.n1)]
  BY DEF PopulateMprSet
<1>2. PICK N1 : N1 = CalcN1(stat)
  OBVIOUS
<1>3. N1 \subseteq Node /\ N1 \in SUBSET Nat /\ start.n1 = N1 /\ start.mpr = {}
  BY <1>2, HelloAssumption DEF StartSelection, CalcN1
<1>4. Cardinality(start.n1) \in Nat
  BY <1>3, HelloAssumption, FS_Subset, FS_CardinalityType
<1>5. Selects(start, N1)
  BY <1>3 DEF Selects
<1>6. Selects(first, N1)
  <2>1. PICK only : only = UniqueBridges(start.n1, start.n2, neighbor2)
    OBVIOUS
  <2>2. only \subseteq start.n1 /\ only \subseteq Nat
    BY <1>3, <2>1 DEF UniqueBridges
  <2>3. only # {} => FirstOf(only) \in start.n1
    BY <2>2, FirstOfIn
  <2> HIDE DEF start
  <2>4. first = IF only = {} THEN start ELSE Select(start, FirstOf(only), neighbor2)
    BY <2>1 DEF AddUniqueBridge
  <2> QED BY <1>5, <2>3, <2>4 DEF Selects, Select
<1>7. turn = [k \in Nat |-> IF k = 0 THEN first ELSE GreedyTurn(turn[k - 1], neighbor2)]
  <2> HIDE DEF start
  <2>1. turn = CHOOSE f : f = [k \in Nat |-> IF k = 0 THEN first
                                             ELSE GreedyTurn(f[k - 1], neighbor2)]
    BY DEF GreedyTurn
  <2> HIDE DEF turn, first
  <2> QED BY <2>1, TurnExists
<1> HIDE DEF start, first, turn
<1> DEFINE T == {k \in Nat : Selects(turn[k], N1)}
<1>8. 0 \in T
  BY <1>6, <1>7
<1>9. ASSUME NEW k \in Nat, k \in T PROVE k + 1 \in T
  <2>1. k + 1 # 0 /\ (k + 1) - 1 = k /\ k + 1 \in Nat
    OBVIOUS
  <2>2. turn[k + 1] = GreedyTurn(turn[k], neighbor2)
    BY <1>7, <2>1
  <2> QED BY <1>3, <1>9, <2>1, <2>2, TurnSelects
<1> HIDE DEF T
<1>10. Nat \subseteq T
  BY <1>8, <1>9, AllNat
<1> QED BY <1>1, <1>2, <1>4, <1>10 DEF T

(* The selection leaves every neighbour as symmetric as it was. *)
LEMMA StatusKept ==
    ASSUME NEW own, NEW neighbor2, NEW stat \in [Node -> Statuses],
           NEW sel, sel = PopulateMprSet(own, stat, neighbor2)
    PROVE  /\ sel.mpr \subseteq Node
           /\ StatusAfter(stat, sel) \in [Node -> Statuses]
           /\ \A m \in Node : StatusAfter(stat, sel)[m] \in SymStatus <=> stat[m] \in SymStatus
<1>1. DOMAIN stat \subseteq Node /\ DOMAIN stat = Node
  OBVIOUS
<1>2. Selects(sel, CalcN1(stat))
  BY <1>1, PopulateSelects
<1>3. CalcN1(stat) = {m \in Node : stat[m] \in SymStatus}
  BY DEF CalcN1
<1>4. sel.mpr \subseteq Node /\ \A m \in sel.mpr \cup sel.n1 : stat[m] \in SymStatus
  BY <1>2, <1>3 DEF Selects
<1>5. StatusAfter(stat, sel) = [m \in Node |-> IF m \in sel.mpr THEN "MPR"
                                               ELSE IF m \in sel.n1 THEN "SYM" ELSE stat[m]]
  BY <1>1 DEF StatusAfter
<1>6. StatusAfter(stat, sel) \in [Node -> Statuses]
  BY <1>5 DEF Statuses
<1>7. ASSUME NEW m \in Node
      PROVE  StatusAfter(stat, sel)[m] \in SymStatus <=> stat[m] \in SymStatus
  BY <1>4, <1>5 DEF SymStatus
<1> QED BY <1>4, <1>6, <1>7
-----------------------------------------------------------------------------
(* In the first state there are no links. *)
LEMMA InitInv == Init => IInv
<1> SUFFICES ASSUME Init PROVE IInv
  OBVIOUS
<1>1. VTime \in Nat \ {0} /\ MaxSilence \in 0..MaxSilence /\ Off \in Off..VTime
  BY HelloAssumption DEF MaxSilence, Off
<1>2. PerPair(Off) \in Timer /\ [x \in Node |-> Off] \in [Node -> Off..VTime]
  BY <1>1 DEF PerPair, Timer
<1>3. neigh2_timer \in [Node -> Timer]
  BY <1>2 DEF Init, PerPair, Timer
<1>4. HelloTypes
  BY <1>1, <1>2, <1>3, HelloAssumption DEF Init, HelloTypes, TypeOK, PerPair
<1>5. \A n, m \in Node : /\ link[n][m] = "NONE" /\ status[n][m] = "NONE"
                         /\ selector_timer[n][m] = Off
  BY DEF Init, PerPair
<1>6. StatusInv
  BY <1>5 DEF StatusInv, SymStatus
<1>7. RecentInv
  BY <1>5 DEF RecentInv, Init
<1>8. SelectorInv
  BY <1>5 DEF SelectorInv, Off
<1> QED BY <1>4, <1>6, <1>7, <1>8 DEF IInv

(* The tables of a state, entry by entry. *)
LEMMA EntryTypes ==
    ASSUME HelloTypes
    PROVE  \A n, m \in Node :
              /\ link[n][m] \in {"NONE", "ASYM", "SYM"} /\ status[n][m] \in Statuses
              /\ expire_timer[n][m] \in Off..VTime /\ sym_timer[n][m] \in Off..VTime
              /\ selector_timer[n][m] \in Off..VTime /\ silence[n][m] \in 0..MaxSilence
              /\ neigh2_timer[n][m] \in [Node -> Off..VTime]
BY DEF HelloTypes, TypeOK, Timer, Statuses

(* hello_timer_cb: what a HELLO lists has been heard within a hold time.   *)
LEMMA SendStep == ASSUME IInv, NEW n \in Node, SendHello(n) PROVE IInv'
<1>1. /\ UNCHANGED <<radio, link, expire_timer, sym_timer, status, neigh2_timer,
                     selector_timer, mpr_tree, calm, silence>>
      /\ sent' = sent \cup {n}
  BY DEF SendHello
<1>2. PICK missed : air' = air \cup {[from |-> n, to |-> m, info |-> Hello(n)] :
                                     m \in InRange(n) \ missed}
  BY DEF SendHello
<1>3. Hello(n) \subseteq Entry /\ \A e \in Hello(n) : link[n][e.addr] # "NONE"
  BY EntryTypes DEF Hello, Entry, IInv
<1>4. \A m \in InRange(n) : m \in Node /\ <<n, m>> \in radio.reach
  BY DEF InRange
<1>5. ASSUME NEW msg \in air'
      PROVE  msg \in air \/ (/\ msg.from = n /\ msg.to \in Node /\ <<n, msg.to>> \in radio.reach
                             /\ msg.info = Hello(n)
                             /\ msg \in [from : Node, to : Node, info : SUBSET Entry])
  <2>1. ASSUME msg \notin air
        PROVE  \E m \in InRange(n) : msg = [from |-> n, to |-> m, info |-> Hello(n)]
    BY <1>2, <2>1
  <2> QED BY <1>3, <1>4, <2>1
<1>6. HelloTypes'
  <2>1. TypeOK'
    BY <1>1, <1>5 DEF IInv, HelloTypes, TypeOK
  <2> QED BY <1>1, <1>5, <2>1 DEF IInv, HelloTypes
<1>7. StatusInv' /\ SelectorInv'
  BY <1>1 DEF IInv, StatusInv, SelectorInv
<1>8. ASSUME NEW msg \in air', NEW e \in msg.info, e.addr = msg.to
      PROVE  silence[msg.from][msg.to] <= VTime
  <2>1. CASE msg \in air
    BY <1>8, <2>1 DEF IInv, RecentInv
  <2>2. CASE msg \notin air
    <3>1. msg.from = n /\ msg.to \in Node /\ link[n][msg.to] # "NONE"
      BY <1>3, <1>5, <1>8, <2>2
    <3>2. /\ expire_timer[n][msg.to] >= 0
          /\ silence[n][msg.to] + expire_timer[n][msg.to] <= VTime
      BY <3>1 DEF IInv, RecentInv
    <3>3. silence[n][msg.to] \in Int /\ expire_timer[n][msg.to] \in Int /\ VTime \in Int
      BY <3>1, EntryTypes, HelloAssumption DEF IInv, Off
    <3> QED BY <3>1, <3>2, <3>3
  <2> QED BY <2>1, <2>2
<1>9. RecentInv'
  BY <1>1, <1>8 DEF IInv, RecentInv
<1> QED BY <1>6, <1>7, <1>9 DEF IInv

(* link_timer_expire: nothing is left of the link, and its selector entry  *)
(* is due as well.                                                         *)
LEMMA LinkExpireStep ==
    ASSUME IInv, NEW n \in Node, NEW p \in Node, LinkExpire(n, p)
    PROVE  IInv'
<1>1. /\ expire_timer[n][p] = 0 \/ sym_timer[n][p] = 0
      /\ link' = [link EXCEPT ![n][p] = "NONE"]
      /\ expire_timer' = [expire_timer EXCEPT ![n][p] = Off]
      /\ sym_timer' = [sym_timer EXCEPT ![n][p] = Off]
      /\ status' = [status EXCEPT ![n][p] = "NOT"]
      /\ UNCHANGED <<radio, neigh2_timer, selector_timer, mpr_tree, air, sent, calm, silence>>
  BY DEF LinkExpire
<1>2. Off \in Off..VTime
  BY HelloAssumption DEF Off
<1>3. HelloTypes'
  <2>1. TypeOK'
    BY <1>1, <1>2 DEF IInv, HelloTypes, TypeOK, Timer
  <2> QED BY <1>1, <2>1 DEF IInv, HelloTypes
<1>4. \A i, j \in Node :
         /\ link'[i][j] = IF i = n /\ j = p THEN "NONE" ELSE link[i][j]
         /\ expire_timer'[i][j] = IF i = n /\ j = p THEN Off ELSE expire_timer[i][j]
         /\ sym_timer'[i][j] = IF i = n /\ j = p THEN Off ELSE sym_timer[i][j]
         /\ status'[i][j] = IF i = n /\ j = p THEN "NOT" ELSE status[i][j]
  BY <1>1 DEF IInv, HelloTypes, TypeOK, Timer
<1>5. StatusInv'
  BY <1>4 DEF IInv, StatusInv, SymStatus
<1>6. RecentInv'
  BY <1>1, <1>4 DEF IInv, RecentInv
<1>7. ~(selector_timer[n][p] > 0)
  <2>1. /\ selector_timer[n][p] \in Int /\ sym_timer[n][p] \in Int
        /\ expire_timer[n][p] \in Int
    BY EntryTypes, HelloAssumption DEF IInv, Off
  <2> QED BY <1>1, <2>1 DEF IInv, SelectorInv
<1>8. SelectorInv'
  BY <1>1, <1>4, <1>7 DEF IInv, SelectorInv
<1> QED BY <1>3, <1>5, <1>6, <1>8 DEF IInv

(* neigh2_elem_expire, mpr_selector_expire, the end of losses, or nothing. *)
LEMMA OtherSteps ==
    ASSUME IInv,
           \/ \E n, p, x \in Node : Neigh2Expire(n, p, x)
           \/ \E n, p \in Node : SelectorExpire(n, p)
           \/ Settle \/ UNCHANGED vars
    PROVE  IInv'
<1>1. Off \in Off..VTime /\ ~(Off > 0)
  BY HelloAssumption DEF Off
<1>2. CASE \E n, p, x \in Node : Neigh2Expire(n, p, x)
  <2>1. PICK n \in Node, p \in Node, x \in Node : Neigh2Expire(n, p, x)
    BY <1>2
  <2>2. /\ neigh2_timer' = [neigh2_timer EXCEPT ![n][p][x] = Off]
        /\ UNCHANGED <<radio, link, expire_timer, sym_timer, status, selector_timer,
                       mpr_tree, air, sent, calm, silence>>
    BY <2>1 DEF Neigh2Expire
  <2>3. neigh2_timer' \in [Node -> Timer]
    BY <1>1, <2>2 DEF IInv, HelloTypes, TypeOK, Timer
  <2>4. HelloTypes'
    BY <2>2, <2>3 DEF IInv, HelloTypes, TypeOK
  <2> QED BY <2>2, <2>4 DEF IInv, StatusInv, RecentInv, SelectorInv
<1>3. CASE \E n, p \in Node : SelectorExpire(n, p)
  <2>1. PICK n \in Node, p \in Node : SelectorExpire(n, p)
    BY <1>3
  <2>2. /\ selector_timer' = [selector_timer EXCEPT ![n][p] = Off]
        /\ UNCHANGED <<radio, link, expire_timer, sym_timer, status, neigh2_timer,
                       mpr_tree, air, sent, calm, silence>>
    BY <2>1 DEF SelectorExpire
  <2>3. selector_timer' \in Timer
    BY <1>1, <2>2 DEF IInv, HelloTypes, TypeOK, Timer
  <2>4. HelloTypes'
    BY <2>2, <2>3 DEF IInv, HelloTypes, TypeOK
  <2>5. \A i, j \in Node :
           selector_timer'[i][j] = IF i = n /\ j = p THEN Off ELSE selector_timer[i][j]
    BY <2>2 DEF IInv, HelloTypes, TypeOK, Timer
  <2>6. SelectorInv'
    BY <1>1, <2>2, <2>5 DEF IInv, SelectorInv
  <2> QED BY <2>2, <2>4, <2>6 DEF IInv, StatusInv, RecentInv
<1>4. CASE Settle \/ UNCHANGED vars
  <2>1. /\ UNCHANGED <<radio, link, expire_timer, sym_timer, status, neigh2_timer,
                       selector_timer, mpr_tree, air, sent, silence>>
        /\ calm' = TRUE \/ calm' = calm
    BY <1>4 DEF Settle, vars
  <2>2. HelloTypes'
    BY <2>1 DEF IInv, HelloTypes, TypeOK
  <2> QED BY <2>1, <2>2 DEF IInv, StatusInv, RecentInv, SelectorInv
<1> QED BY <1>2, <1>3, <1>4

(* One HELLO interval: no timer is due, so every timer that runs has an    *)
(* interval left, and what silence gains the timers lose.                  *)
LEMMA TickStep == ASSUME IInv, Tick PROVE IInv'
<1>1. /\ air = {} /\ \A n, m \in Node : ~Due(n, m)
      /\ expire_timer' = CountDown(expire_timer)
      /\ sym_timer' = CountDown(sym_timer)
      /\ selector_timer' = CountDown(selector_timer)
      /\ neigh2_timer' = [n \in Node |-> CountDown(neigh2_timer[n])]
      /\ silence' = [n \in Node |-> [m \in Node |->
                       IF silence[n][m] < MaxSilence THEN silence[n][m] + 1 ELSE MaxSilence]]
      /\ sent' = {}
      /\ UNCHANGED <<radio, link, status, mpr_tree, air, calm>>
  BY DEF Tick
<1>2. VTime \in Nat \ {0} /\ MaxSilence = 2 * VTime + 1 /\ MaxSilence \in Nat
  BY HelloAssumption DEF MaxSilence
<1>3. ASSUME NEW n \in Node, NEW m \in Node
      PROVE  /\ expire_timer[n][m] # 0 /\ sym_timer[n][m] # 0 /\ selector_timer[n][m] # 0
             /\ \A x \in Node : neigh2_timer[n][m][x] # 0
  BY <1>1 DEF Due
<1>4. ASSUME NEW timers \in Timer, \A n, m \in Node : timers[n][m] # 0
      PROVE  /\ CountDown(timers) \in Timer
             /\ \A n, m \in Node : CountDown(timers)[n][m] =
                                      IF timers[n][m] = Off THEN Off ELSE timers[n][m] - 1
  <2>1. \A n, m \in Node : timers[n][m] \in Off..VTime
    BY DEF Timer
  <2>2. \A n, m \in Node :
           (IF timers[n][m] = Off THEN Off ELSE timers[n][m] - 1) \in Off..VTime
    BY <1>2, <1>4, <2>1 DEF Off
  <2> QED BY <2>2 DEF CountDown, Timer
<1>5. /\ expire_timer \in Timer /\ sym_timer \in Timer /\ selector_timer \in Timer
      /\ \A n \in Node : neigh2_timer[n] \in Timer
  BY DEF IInv, HelloTypes, TypeOK
<1>6. /\ expire_timer' \in Timer /\ sym_timer' \in Timer /\ selector_timer' \in Timer
      /\ neigh2_timer' \in [Node -> Timer]
  <2>1. \A n \in Node : CountDown(neigh2_timer[n]) \in Timer
    BY <1>3, <1>4, <1>5
  <2> QED BY <1>1, <1>3, <1>4, <1>5, <2>1
<1>7. silence' \in [Node -> [Node -> 0..MaxSilence]]
  BY <1>1, <1>2, EntryTypes DEF IInv
<1>8. HelloTypes'
  BY <1>1, <1>6, <1>7 DEF IInv, HelloTypes, TypeOK
<1>9. StatusInv'
  BY <1>1 DEF IInv, StatusInv
<1>10. \A n, m \in Node :
          /\ expire_timer'[n][m] = IF expire_timer[n][m] = Off THEN Off
                                   ELSE expire_timer[n][m] - 1
          /\ sym_timer'[n][m] = IF sym_timer[n][m] = Off THEN Off ELSE sym_timer[n][m] - 1
          /\ selector_timer'[n][m] = IF selector_timer[n][m] = Off THEN Off
                                     ELSE selector_timer[n][m] - 1
          /\ silence'[n][m] = IF silence[n][m] < MaxSilence THEN silence[n][m] + 1
                              ELSE MaxSilence
  BY <1>1, <1>3, <1>4, <1>5
<1>11. \A n, m \in Node :
          /\ expire_timer[n][m] \in Int /\ sym_timer[n][m] \in Int
          /\ selector_timer[n][m] \in Int /\ silence[n][m] \in Nat
          /\ silence[n][m] <= MaxSilence
  BY <1>2, EntryTypes DEF IInv, Off
<1>12. ASSUME NEW n \in Node, NEW m \in Node, link[n][m] # "NONE"
       PROVE  expire_timer'[n][m] >= 0 /\ silence'[n][m] + expire_timer'[n][m] <= VTime
  <2>1. expire_timer[n][m] >= 0 /\ silence[n][m] + expire_timer[n][m] <= VTime
    BY <1>12 DEF IInv, RecentInv
  <2> QED BY <1>2, <1>3, <1>10, <1>11, <2>1 DEF Off
<1>13. ASSUME NEW n \in Node, NEW m \in Node, link[n][m] = "SYM"
       PROVE  sym_timer'[n][m] >= 0 /\ silence'[m][n] + sym_timer'[n][m] <= 2 * VTime
  <2>1. sym_timer[n][m] >= 0 /\ silence[m][n] + sym_timer[n][m] <= 2 * VTime
    BY <1>13 DEF IInv, RecentInv
  <2> QED BY <1>2, <1>3, <1>10, <1>11, <2>1 DEF Off
<1>14. RecentInv'
  BY <1>1, <1>12, <1>13 DEF RecentInv
<1>15. ASSUME NEW n \in Node, NEW m \in Node, selector_timer'[n][m] > 0
       PROVE  /\ link[n][m] = "SYM" /\ selector_timer'[n][m] <= sym_timer'[n][m]
              /\ selector_timer'[n][m] <= expire_timer'[n][m]
  <2>1. selector_timer[n][m] > 0 /\ selector_timer'[n][m] = selector_timer[n][m] - 1
    BY <1>10, <1>11, <1>15 DEF Off
  <2>2. /\ link[n][m] = "SYM" /\ selector_timer[n][m] <= sym_timer[n][m]
        /\ selector_timer[n][m] <= expire_timer[n][m]
    BY <2>1 DEF IInv, SelectorInv
  <2> QED BY <1>10, <1>11, <2>1, <2>2 DEF Off
<1>16. SelectorInv'
  BY <1>1, <1>15 DEF SelectorInv
<1> QED BY <1>8, <1>9, <1>14, <1>16 DEF IInv

(* process_olsr_hello. *)
LEMMA RecvStep == ASSUME IInv, NEW msg \in air, RecvHello(msg) PROVE IInv'
<1>1. PICK n, p : n = msg.to /\ p = msg.from
  OBVIOUS
<1>2. PICK listed \in BOOLEAN : listed <=> \E e \in msg.info : e.addr = n
  OBVIOUS
<1>3. PICK others : others = {e.addr : e \in msg.info} \ {n}
  OBVIOUS
<1>4. n \in Node /\ p \in Node /\ msg.info \subseteq Entry
  BY <1>1 DEF IInv, HelloTypes
<1>5. PICK stat : stat = [status[n] EXCEPT ![p] =
                             NeighborStatus(status[n][p], link'[n][p] = "SYM")]
  OBVIOUS
<1>6. PICK sel : sel = PopulateMprSet(n, stat, Neighbor2(n)')
  OBVIOUS
<1>7. /\ air' = air \ {msg}
      /\ link' = [link EXCEPT ![n][p] = IF listed \/ link[n][p] = "SYM" THEN "SYM" ELSE "ASYM"]
      /\ expire_timer' = [expire_timer EXCEPT ![n][p] = VTime]
      /\ sym_timer' = [sym_timer EXCEPT ![n][p] = IF listed THEN VTime ELSE sym_timer[n][p]]
      /\ silence' = [silence EXCEPT ![n][p] = 0]
      /\ UNCHANGED <<radio, sent, calm>>
  BY <1>1, <1>2 DEF RecvHello, SymTimerSet
<1>8. selector_timer' = [selector_timer EXCEPT ![n][p] =
           IF [addr |-> n, neigh |-> "MPR"] \in msg.info THEN VTime ELSE selector_timer[n][p]]
  BY <1>1 DEF RecvHello
<1>9. /\ neigh2_timer' = IF stat[p] \in SymStatus
                         THEN [neigh2_timer EXCEPT ![n][p] =
                                 [x \in Node |-> IF x \in others THEN VTime
                                                 ELSE neigh2_timer[n][p][x]]]
                         ELSE neigh2_timer
      /\ mpr_tree' = [mpr_tree EXCEPT ![n] = sel.mpr]
      /\ status' = [status EXCEPT ![n] = StatusAfter(stat, sel)]
  BY <1>1, <1>3, <1>5, <1>6 DEF RecvHello
<1>10. VTime \in Nat \ {0} /\ VTime \in Off..VTime /\ 0 \in 0..MaxSilence
  BY HelloAssumption DEF Off, MaxSilence
<1>11. \A i, j \in Node :
          /\ link'[i][j] = IF i = n /\ j = p
                           THEN IF listed \/ link[i][j] = "SYM" THEN "SYM" ELSE "ASYM"
                           ELSE link[i][j]
          /\ expire_timer'[i][j] = IF i = n /\ j = p THEN VTime ELSE expire_timer[i][j]
          /\ sym_timer'[i][j] = IF i = n /\ j = p /\ listed THEN VTime ELSE sym_timer[i][j]
          /\ silence'[i][j] = IF i = n /\ j = p THEN 0 ELSE silence[i][j]
  BY <1>4, <1>7 DEF IInv, HelloTypes, TypeOK, Timer
<1>12. stat \in [Node -> Statuses] /\ \A m \in Node : stat[m] \in SymStatus <=> link'[n][m] = "SYM"
  <2>1. status[n] \in [Node -> Statuses]
    BY <1>4 DEF IInv, HelloTypes, TypeOK, Statuses
  <2>2. NeighborStatus(status[n][p], link'[n][p] = "SYM") \in Statuses
    BY DEF NeighborStatus, Statuses
  <2>3. NeighborStatus(status[n][p], link'[n][p] = "SYM") \in SymStatus <=> link'[n][p] = "SYM"
    BY DEF NeighborStatus, SymStatus
  <2>4. \A m \in Node : m # p => (stat[m] = status[n][m] /\ link'[n][m] = link[n][m])
    BY <1>4, <1>5, <1>11, <2>1
  <2>5. stat[p] = NeighborStatus(status[n][p], link'[n][p] = "SYM")
    BY <1>4, <1>5, <2>1
  <2>6. stat \in [Node -> Statuses]
    BY <1>5, <2>1, <2>2
  <2>7. ASSUME NEW m \in Node PROVE stat[m] \in SymStatus <=> link'[n][m] = "SYM"
    <3>1. CASE m = p
      BY <2>3, <2>5, <3>1
    <3>2. CASE m # p
      BY <1>4, <2>4, <3>2 DEF IInv, StatusInv
    <3> QED BY <3>1, <3>2
  <2> QED BY <2>6, <2>7
<1>13. /\ sel.mpr \subseteq Node
       /\ StatusAfter(stat, sel) \in [Node -> Statuses]
       /\ \A m \in Node : StatusAfter(stat, sel)[m] \in SymStatus <=> stat[m] \in SymStatus
  BY <1>6, <1>12, StatusKept
<1>14. StatusInv'
  <2>1. ASSUME NEW i \in Node, NEW j \in Node
        PROVE  status'[i][j] \in SymStatus <=> link'[i][j] = "SYM"
    <3>1. status \in [Node -> [Node -> Statuses]]
      BY DEF IInv, HelloTypes, TypeOK, Statuses
    <3>2. CASE i = n
      <4>1. status'[i] = StatusAfter(stat, sel)
        BY <1>4, <1>9, <3>1, <3>2
      <4> QED BY <1>12, <1>13, <3>2, <4>1
    <3>3. CASE i # n
      <4>1. status'[i] = status[i] /\ link'[i][j] = link[i][j]
        BY <1>9, <1>11, <3>1, <3>3
      <4> QED BY <4>1 DEF IInv, StatusInv
    <3> QED BY <3>2, <3>3
  <2> QED BY <2>1 DEF StatusInv
<1>15. HelloTypes'
  <2>1. link' \in [Node -> [Node -> {"NONE", "ASYM", "SYM"}]]
    BY <1>4, <1>7 DEF IInv, HelloTypes, TypeOK
  <2>2. status' \in [Node -> [Node -> {"NONE", "NOT", "SYM", "MPR"}]]
    BY <1>9, <1>13 DEF IInv, HelloTypes, TypeOK, Statuses
  <2>3. expire_timer' \in Timer
    BY <1>4, <1>7, <1>10 DEF IInv, HelloTypes, TypeOK, Timer
  <2>4. sym_timer' \in Timer
    BY <1>4, <1>7, <1>10 DEF IInv, HelloTypes, TypeOK, Timer
  <2>5. selector_timer' \in Timer
    BY <1>4, <1>8, <1>10 DEF IInv, HelloTypes, TypeOK, Timer
  <2>6. neigh2_timer' \in [Node -> Timer]
    <3>1. neigh2_timer \in [Node -> [Node -> [Node -> Off..VTime]]]
      BY DEF IInv, HelloTypes, TypeOK, Timer
    <3>2. [x \in Node |-> IF x \in others THEN VTime ELSE neigh2_timer[n][p][x]]
             \in [Node -> Off..VTime]
      BY <1>4, <1>10, <3>1
    <3> QED BY <1>4, <1>9, <3>1, <3>2 DEF Timer
  <2>7. mpr_tree' \in [Node -> SUBSET Node]
    BY <1>9, <1>13 DEF IInv, HelloTypes, TypeOK
  <2>8. silence' \in [Node -> [Node -> 0..MaxSilence]]
    BY <1>4, <1>7, <1>10 DEF IInv, HelloTypes, TypeOK
  <2>9. TypeOK'
    BY <1>7, <2>1, <2>2, <2>3, <2>4, <2>5, <2>6, <2>7, <2>8 DEF IInv, HelloTypes, TypeOK
  <2> QED BY <1>7, <2>9 DEF IInv, HelloTypes
<1>16. \A i, j \in Node : /\ silence[i][j] \in Nat /\ sym_timer[i][j] \in Int
                          /\ expire_timer[i][j] \in Int /\ selector_timer[i][j] \in Int
                          /\ selector_timer[i][j] <= VTime
                          /\ silence'[i][j] \in Nat /\ silence'[i][j] <= silence[i][j]
  BY <1>10, <1>11, EntryTypes, HelloAssumption DEF IInv, Off, MaxSilence
<1>17. listed => silence[p][n] <= VTime
  BY <1>1, <1>2 DEF IInv, RecentInv
<1>18. RecentInv'
  <2>1. ASSUME NEW i \in Node, NEW j \in Node, link'[i][j] # "NONE"
        PROVE  expire_timer'[i][j] >= 0 /\ silence'[i][j] + expire_timer'[i][j] <= VTime
    <3>1. CASE i = n /\ j = p
      BY <1>10, <1>11, <3>1
    <3>2. CASE ~(i = n /\ j = p)
      <4>1. /\ link[i][j] # "NONE" /\ expire_timer'[i][j] = expire_timer[i][j]
            /\ silence'[i][j] = silence[i][j]
        BY <1>11, <2>1, <3>2
      <4> QED BY <4>1 DEF IInv, RecentInv
    <3> QED BY <3>1, <3>2
  <2>2. ASSUME NEW m \in air', \E e \in m.info : e.addr = m.to
        PROVE  silence'[m.from][m.to] <= VTime
    <3>1. m \in air /\ m.from \in Node /\ m.to \in Node
      BY <1>7 DEF IInv, HelloTypes
    <3>2. silence[m.from][m.to] <= VTime
      BY <2>2, <3>1 DEF IInv, RecentInv
    <3> QED BY <1>10, <1>16, <3>1, <3>2
  <2>3. ASSUME NEW i \in Node, NEW j \in Node, link'[i][j] = "SYM"
        PROVE  sym_timer'[i][j] >= 0 /\ silence'[j][i] + sym_timer'[i][j] <= 2 * VTime
    <3>1. CASE i = n /\ j = p /\ listed
      <4>1. sym_timer'[i][j] = VTime /\ silence[j][i] <= VTime
        BY <1>11, <1>17, <3>1
      <4> QED BY <1>10, <1>16, <4>1
    <3>2. CASE ~(i = n /\ j = p /\ listed)
      <4>1. link[i][j] = "SYM" /\ sym_timer'[i][j] = sym_timer[i][j]
        BY <1>11, <2>3, <3>2
      <4>2. sym_timer[i][j] >= 0 /\ silence[j][i] + sym_timer[i][j] <= 2 * VTime
        BY <4>1 DEF IInv, RecentInv
      <4> QED BY <1>10, <1>16, <4>1, <4>2
    <3> QED BY <3>1, <3>2
  <2> QED BY <2>1, <2>2, <2>3 DEF RecentInv
<1>19. SelectorInv'
  <2>1. ASSUME NEW i \in Node, NEW j \in Node, selector_timer'[i][j] > 0
        PROVE  /\ link'[i][j] = "SYM" /\ selector_timer'[i][j] <= sym_timer'[i][j]
               /\ selector_timer'[i][j] <= expire_timer'[i][j]
    <3>1. CASE i = n /\ j = p /\ [addr |-> n, neigh |-> "MPR"] \in msg.info
      <4>1. listed
        BY <1>2, <3>1
      <4>2. selector_timer'[i][j] = VTime
        BY <1>4, <1>8, <3>1 DEF IInv, HelloTypes, TypeOK, Timer
      <4> QED BY <1>10, <1>11, <3>1, <4>1, <4>2
    <3>2. CASE ~(i = n /\ j = p /\ [addr |-> n, neigh |-> "MPR"] \in msg.info)
      <4>1. selector_timer'[i][j] = selector_timer[i][j]
        BY <1>4, <1>8, <3>2 DEF IInv, HelloTypes, TypeOK, Timer
      <4>2. /\ link[i][j] = "SYM" /\ selector_timer[i][j] <= sym_timer[i][j]
            /\ selector_timer[i][j] <= expire_timer[i][j]
        BY <2>1, <4>1 DEF IInv, SelectorInv
      <4>3. link'[i][j] = "SYM"
        BY <1>11, <4>2
      <4>4. /\ sym_timer'[i][j] = VTime \/ sym_timer'[i][j] = sym_timer[i][j]
            /\ expire_timer'[i][j] = VTime \/ expire_timer'[i][j] = expire_timer[i][j]
        BY <1>11
      <4> QED BY <1>16, <4>1, <4>2, <4>3, <4>4
    <3> QED BY <3>1, <3>2
  <2> QED BY <2>1 DEF SelectorInv
<1> QED BY <1>14, <1>15, <1>18, <1>19 DEF IInv
-----------------------------------------------------------------------------
(* Every step keeps the invariant. *)
LEMMA NextInv == ASSUME IInv, [Next]_vars PROVE IInv'
<1>1. CASE \E n \in Node : SendHello(n)
  BY <1>1, SendStep
<1>2. CASE \E msg \in air : RecvHello(msg)
  BY <1>2, RecvStep
<1>3. CASE \E n, p \in Node : LinkExpire(n, p)
  BY <1>3, LinkExpireStep
<1>4. CASE Tick
  BY <1>4, TickStep
<1>5. CASE \/ \E n, p, x \in Node : Neigh2Expire(n, p, x)
           \/ \E n, p \in Node : SelectorExpire(n, p)
           \/ Settle \/ UNCHANGED vars
  BY <1>5, OtherSteps
<1> QED BY <1>1, <1>2, <1>3, <1>4, <1>5 DEF Next

(* update_neighbor_status, set_neighbor_status and clean_n1_set together   *)
(* keep the neighbour table in step with the links, whatever the selection *)
(* of MPRs makes of it.                                                    *)
THEOREM NeighborsFollowLinks == Spec => []NeighborFollowsLink
<1>1. IInv => NeighborFollowsLink
  BY DEF IInv, HelloTypes, StatusInv, NeighborFollowsLink
<1> QED BY <1>1, InitInv, NextInv, PTL DEF Spec

(* With any losses, and however reception and expiry are ordered, a link   *)
(* that is symmetric at one end was heard at the other within two hold     *)
(* times.                                                                  *)
THEOREM SymmetricIsRecent == Spec => []SymIsRecent
<1>1. ASSUME IInv, NEW n \in Node, NEW m \in Node, link[n][m] = "SYM"
      PROVE  silence[m][n] <= 2 * VTime
  <2>1. sym_timer[n][m] >= 0 /\ silence[m][n] + sym_timer[n][m] <= 2 * VTime
    BY <1>1 DEF IInv, RecentInv
  <2>2. sym_timer[n][m] \in Int /\ silence[m][n] \in Int /\ VTime \in Int
    BY <1>1, EntryTypes, HelloAssumption DEF IInv, Off
  <2> QED BY <2>1, <2>2
<1>2. IInv => SymIsRecent
  BY <1>1 DEF SymIsRecent
<1> QED BY <1>2, InitInv, NextInv, PTL DEF Spec

(* A node that forwards for a selector has the link to it: link_timer_expire *)
(* never comes before mpr_selector_expire is due.                          *)
THEOREM SelectorsHaveLinks == Spec => []SelectorHasLink
<1>1. IInv => SelectorHasLink
  BY DEF IInv, SelectorInv, SelectorHasLink
<1> QED BY <1>1, InitInv, NextInv, PTL DEF Spec
=============================================================================
