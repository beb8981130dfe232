---------------------------- MODULE OlsrTopology ----------------------------
(***************************************************************************)
(* What one node knows of the topology around another one (simnet/olsr/    *)
(* olsr_tc.c): an originator advertises its MPR selectors in periodic TCs, *)
(* numbered by a 16-bit ANSN, and a receiver keeps the TopologyInfoElem    *)
(* they describe, while TCs may be lost, delayed and overtaken.            *)
(*                                                                         *)
(* Time advances in TC intervals, one TC each.  Instead of numbering the   *)
(* TCs, history variables count how many newer ones there are: the age of  *)
(* a TC under way, and of the TC the receiver accepted last.               *)
(***************************************************************************)
EXTENDS AddrOrder

CONSTANTS
    Addr,         \* the addresses that can be advertised
    AnsnMod,      \* the ANSN is a uint16_t: 2^16 in the code
    VTime,        \* DEF_TC_VTIME in TC intervals: 3 in the code
    MaxDelay,     \* newer TCs that may be built while one is under way
    MaxBumps,     \* changes of the originator's MPR set in one TC interval
    MaxObsolete   \* max_obsolutes in remove_obsolute_advertised_neighbor: 10

ASSUME TopologyAssumption == /\ Addr \subseteq Nat /\ IsFiniteSet(Addr)
                             /\ AnsnMod \in Nat \ {0}
                             /\ VTime \in Nat \ {0} /\ MaxDelay \in Nat /\ MaxBumps \in Nat
                             /\ MaxObsolete \in Nat \ {0}

(* The ANSN takes longer to come round than a TC is under way and known:   *)
(* each interval moves it by one for the TC and by one per MPR change.     *)
ASSUME WrapAssumption == (MaxBumps + 1) * (MaxDelay + VTime + 1) < AnsnMod

VARIABLES
    selectors,     \* ctx->selector_tree: the originator's MPR selectors
    ansn,          \* the originator's ctx->ansn
    bumped,        \* MPR changes that have moved ansn in this interval
    under_way,     \* TCs under way
    known,         \* whether the receiver has a TopologyInfoElem
    seq,           \* telem->seq
    an_tree,       \* telem->an_tree
    expire_timer,  \* intervals until telem->expire_timer is due
    last,          \* history: age of the TC accepted last
    calm           \* TRUE once selectors are fixed and nothing is lost

tvars == <<selectors, ansn, bumped, under_way, known, seq, an_tree, expire_timer, last, calm>>
sender == <<selectors, ansn, bumped>>
receiver == <<known, seq, an_tree, expire_timer, last>>

MaxAge == MaxDelay + VTime + 2
Older(age) == IF age < MaxAge THEN age + 1 ELSE MaxAge

TopologyInit ==
    /\ selectors = {} /\ ansn = 0 /\ bumped = 0
    /\ under_way = {}
    /\ known = FALSE /\ seq = 0 /\ an_tree = {} /\ expire_timer = 0 /\ last = MaxAge
    /\ calm = FALSE
-----------------------------------------------------------------------------
(* A HELLO or a timer changes the selectors; build_olsr_tc does not care   *)
(* which.                                                                  *)
ChangeSelectors(new) ==
    /\ ~calm
    /\ selectors' = new
    /\ UNCHANGED <<ansn, bumped, under_way, receiver, calm>>

(* populate_mpr_set moves ansn on when the MPR set of the originator has   *)
(* changed.                                                                *)
MprChange ==
    /\ bumped < MaxBumps
    /\ ansn' = (ansn + 1) % AnsnMod
    /\ bumped' = bumped + 1
    /\ UNCHANGED <<selectors, under_way, receiver, calm>>

(* olsr_tc_timer_cb with build_olsr_tc, and the interval that begins with  *)
(* it: timers count down, TCs under way grow older.                        *)
BuildTc ==
    /\ \A msg \in under_way : msg.age < MaxDelay
    /\ known => expire_timer > 0
    /\ under_way' = {[msg EXCEPT !.age = Older(@)] : msg \in under_way}
                \cup {[ansn |-> ansn, neigh |-> selectors, age |-> 0]}
    /\ ansn' = (ansn + 1) % AnsnMod
    /\ bumped' = 0
    /\ expire_timer' = IF known THEN expire_timer - 1 ELSE 0
    /\ last' = Older(last)
    /\ UNCHANGED <<selectors, known, seq, an_tree, calm>>

Lose(msg) ==
    /\ ~calm
    /\ under_way' = under_way \ {msg}
    /\ UNCHANGED <<sender, receiver, calm>>
-----------------------------------------------------------------------------
(* Mutant: the test for an old sequence number is the wrong way round. *)
AcceptsOlder(msg) == ~known \/ msg.ansn <= seq

(* The TC is not ignored as old; for a new TopologyInfoElem seq is the     *)
(* TC's own ANSN.                                                          *)
Accepts(msg) == ~known \/ msg.ansn >= seq

(* Mutant: an advertised neighbour that is already known stays marked      *)
(* obsolete.                                                               *)
TreeAfterKeepsMark(old, new) == (new \ old) \cup AfterFirst(old, MaxObsolete)

(* The advertised neighbours after a TC: the new ones, and the obsolete    *)
(* ones that remove_obsolute_advertised_neighbor does not get to.          *)
TreeAfter(old, new) == new \cup AfterFirst(old \ new, MaxObsolete)

(* process_olsr_tc behind its neighbour check. *)
RecvTc(msg) ==
    /\ under_way' = under_way \ {msg}
    /\ IF Accepts(msg)
       THEN /\ known' = TRUE
            /\ seq' = msg.ansn
            /\ an_tree' = TreeAfter(an_tree, msg.neigh)
            /\ expire_timer' = VTime
            /\ last' = msg.age
       ELSE UNCHANGED receiver
    /\ UNCHANGED <<sender, calm>>

(* topology_info_timer_expire_cb. *)
TopologyExpire ==
    /\ known /\ expire_timer = 0
    /\ known' = FALSE /\ an_tree' = {} /\ seq' = 0 /\ last' = MaxAge
    /\ UNCHANGED <<sender, under_way, expire_timer, calm>>

Settle ==
    /\ ~calm
    /\ calm' = TRUE
    /\ UNCHANGED <<sender, under_way, receiver>>

TopologyNext ==
    \/ \E new \in SUBSET Addr : ChangeSelectors(new)
    \/ MprChange
    \/ BuildTc
    \/ \E msg \in under_way : Lose(msg)
    \/ \E msg \in under_way : RecvTc(msg)
    \/ TopologyExpire
    \/ Settle

(* TCs are built, delivered unless lost, and timers fire. *)
Fairness ==
    /\ WF_tvars(BuildTc)
    /\ WF_tvars(\E msg \in under_way : RecvTc(msg))
    /\ WF_tvars(TopologyExpire)

TopologySpec == TopologyInit /\ [][TopologyNext]_tvars
FairTopologySpec == TopologySpec /\ Fairness
-----------------------------------------------------------------------------
TopologyTypes ==
    /\ selectors \subseteq Addr /\ an_tree \subseteq Addr
    /\ ansn \in 0..(AnsnMod - 1) /\ seq \in 0..(AnsnMod - 1)
    /\ bumped \in 0..MaxBumps /\ known \in BOOLEAN /\ calm \in BOOLEAN
    /\ expire_timer \in 0..VTime /\ last \in 0..MaxAge
    /\ \A msg \in under_way : msg.neigh \subseteq Addr /\ msg.age \in 0..MaxDelay

(* process_olsr_tc takes a TC exactly when it is newer than what the       *)
(* receiver has: one that was overtaken never takes the topology back, and *)
(* "Ignore TC (old seqno)" is said of old ones only.  Promised as long as  *)
(* the ANSN has not wrapped since either was built; after a wrap new TCs   *)
(* are ignored until the element expires (CatchesUp).                      *)
NeverOlder ==
    /\ TopologyTypes
    /\ \A msg \in under_way :
          (known /\ msg.ansn < ansn /\ seq < ansn) => (Accepts(msg) <=> msg.age < last)

(* Once the selectors stay the same and TCs arrive, the receiver knows the *)
(* originator again and again, also after each wrap of the ANSN, and from  *)
(* some time on whatever it knows is right: leftovers of longer lists are  *)
(* gone, re-advertised neighbours stay.                                    *)
CatchesUp ==
    [](calm => []<>known /\ <>[](known => an_tree = selectors))
=============================================================================
