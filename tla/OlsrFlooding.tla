---------------------------- MODULE OlsrFlooding ----------------------------
(***************************************************************************)
(* How OLSR messages travel (simnet/olsr: olsr_route.c, olsr_forwarding.c, *)
(* the head of process_olsr_tc): messages wait in a node's tx buffer, all  *)
(* that wait leave in one broadcast packet, receivers handle its messages  *)
(* one by one, and MPRs pass TCs on for the neighbours that selected them. *)
(* The duplicate set, keyed by originator and sequence number, decides     *)
(* what is handled and what is passed on.                                  *)
(*                                                                         *)
(* Links and MPR sets are those of a settled network, except that a node   *)
(* may lose the symmetric status of a neighbour.                           *)
(***************************************************************************)
EXTENDS MprSelection, Sequences

CONSTANTS
    Node,       \* node addresses, in rbtree order
    Scenarios,  \* the networks to consider, see Scenario
    TcTtl,      \* the ttl of a new TC; 64 in the code
    SeqMod      \* msg_seq is a uint16_t: 2^16

(* A radio graph, the nodes whose timers run and how many messages each of *)
(* them originates at most, how many messages fit into olsr_tx_msgbuf, and *)
(* what may go wrong: symmetric neighbours may be lost, packets too.       *)
Scenario == [graph : SUBSET (Node \X Node), hello : SUBSET Node, tc : SUBSET Node,
             limit : Nat, cap : Nat, churn : BOOLEAN, loss : BOOLEAN]

ASSUME FloodAssumption == /\ Node \subseteq Nat /\ IsFiniteSet(Node)
                          /\ Scenarios \subseteq Scenario
                          /\ TcTtl \in Nat \ {0} /\ SeqMod \in Nat \ {0}

(* A TC that every node relays once still has hops left.  The statistics   *)
(* of a node have room for MAX_NODE_COUNT = 50 others                      *)
(* (include/net_statistics.h), fewer than the ttl of 64.                   *)
ASSUME TtlAssumption == Cardinality(Node) <= TcTtl

VARIABLES
    net,        \* the scenario, chosen at the start
    sym,        \* per node, the neighbours it holds for symmetric
    msg_seq,    \* ctx->msg_seq
    tx,         \* ctx->olsr_tx_msgbuf, a sequence of messages
    air,        \* packets under way, per sender and receiver in order
    rx,         \* the packet handle_route_pkt is in: what is left, and its sender
    selector_tree, \* ctx->selector_tree
    dup_tree,   \* ctx->dup_tree: the keys in it
    retransmitted, \* the keys of dup_tree whose retransmitted flag is set
    issued,     \* history: messages each node has originated, per type
    processed,  \* history: messages a node's handlers have taken
    dropped,    \* history: messages a node dropped as duplicates
    relays,     \* history: messages each node has set out to pass on, in order
    refused     \* history: messages that met a full tx buffer

history == <<issued, processed, dropped, relays, refused>>
network == <<net, selector_tree>>
dups == <<dup_tree, retransmitted>>
vars == <<network, sym, msg_seq, tx, air, rx, dups, history>>

Adj(n) == {m \in Node : <<n, m>> \in net.graph}

MsgType == {"HELLO", "TC"}

(* The settled tables of node n, and the MPRs it selects from them. *)
Mprs(n) ==
    LET status == [p \in Node |-> IF p \in Adj(n) THEN "SYM" ELSE "NONE"]
        neighbor2 == [p \in Node |-> Adj(p) \ {n}]
    IN  PopulateMprSet(n, status, neighbor2).mpr

Key(msg) == [orig |-> msg.orig, seq |-> msg.seq]
Identity(msg) == [orig |-> msg.orig, type |-> msg.type, nr |-> msg.nr]
NoPacket == [src |-> 0, msgs |-> <<>>]

Init ==
    /\ net \in Scenarios
    /\ sym = [n \in Node |-> Adj(n)]
    /\ msg_seq = [n \in Node |-> 0]
    /\ tx = [n \in Node |-> <<>>]
    /\ air = [n \in Node |-> [m \in Node |-> <<>>]]
    /\ rx = [n \in Node |-> NoPacket]
    /\ selector_tree = [n \in Node |-> {p \in Node : n \in Mprs(p)}]
    /\ dup_tree = [n \in Node |-> {}] /\ retransmitted = [n \in Node |-> {}]
    /\ issued = [n \in Node |-> [type \in MsgType |-> 0]]
    /\ processed = [n \in Node |-> {}] /\ dropped = [n \in Node |-> {}]
    /\ relays = [n \in Node |-> <<>>] /\ refused = {}
-----------------------------------------------------------------------------
(* RingBuffer_push: a message that does not fit is lost. *)
Push(n, msg) ==
    IF Len(tx[n]) < net.cap
    THEN tx' = [tx EXCEPT ![n] = Append(@, msg)] /\ UNCHANGED refused
    ELSE refused' = refused \cup {Identity(msg)} /\ UNCHANGED tx

(* No packet is being parsed: the thread is free for its timers. *)
Free(n) == rx[n].msgs = <<>>

(* Every copy of a message, wherever it waits. *)
Copies == UNION {{tx[n][i] : i \in DOMAIN tx[n]}
                 \cup {rx[n].msgs[i] : i \in DOMAIN rx[n].msgs}
                 \cup UNION {UNION {{air[m][n][k][i] : i \in DOMAIN air[m][n][k]} :
                                    k \in DOMAIN air[m][n]} : m \in Node} : n \in Node}

(* No message of this type has n's present sequence number.  An older one  *)
(* has left the buffer: the tx job runs every 50 ms, many times between    *)
(* two callbacks of one timer.  And when the 16 bits have come round, after*)
(* 2^16 such jobs, what had the number the last time is long forgotten.    *)
IsUnused(n, type) ==
    LET key == [orig |-> n, seq |-> msg_seq[n]]
    IN  /\ \A msg \in Copies : msg.type = type => Key(msg) # key
        /\ \A m \in Node : key \notin dup_tree[m]

(* A timer callback that builds a message. *)
Originate(n, type, ttl) ==
    /\ Free(n)
    /\ issued[n]["HELLO"] + issued[n]["TC"] < net.limit
    /\ IsUnused(n, type)
    /\ issued' = [issued EXCEPT ![n][type] = @ + 1]
    /\ Push(n, [orig |-> n, seq |-> msg_seq[n], ttl |-> ttl, type |-> type,
                nr |-> issued'[n][type]])
    /\ UNCHANGED <<network, sym, msg_seq, air, rx, dups, processed, dropped, relays>>

(* olsr_hello_timer_cb and olsr_tc_timer_cb. *)
HelloTimer(n) == n \in net.hello /\ Originate(n, "HELLO", 1)
TcTimer(n) == n \in net.tc /\ Originate(n, "TC", TcTtl)

(* olsr_send_from_queue_cb: everything in the buffer goes into one packet, *)
(* and only now msg_seq moves on.                                          *)
SendFromQueue(n) ==
    /\ Free(n)
    /\ tx[n] # <<>>
    /\ \E missed \in IF net.loss THEN SUBSET Adj(n) ELSE {{}} :
          air' = [air EXCEPT ![n] = [m \in Node |->
                     IF m \in Adj(n) \ missed THEN Append(@[m], tx[n]) ELSE @[m]]]
    /\ tx' = [tx EXCEPT ![n] = <<>>]
    /\ msg_seq' = [msg_seq EXCEPT ![n] = (@ + 1) % SeqMod]
    /\ UNCHANGED <<network, sym, rx, dups, history>>

(* handle_route_pkt starts on the next packet from p. *)
RecvPkt(n, p) ==
    /\ Free(n)
    /\ air[p][n] # <<>>
    /\ rx' = [rx EXCEPT ![n] = [src |-> p, msgs |-> Head(air[p][n])]]
    /\ air' = [air EXCEPT ![p][n] = Tail(@)]
    /\ UNCHANGED <<network, sym, msg_seq, tx, dups, history>>
-----------------------------------------------------------------------------
(* is_already_processed. *)
AlreadyProcessed(n, msg) == Key(msg) \in dup_tree[n]

(* process_olsr_msg: process_olsr_hello makes its sender symmetric once    *)
(* more; process_olsr_tc ignores a TC handed over by a neighbour that is   *)
(* not symmetric.                                                          *)
Process(n, msg, src) ==
    IF AlreadyProcessed(n, msg)
    THEN /\ dropped' = [dropped EXCEPT ![n] = @ \cup {Identity(msg)}]
         /\ UNCHANGED <<sym, processed>>
    ELSE /\ sym' = IF msg.type = "HELLO" THEN [sym EXCEPT ![n] = @ \cup {src}] ELSE sym
         /\ processed' = IF msg.type = "HELLO" \/ src \in sym[n]
                         THEN [processed EXCEPT ![n] = @ \cup {Identity(msg)}]
                         ELSE processed
         /\ UNCHANGED dropped

(* Mutant: the originator is looked up instead of the last hop. *)
PassesOnForOriginator(n, msg, src) ==
    /\ msg.ttl > 1
    /\ Key(msg) \notin retransmitted[n]
    /\ msg.orig \in selector_tree[n]

(* Mutant: the retransmitted flag of a known message is not looked at. *)
PassesOnAgain(n, msg, src) == msg.ttl > 1 /\ src \in selector_tree[n]

(* olsr_msg_forwarding gets to its retransmitted = 1. *)
PassesOn(n, msg, src) ==
    /\ msg.ttl > 1
    /\ Key(msg) \notin retransmitted[n]
    /\ src \in selector_tree[n]

(* Mutant: only messages that are passed on enter the duplicate set. *)
ForwardEntersRelayed(n, msg, src) ==
    IF PassesOn(n, msg, src)
    THEN /\ dup_tree' = [dup_tree EXCEPT ![n] = @ \cup {Key(msg)}]
         /\ retransmitted' = [retransmitted EXCEPT ![n] = @ \cup {Key(msg)}]
         /\ Push(n, [msg EXCEPT !.ttl = @ - 1])
         /\ relays' = [relays EXCEPT ![n] = Append(@, Identity(msg))]
    ELSE UNCHANGED <<dup_tree, retransmitted, tx, relays, refused>>

(* olsr_msg_forwarding, called for ttl > 1: the message is entered into    *)
(* the duplicate set, and passed on for a neighbour that selected this     *)
(* node.  retransmitted is set before the push, which may fail: there is   *)
(* no second try.                                                          *)
Forward(n, msg, src) ==
    /\ dup_tree' = IF msg.ttl > 1 THEN [dup_tree EXCEPT ![n] = @ \cup {Key(msg)}]
                                  ELSE dup_tree
    /\ IF PassesOn(n, msg, src)
       THEN /\ retransmitted' = [retransmitted EXCEPT ![n] = @ \cup {Key(msg)}]
            /\ Push(n, [msg EXCEPT !.ttl = @ - 1])
            /\ relays' = [relays EXCEPT ![n] = Append(@, Identity(msg))]
       ELSE UNCHANGED <<retransmitted, tx, relays, refused>>

(* handle_olsr_msg for the next message of the packet being parsed. *)
HandleMsg(n) ==
    /\ ~Free(n)
    /\ LET msg == Head(rx[n].msgs)
       IN  IF msg.orig = n
           THEN UNCHANGED <<sym, processed, dropped, dups, tx, relays, refused>>
           ELSE Process(n, msg, rx[n].src) /\ Forward(n, msg, rx[n].src)
    /\ rx' = [rx EXCEPT ![n].msgs = Tail(@)]
    /\ UNCHANGED <<network, msg_seq, air, issued>>

(* expire_dup_entry_cb.  The hold time of 10 s outlasts the copies of a    *)
(* message: each hop takes at most one tx period of 50 ms.                 *)
DupExpire(n, key) ==
    /\ Free(n)
    /\ key \in dup_tree[n]
    /\ \A msg \in Copies : Key(msg) # key
    /\ dup_tree' = [dup_tree EXCEPT ![n] = @ \ {key}]
    /\ retransmitted' = [retransmitted EXCEPT ![n] = @ \ {key}]
    /\ UNCHANGED <<network, sym, msg_seq, tx, air, rx, history>>

(* A link timer runs out: p is no longer symmetric. *)
LinkExpire(n, p) ==
    /\ net.churn
    /\ Free(n)
    /\ p \in sym[n]
    /\ sym' = [sym EXCEPT ![n] = @ \ {p}]
    /\ UNCHANGED <<network, msg_seq, tx, air, rx, dups, history>>

Next ==
    \/ \E n \in Node : HelloTimer(n)
    \/ \E n \in Node : TcTimer(n)
    \/ \E n \in Node : SendFromQueue(n)
    \/ \E n, p \in Node : RecvPkt(n, p)
    \/ \E n \in Node : HandleMsg(n)
    \/ \E n \in Node : \E key \in dup_tree[n] : DupExpire(n, key)
    \/ \E n, p \in Node : LinkExpire(n, p)

Spec == Init /\ [][Next]_vars
-----------------------------------------------------------------------------
Message == [orig : Node, seq : 0..(SeqMod - 1), ttl : 1..TcTtl,
            type : MsgType, nr : 1..net.limit]

(* Sequence numbers, time-to-live and identities keep their ranges on      *)
(* every copy of a message; the tx buffer never exceeds its capacity.      *)
TypeOK ==
    /\ sym \in [Node -> SUBSET Node]
    /\ msg_seq \in [Node -> 0..(SeqMod - 1)]
    /\ Copies \subseteq Message
    /\ \A n \in Node : Len(tx[n]) <= net.cap
    /\ issued \in [Node -> [MsgType -> 0..net.limit]]

(* A node passes a message on at most once, however many neighbours hand   *)
(* it over: this is what keeps a flood finite before its ttl ends.         *)
RelayOnce ==
    \A n \in Node : \A i, j \in DOMAIN relays[n] : relays[n][i] = relays[n][j] => i = j

(* A node gives a TC to process_olsr_tc only once, and never handles its   *)
(* own messages: a TC it has taken is in the duplicate set while copies of *)
(* it are under way.  Every copy is well formed (TypeOK), its ttl included.*)
TakenIsRemembered ==
    /\ TypeOK
    /\ \A n \in Node, msg \in Copies :
          msg.type = "TC" /\ Identity(msg) \in processed[n]
              => msg.orig # n /\ Key(msg) \in dup_tree[n]

(* Links work both ways and join all nodes: no part is cut off. *)
IsSymmetric == \A l \in net.graph : <<l[2], l[1]>> \in net.graph
IsOnePiece ==
    \A part \in SUBSET Node :
        part # {} /\ (\A n \in part : Adj(n) \subseteq part) => part = Node

(* MPR flooding does its work: in a connected network with symmetric links *)
(* and no loss, once no copy of any message is left every node has         *)
(* processed every TC, although only MPRs have passed it on.  Only a TC    *)
(* that itself met a full tx buffer may be missing, however many others    *)
(* did, and whatever HELLOs share packets and sequence numbers with it.    *)
TcReachesAll ==
    (~net.loss /\ ~net.churn /\ Copies = {} /\ IsSymmetric /\ IsOnePiece) =>
        \A o \in Node : \A k \in 1..issued[o]["TC"] :
            LET tc == [orig |-> o, type |-> "TC", nr |-> k]
            IN  tc \notin refused => \A n \in Node \ {o} : tc \in processed[n]

(* "Drop Duplicated Msg": what is dropped as a duplicate has been          *)
(* processed before.                                                       *)
OnlyDuplicatesDropped ==
    \A n \in Node : dropped[n] \subseteq processed[n]
=============================================================================
