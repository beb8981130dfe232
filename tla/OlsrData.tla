------------------------------ MODULE OlsrData ------------------------------
(***************************************************************************)
(* The data plane of OLSR (olsr_route.c, olsr_route_iface.c, netutil.c,    *)
(* dummy.c): packets of traffic streams to one destination, passed from    *)
(* node to node.  Every node looks up the first hop in its own routing     *)
(* table and puts the packet into a new envelope for that hop (minimal     *)
(* encapsulation); every frame is heard by all neighbours, and the         *)
(* addressee alone takes it.  No node counts down a TTL, so a packet goes  *)
(* in circles while tables disagree.                                       *)
(*                                                                         *)
(* The tables are those that OlsrSpf computes while the nodes' knowledge   *)
(* of the network differs, so here any table is possible.  Packets do not  *)
(* depend on each other but for the room in queues: a behaviour has one    *)
(* packet at a time.                                                       *)
(***************************************************************************)
EXTENDS Naturals, Sequences, FiniteSets

CONSTANTS
    Node,       \* nodes, or their addresses
    Dest,       \* the destination of the packets
    NoRoute,    \* no routing entry
    QCap        \* messages that fit into the queue to a network layer

ASSUME DataAssumption == Dest \in Node /\ NoRoute \notin Node /\ QCap \in Nat \ {0}

VARIABLES
    link,       \* pairs of nodes in line of sight, a set of sets
    route,      \* the first node on the route to Dest in each routing table
    inbox,      \* contents of the queue to each network layer
    received,   \* nodes that have given the last packet to their local network
    overflow    \* whether a queue was full for a frame of the last packet

dvars == <<link, route, inbox, received, overflow>>

Edge == {e \in SUBSET Node : Cardinality(e) = 2}
Heard(n) == {m \in Node : {n, m} \in link}

(* What the headers of a packet say; orig_ are the fields of a             *)
(* MinimalMobileIpHdr.                                                     *)
Data(src) == [protocol |-> "UDP", saddr |-> src, daddr |-> Dest]
Packet == {Data(n) : n \in Node}
Envelope == [protocol : {"MOBILE"}, saddr : Node, daddr : Node,
             ipproto : {"UDP"}, orig_src_ip : Node, orig_dst_ip : Node]

minimal_mip_encap(pkt, new_src, new_dst) ==
    [protocol |-> "MOBILE", saddr |-> new_src, daddr |-> new_dst, ipproto |-> pkt.protocol,
     orig_src_ip |-> pkt.saddr, orig_dst_ip |-> pkt.daddr]

minimal_mip_decap(pkt) ==
    [protocol |-> pkt.ipproto, saddr |-> pkt.orig_src_ip, daddr |-> pkt.orig_dst_ip]

DataInit ==
    /\ link \in SUBSET Edge
    /\ route = [n \in Node |-> NoRoute]
    /\ inbox = [n \in Node |-> <<>>]
    /\ received = <<>> /\ overflow = FALSE
-----------------------------------------------------------------------------
(* A copy that its holder will not drop for its outer address. *)
Live == {c \in UNION {{n} \X DOMAIN inbox[n] : n \in Node} : inbox[c[1]][c[2]].daddr = c[1]}

(* Mutant: the return of the one hop case is taken by forwarded packets. *)
ip_route_local_only(n, pkt, from_local) ==
    IF route[n] = NoRoute \/ (route[n] = Dest /\ ~from_local) THEN <<>>
    ELSE IF route[n] = Dest THEN <<pkt>>
    ELSE <<minimal_mip_encap(pkt, n, route[n])>>

(* What ip_route gives to send_remote, if anything: in a new envelope for  *)
(* the next hop, unless the packet starts here and goes one hop.           *)
ip_route(n, pkt, from_local) ==
    IF route[n] = NoRoute THEN <<>>
    ELSE IF route[n] = Dest /\ from_local THEN <<pkt>>
    ELSE <<minimal_mip_encap(pkt, n, route[n])>>

(* All addresses are 192.168.<node id>.1. *)
IP_C_CLASS_MATCH(ip1, ip2) == ip1 = ip2

(* send_remote: simmac and simphy pass a frame to all that hear n; a full  *)
(* queue loses it.  left is what the queues hold otherwise.                *)
Passed(n, frames, left) ==
    [m \in Node |-> IF m \in Heard(n) /\ Len(left[m]) < QCap THEN left[m] \o frames ELSE left[m]]
Loses(n, frames, left) ==
    \E i \in DOMAIN frames : /\ frames[i].daddr \in Heard(n)
                             /\ Len(left[frames[i].daddr]) >= QCap

(* send_dummy_packet and olsr_handle_local_pkt. *)
handle_local_data_pkt(n) ==
    /\ Live = {}
    /\ ~IP_C_CLASS_MATCH(n, Dest)
    /\ LET frames == ip_route(n, Data(n), TRUE)
       IN  /\ inbox' = Passed(n, frames, inbox)
           /\ overflow' = Loses(n, frames, inbox)
    /\ received' = <<>>
    /\ UNCHANGED <<link, route>>

(* Mutant: an envelope is opened by all that hear it. *)
handle_remote_data_pkt_all(n) ==
    /\ inbox[n] # <<>>
    /\ LET pkt == Head(inbox[n])
           mine == pkt.protocol = "MOBILE" \/ IP_C_CLASS_MATCH(n, pkt.daddr)
           inner == IF pkt.protocol = "MOBILE" THEN minimal_mip_decap(pkt) ELSE pkt
           arrived == pkt.protocol = "MOBILE" => IP_C_CLASS_MATCH(n, inner.daddr)
           frames == IF mine /\ ~arrived THEN ip_route(n, inner, FALSE) ELSE <<>>
           left == [inbox EXCEPT ![n] = Tail(@)]
       IN  /\ received' = IF mine /\ arrived THEN Append(received, n) ELSE received
           /\ inbox' = Passed(n, frames, left)
           /\ overflow' = (overflow \/ Loses(n, frames, left))
    /\ UNCHANGED <<link, route>>

(* olsr_handle_remote_pkt for what is not addressed to OLSR_PROTO_PORT:    *)
(* frames for others are dropped, packets for others sent on.              *)
handle_remote_data_pkt(n) ==
    /\ inbox[n] # <<>>
    /\ LET pkt == Head(inbox[n])
           mine == IP_C_CLASS_MATCH(n, pkt.daddr)
           inner == IF pkt.protocol = "MOBILE" THEN minimal_mip_decap(pkt) ELSE pkt
           arrived == pkt.protocol = "MOBILE" => IP_C_CLASS_MATCH(n, inner.daddr)
           frames == IF mine /\ ~arrived THEN ip_route(n, inner, FALSE) ELSE <<>>
           left == [inbox EXCEPT ![n] = Tail(@)]
       IN  /\ received' = IF mine /\ arrived THEN Append(received, n) ELSE received
           /\ inbox' = Passed(n, frames, left)
           /\ overflow' = (overflow \/ Loses(n, frames, left))
    /\ UNCHANGED <<link, route>>

(* calc_routing_table with whatever the node knows of the network. *)
Recalculate(n, r) ==
    /\ n \notin {Dest, r}
    /\ route' = [route EXCEPT ![n] = r]
    /\ UNCHANGED <<link, inbox, received, overflow>>

(* Nodes move. *)
Move(e) ==
    /\ link' = IF e \in link THEN link \ {e} ELSE link \cup {e}
    /\ UNCHANGED <<route, inbox, received, overflow>>

DataNext ==
    \/ \E n \in Node : handle_local_data_pkt(n) \/ handle_remote_data_pkt(n)
    \/ \E n \in Node, r \in Node \cup {NoRoute} : Recalculate(n, r)
    \/ \E e \in Edge : Move(e)

(* recvfrom_mac empties the queue every millisecond. *)
DataFairness == \A n \in Node : WF_dvars(handle_remote_data_pkt(n))

DataSpec == DataInit /\ [][DataNext]_dvars
FairDataSpec == DataSpec /\ DataFairness
-----------------------------------------------------------------------------
(* A packet is delivered once and to its destination only: although every  *)
(* frame is a broadcast and nodes pass packets on by tables that need not  *)
(* agree, there is never more than one copy that anyone will take.         *)
OneCopy ==
    /\ Cardinality(Live) + Len(received) <= 1
    /\ \A i \in DOMAIN received : received[i] = Dest
    /\ \A n \in Node : /\ Len(inbox[n]) <= QCap
                       /\ \A i \in DOMAIN inbox[n] : inbox[n][i] \in Packet \cup Envelope

(* The nodes with a path of up to k hops to Dest. *)
NearDest[k \in 0..Cardinality(Node)] ==
    IF k = 0 THEN {Dest} ELSE LET nearer == NearDest[k-1]
                              IN  nearer \cup UNION {Heard(m) : m \in nearer}
Reaches == NearDest[Cardinality(Node)]

(* Every table has a shortest path for the links as they are. *)
Converged ==
    /\ \A n \in Node \ Reaches : route[n] = NoRoute
    /\ \A k \in 1..Cardinality(Node) :
          LET nearer == NearDest[k-1]
          IN  \A n \in NearDest[k] \ nearer : route[n] \in Heard(n) \cap nearer

(* A packet that has gone in circles is not the worse for it: from         *)
(* wherever it is when the tables agree at last, it reaches its            *)
(* destination if there is a path, unless a queue overflows or the tables  *)
(* part again.                                                             *)
LoopsEndInDelivery ==
    (Converged /\ \E c \in Live : c[1] \in Reaches) ~> (received # <<>> \/ overflow \/ ~Converged)
=============================================================================
