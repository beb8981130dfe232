------------------------- MODULE OlsrFloodingProofs -------------------------
(***************************************************************************)
(* Flooding, for any network, any number of messages and any loss: a node  *)
(* passes a message on once, and a TC that it has taken it knows again.    *)
(* Both rest on what the copies of a message under way have in common.     *)
(* Where nothing is lost, a TC reaches every node: MPRs cover what is two  *)
(* hops away, and a TC on its way from a node to a neighbour is somewhere. *)
(* And what TCs leave at a receiver, at the end: however they are lost and *)
(* overtaken, an old one is never taken for a new one.                     *)
(***************************************************************************)
EXTENDS OlsrFlooding, OlsrTopology, FiniteSetTheorems, WellFoundedInduction, TLAPS

Elems(s) == {s[i] : i \in DOMAIN s}

KeyType == [orig : Node, seq : 0..(SeqMod - 1)]
IdentityType == [orig : Node, type : MsgType, nr : Nat]

(* The places where copies wait hold sequences of messages. *)
PlaceTypes ==
    /\ net \in Scenario
    /\ tx \in [Node -> Seq(Message)]
    /\ air \in [Node -> [Node -> Seq(Seq(Message))]]
    /\ rx \in [Node -> [src : Node \cup {0}, msgs : Seq(Message)]]
    /\ \A n \in Node : rx[n].msgs # <<>> => rx[n].src \in Node
    /\ \A n \in Node : Len(tx[n]) <= net.cap

NodeTypes ==
    /\ sym \in [Node -> SUBSET Node]
    /\ msg_seq \in [Node -> 0..(SeqMod - 1)]
    /\ issued \in [Node -> [MsgType -> 0..net.limit]]
    /\ dup_tree \in [Node -> SUBSET KeyType]
    /\ retransmitted \in [Node -> SUBSET KeyType]
    /\ processed \in [Node -> SUBSET IdentityType]
    /\ relays \in [Node -> Seq(IdentityType)]

(* The nodes that have set out to pass the message id on. *)
Relayers(id) == {n \in Node : id \in Elems(relays[n])}

(* What is under way or has been handled was issued, by another node. *)
IssuedInv ==
    /\ \A msg \in Copies : msg.nr <= issued[msg.orig][msg.type]
    /\ \A n \in Node : \A id \in processed[n] \cup Elems(relays[n]) :
          id.nr <= issued[id.orig][id.type] /\ id.orig # n

(* Copies of one message have one key. *)
KeyInv == \A m1, m2 \in Copies : Identity(m1) = Identity(m2) => Key(m1) = Key(m2)

(* A node that has relayed a message has it marked while copies are left.  *)
MarkInv ==
    /\ \A n \in Node : retransmitted[n] \subseteq dup_tree[n]
    /\ \A n \in Node, msg \in Copies :
          Identity(msg) \in Elems(relays[n]) => Key(msg) \in retransmitted[n]

(* Every hop less on a copy of a TC is the doing of another relay. *)
TtlInv ==
    \A msg \in Copies :
       msg.type = "TC" => msg.ttl + Cardinality(Relayers(Identity(msg))) >= TcTtl

(* TakenIsRemembered without the types. *)
TakenInv ==
    \A n \in Node, msg \in Copies :
       msg.type = "TC" /\ Identity(msg) \in processed[n] => Key(msg) \in dup_tree[n]

FloodInv == IssuedInv /\ KeyInv /\ MarkInv /\ TtlInv /\ RelayOnce /\ TakenInv

IInv == PlaceTypes /\ NodeTypes /\ FloodInv
-----------------------------------------------------------------------------
(* The empty sequence has no elements. *)
LEMMA ElemsEmpty == Elems(<<>>) = {}
BY DEF Elems

(* A sequence that grows at its end. *)
LEMMA ElemsAppend ==
    ASSUME NEW S, NEW s \in Seq(S), NEW e
    PROVE  Elems(Append(s, e)) = Elems(s) \cup {e}
<1>1. /\ DOMAIN s = 1..Len(s) /\ Len(s) \in Nat /\ DOMAIN Append(s, e) = 1..(Len(s) + 1)
      /\ Append(s, e)[Len(s) + 1] = e /\ \A i \in 1..Len(s) : Append(s, e)[i] = s[i]
  OBVIOUS
<1>2. 1..(Len(s) + 1) = 1..Len(s) \cup {Len(s) + 1}
  BY <1>1
<1> QED BY <1>1, <1>2 DEF Elems

(* A sequence is its head and its tail. *)
LEMMA ElemsSplit ==
    ASSUME NEW S, NEW s \in Seq(S), s # <<>>
    PROVE  Elems(s) = {Head(s)} \cup Elems(Tail(s))
<1>1. /\ DOMAIN s = 1..Len(s) /\ Len(s) \in Nat \ {0} /\ DOMAIN Tail(s) = 1..(Len(s) - 1)
      /\ Head(s) = s[1] /\ \A i \in 1..(Len(s) - 1) : Tail(s)[i] = s[i + 1]
  OBVIOUS
<1>2. 1 \in 1..Len(s) /\ \A i \in 1..(Len(s) - 1) : i + 1 \in 1..Len(s)
  BY <1>1
<1>3. \A i \in 1..Len(s) : i = 1 \/ (i - 1 \in 1..(Len(s) - 1) /\ s[i] = Tail(s)[i - 1])
  BY <1>1
<1>4. Elems(Tail(s)) \subseteq Elems(s) /\ Head(s) \in Elems(s)
  BY <1>1, <1>2 DEF Elems
<1>5. ASSUME NEW e \in Elems(s) PROVE e = Head(s) \/ e \in Elems(Tail(s))
  <2>1. PICK i \in 1..Len(s) : e = s[i]
    BY <1>1 DEF Elems
  <2> QED BY <1>1, <1>3, <2>1 DEF Elems
<1> QED BY <1>4, <1>5

(* Where a copy is. *)
CopyIn(msg, t, r, a) ==
    \/ \E n \in Node : msg \in Elems(t[n])
    \/ \E n \in Node : msg \in Elems(r[n].msgs)
    \/ \E n, m \in Node : \E pkt \in Elems(a[m][n]) : msg \in Elems(pkt)

(* The copies of the present state, *)
LEMMA CopyNow == \A msg : msg \in Copies <=> CopyIn(msg, tx, rx, air)
BY DEF Copies, CopyIn, Elems

(* and those of the next one. *)
LEMMA CopyNext == \A msg : msg \in Copies' <=> CopyIn(msg, tx', rx', air')
BY DEF Copies, CopyIn, Elems

(* Copies are messages. *)
LEMMA CopiesTyped == ASSUME PlaceTypes PROVE Copies \subseteq Message
<1>1. \A S, s : s \in Seq(S) => Elems(s) \subseteq S
  BY DEF Elems
<1>2. \A n \in Node : tx[n] \in Seq(Message) /\ rx[n].msgs \in Seq(Message)
  BY DEF PlaceTypes
<1>3. \A n, m \in Node : air[m][n] \in Seq(Seq(Message))
  BY DEF PlaceTypes
<1>4. \A n, m \in Node : Elems(air[m][n]) \subseteq Seq(Message)
  BY <1>1, <1>3
<1> QED BY <1>1, <1>2, <1>4, CopyNow DEF CopyIn

(* The invariant has the type invariant of the module in it. *)
LEMMA TypesHold == IInv => TypeOK
BY CopiesTyped DEF IInv, PlaceTypes, NodeTypes, TypeOK

(* Keys and identities of messages. *)
LEMMA MessageFacts ==
    ASSUME PlaceTypes, NEW msg \in Message
    PROVE  /\ Key(msg) \in KeyType /\ Identity(msg) \in IdentityType
           /\ msg.orig \in Node /\ msg.ttl \in 1..TcTtl /\ msg.nr \in 1..net.limit
           /\ msg.type \in MsgType /\ msg.seq \in 0..(SeqMod - 1)
           /\ Identity(msg).orig = msg.orig /\ Identity(msg).nr = msg.nr
           /\ Identity(msg).type = msg.type
<1>1. net.limit \in Nat
  BY DEF PlaceTypes, Scenario
<1>2. msg \in [orig : Node, seq : 0..(SeqMod - 1), ttl : 1..TcTtl,
               type : MsgType, nr : 1..net.limit]
  BY DEF Message
<1>3. /\ msg.orig \in Node /\ msg.ttl \in 1..TcTtl /\ msg.nr \in 1..net.limit
      /\ msg.type \in MsgType /\ msg.seq \in 0..(SeqMod - 1)
  BY <1>2
<1>4. msg.nr \in Nat
  BY <1>1, <1>3
<1> QED BY <1>3, <1>4 DEF Key, Identity, KeyType, IdentityType

(* Two messages with one identity have originator, type and number in      *)
(* common.                                                                 *)
LEMMA SameIdentity ==
    \A m1, m2 : Identity(m1) = Identity(m2)
                   => m1.orig = m2.orig /\ m1.type = m2.type /\ m1.nr = m2.nr
BY DEF Identity
-----------------------------------------------------------------------------
(* Nothing is issued, handled or passed on, and no copy appears. *)
LEMMA QuietStep ==
    ASSUME FloodInv, Copies' \subseteq Copies, UNCHANGED <<dups, issued, processed, relays>>
    PROVE  FloodInv'
<1> USE DEF dups
<1>1. IssuedInv' /\ KeyInv'
  BY DEF FloodInv, IssuedInv, KeyInv
<1>2. MarkInv' /\ TakenInv' /\ RelayOnce'
  BY DEF FloodInv, MarkInv, TakenInv, RelayOnce
<1>3. TtlInv'
  BY DEF FloodInv, TtlInv, Relayers
<1> QED BY <1>1, <1>2, <1>3 DEF FloodInv

(* The scenario does not change. *)
LEMMA MessageNext == ASSUME net' = net PROVE Message' = Message
BY DEF Message

(* The first state has no copies. *)
LEMMA InitInv == Init => IInv
<1> SUFFICES ASSUME Init PROVE IInv
  OBVIOUS
<1>1. net \in Scenario /\ net.limit \in Nat /\ net.cap \in Nat
  BY FloodAssumption DEF Init, Scenario
<1>2. <<>> \in Seq(Message) /\ <<>> \in Seq(Seq(Message)) /\ Len(<<>>) <= net.cap
  BY <1>1
<1>3. PlaceTypes
  BY <1>1, <1>2 DEF Init, PlaceTypes, NoPacket
<1>4. 0 \in 0..(SeqMod - 1) /\ 0 \in 0..net.limit
  BY <1>1, FloodAssumption
<1>5. NodeTypes
  BY <1>4 DEF Init, NodeTypes, Adj
<1>6. /\ \A n \in Node : tx[n] = <<>> /\ rx[n].msgs = <<>> /\ relays[n] = <<>>
      /\ \A n, m \in Node : air[m][n] = <<>>
      /\ \A n \in Node : processed[n] = {} /\ retransmitted[n] = {}
  BY DEF Init, NoPacket
<1>7. Copies = {}
  BY <1>6, ElemsEmpty, CopyNow DEF CopyIn
<1>8. RelayOnce
  BY <1>6 DEF RelayOnce
<1>9. FloodInv
  BY <1>6, <1>7, <1>8, ElemsEmpty DEF FloodInv, IssuedInv, KeyInv, MarkInv, TtlInv, TakenInv
<1> QED BY <1>3, <1>5, <1>9 DEF IInv

(* olsr_send_from_queue_cb: the copies move from the buffer into packets. *)
LEMMA SendStep == ASSUME IInv, NEW n \in Node, SendFromQueue(n) PROVE IInv'
<1>1. /\ tx' = [tx EXCEPT ![n] = <<>>] /\ net' = net /\ rx' = rx
      /\ msg_seq' = [msg_seq EXCEPT ![n] = (msg_seq[n] + 1) % SeqMod]
      /\ UNCHANGED <<sym, dups, issued, processed, relays>>
  BY DEF SendFromQueue, network, history
<1>2. PICK missed : air' = [air EXCEPT ![n] = [m \in Node |->
                       IF m \in Adj(n) \ missed THEN Append(air[n][m], tx[n]) ELSE air[n][m]]]
  BY DEF SendFromQueue, IInv, PlaceTypes
<1>3. Message' = Message
  BY <1>1, MessageNext
<1>4. /\ tx[n] \in Seq(Message) /\ \A m \in Node : air[n][m] \in Seq(Seq(Message))
      /\ net.cap \in Nat
  BY DEF IInv, PlaceTypes, Scenario
<1>5. \A m \in Node : Append(air[n][m], tx[n]) \in Seq(Seq(Message))
  BY <1>4
<1>6. air' \in [Node -> [Node -> Seq(Seq(Message))]]
  BY <1>2, <1>4, <1>5 DEF IInv, PlaceTypes
<1>7. tx' \in [Node -> Seq(Message)] /\ \A m \in Node : Len(tx'[m]) <= net.cap
  BY <1>1, <1>4 DEF IInv, PlaceTypes
<1>8. PlaceTypes'
  BY <1>1, <1>3, <1>6, <1>7 DEF IInv, PlaceTypes
<1>9. (msg_seq[n] + 1) % SeqMod \in 0..(SeqMod - 1)
  <2>1. msg_seq[n] + 1 \in Nat
    BY DEF IInv, NodeTypes
  <2> QED BY <2>1, FloodAssumption
<1>10. NodeTypes'
  BY <1>1, <1>9 DEF IInv, NodeTypes, dups
<1>11. ASSUME NEW msg \in Copies' PROVE msg \in Copies
  <2>1. CASE \E m \in Node : msg \in Elems(tx'[m])
    <3>1. \A m \in Node : Elems(tx'[m]) \subseteq Elems(tx[m])
      BY <1>1, ElemsEmpty DEF IInv, PlaceTypes
    <3> QED BY <2>1, <3>1, CopyNow DEF CopyIn
  <2>2. CASE \E m \in Node : msg \in Elems(rx'[m].msgs)
    BY <1>1, <2>2, CopyNow DEF CopyIn
  <2>3. ASSUME NEW k \in Node, NEW m \in Node, NEW pkt \in Elems(air'[m][k]),
               msg \in Elems(pkt)
        PROVE  msg \in Copies
    <3>1. air'[m][k] = air[m][k] \/ (m = n /\ air'[m][k] = Append(air[m][k], tx[n]))
      BY <1>2 DEF IInv, PlaceTypes
    <3>2. Elems(Append(air[n][k], tx[n])) = Elems(air[n][k]) \cup {tx[n]}
      BY <1>4, ElemsAppend
    <3>3. pkt \in Elems(air[m][k]) \/ pkt = tx[n]
      BY <3>1, <3>2
    <3> QED BY <2>3, <3>3, CopyNow DEF CopyIn
  <2> QED BY <2>1, <2>2, <2>3, CopyNext DEF CopyIn
<1> QED BY <1>1, <1>8, <1>10, <1>11, QuietStep DEF IInv

(* handle_route_pkt gets a packet. *)
LEMMA RecvStep == ASSUME IInv, NEW n \in Node, NEW p \in Node, RecvPkt(n, p) PROVE IInv'
<1>1. /\ air[p][n] # <<>> /\ net' = net /\ tx' = tx
      /\ rx' = [rx EXCEPT ![n] = [src |-> p, msgs |-> Head(air[p][n])]]
      /\ air' = [air EXCEPT ![p][n] = Tail(air[p][n])]
      /\ UNCHANGED <<sym, msg_seq, dups, issued, processed, relays>>
  BY DEF RecvPkt, network, history
<1>2. Message' = Message
  BY <1>1, MessageNext
<1>3. air[p][n] \in Seq(Seq(Message))
  BY DEF IInv, PlaceTypes
<1>4. Head(air[p][n]) \in Seq(Message) /\ Tail(air[p][n]) \in Seq(Seq(Message))
  BY <1>1, <1>3
<1>5. rx' \in [Node -> [src : Node \cup {0}, msgs : Seq(Message)]]
  BY <1>1, <1>4 DEF IInv, PlaceTypes
<1>6. air' \in [Node -> [Node -> Seq(Seq(Message))]]
  BY <1>1, <1>4 DEF IInv, PlaceTypes
<1>7. \A m \in Node : rx'[m].msgs # <<>> => rx'[m].src \in Node
  BY <1>1 DEF IInv, PlaceTypes
<1>8. PlaceTypes'
  BY <1>1, <1>2, <1>5, <1>6, <1>7 DEF IInv, PlaceTypes
<1>9. NodeTypes'
  BY <1>1 DEF IInv, NodeTypes, dups
<1>10. Elems(Tail(air[p][n])) \subseteq Elems(air[p][n]) /\ Head(air[p][n]) \in Elems(air[p][n])
  BY <1>1, <1>3, ElemsSplit
<1>11. ASSUME NEW msg \in Copies' PROVE msg \in Copies
  <2>1. CASE \E m \in Node : msg \in Elems(tx'[m])
    BY <1>1, <2>1, CopyNow DEF CopyIn
  <2>2. CASE \E m \in Node : msg \in Elems(rx'[m].msgs)
    <3>1. PICK m \in Node : msg \in Elems(rx'[m].msgs)
      BY <2>2
    <3>2. rx'[m].msgs = rx[m].msgs \/ rx'[m].msgs = Head(air[p][n])
      BY <1>1 DEF IInv, PlaceTypes
    <3> QED BY <1>10, <3>1, <3>2, CopyNow DEF CopyIn
  <2>3. ASSUME NEW k \in Node, NEW m \in Node, NEW pkt \in Elems(air'[m][k]),
               msg \in Elems(pkt)
        PROVE  msg \in Copies
    <3>1. air'[m][k] = air[m][k] \/ (m = p /\ k = n /\ air'[m][k] = Tail(air[p][n]))
      BY <1>1 DEF IInv, PlaceTypes
    <3>2. pkt \in Elems(air[m][k])
      BY <1>10, <3>1
    <3> QED BY <2>3, <3>2, CopyNow DEF CopyIn
  <2> QED BY <2>1, <2>2, <2>3, CopyNext DEF CopyIn
<1> QED BY <1>1, <1>8, <1>9, <1>11, QuietStep DEF IInv

(* A link timer runs out, or nothing happens. *)
LEMMA LinkStep ==
    ASSUME IInv, (\E n, p \in Node : LinkExpire(n, p)) \/ UNCHANGED vars
    PROVE  IInv'
<1>1. UNCHANGED <<net, msg_seq, tx, air, rx, dups, issued, processed, relays>>
  BY DEF LinkExpire, vars, network, history
<1>2. sym' \in [Node -> SUBSET Node]
  BY DEF IInv, NodeTypes, LinkExpire, vars
<1>3. Message' = Message
  BY <1>1, MessageNext
<1>4. PlaceTypes'
  BY <1>1, <1>3 DEF IInv, PlaceTypes
<1>5. NodeTypes'
  BY <1>1, <1>2 DEF IInv, NodeTypes, dups
<1>6. Copies' = Copies
  BY <1>1 DEF Copies
<1> QED BY <1>1, <1>4, <1>5, <1>6, QuietStep DEF IInv

(* expire_dup_entry_cb: the copies that are left have other keys. *)
LEMMA ExpireStep ==
    ASSUME IInv, NEW n \in Node, NEW key \in dup_tree[n], DupExpire(n, key)
    PROVE  IInv'
<1>1. /\ \A msg \in Copies : Key(msg) # key
      /\ dup_tree' = [dup_tree EXCEPT ![n] = dup_tree[n] \ {key}]
      /\ retransmitted' = [retransmitted EXCEPT ![n] = retransmitted[n] \ {key}]
      /\ UNCHANGED <<net, sym, msg_seq, tx, air, rx, issued, processed, relays>>
  BY DEF DupExpire, network, history
<1>2. Message' = Message /\ Copies' = Copies
  BY <1>1, MessageNext DEF Copies
<1>3. PlaceTypes'
  BY <1>1, <1>2 DEF IInv, PlaceTypes
<1>4. NodeTypes'
  BY <1>1 DEF IInv, NodeTypes
<1>5. \A m \in Node : /\ dup_tree'[m] = IF m = n THEN dup_tree[m] \ {key} ELSE dup_tree[m]
                      /\ retransmitted'[m] = IF m = n THEN retransmitted[m] \ {key}
                                             ELSE retransmitted[m]
  BY <1>1 DEF IInv, NodeTypes
<1>6. IssuedInv' /\ KeyInv' /\ RelayOnce'
  BY <1>1, <1>2 DEF IInv, FloodInv, IssuedInv, KeyInv, RelayOnce
<1>7. TtlInv'
  BY <1>1, <1>2 DEF IInv, FloodInv, TtlInv, Relayers
<1>8. MarkInv'
  BY <1>1, <1>2, <1>5 DEF IInv, FloodInv, MarkInv
<1>9. TakenInv'
  BY <1>1, <1>2, <1>5 DEF IInv, FloodInv, TakenInv
<1> QED BY <1>3, <1>4, <1>6, <1>7, <1>8, <1>9 DEF IInv, FloodInv
-----------------------------------------------------------------------------
(* RingBuffer_push adds one copy or none. *)
LEMMA PushCopies ==
    ASSUME PlaceTypes, NEW n \in Node, NEW w \in Message, Push(n, w)
    PROVE  /\ tx' \in [Node -> Seq(Message)]
           /\ \A m \in Node : Len(tx'[m]) <= net.cap
           /\ \A m \in Node : Elems(tx'[m]) \subseteq Elems(tx[m]) \cup {w}
<1>1. tx[n] \in Seq(Message) /\ tx \in [Node -> Seq(Message)]
  BY DEF PlaceTypes
<1>2. net.cap \in Nat /\ \A m \in Node : Len(tx[m]) <= net.cap
  BY DEF PlaceTypes, Scenario
<1>3. CASE Len(tx[n]) < net.cap
  <2>1. tx' = [tx EXCEPT ![n] = Append(tx[n], w)]
    BY <1>3 DEF Push
  <2>2. /\ Append(tx[n], w) \in Seq(Message) /\ Len(Append(tx[n], w)) <= net.cap
    BY <1>1, <1>2, <1>3
  <2>3. Elems(Append(tx[n], w)) = Elems(tx[n]) \cup {w}
    BY <1>1, ElemsAppend
  <2> QED BY <1>1, <1>2, <2>1, <2>2, <2>3
<1>4. CASE ~(Len(tx[n]) < net.cap)
  BY <1>1, <1>2, <1>4 DEF Push
<1> QED BY <1>3, <1>4

(* Only the tx buffers may have got copies, those of W. *)
LEMMA CopiesGrow ==
    ASSUME NEW W, air' = air,
           \A m \in Node : Elems(tx'[m]) \subseteq Elems(tx[m]) \cup W,
           \A m \in Node : Elems(rx'[m].msgs) \subseteq Elems(rx[m].msgs)
    PROVE  Copies' \subseteq Copies \cup W
<1> SUFFICES ASSUME NEW msg \in Copies' PROVE msg \in Copies \cup W
  OBVIOUS
<1>1. CASE \E m \in Node : msg \in Elems(tx'[m])
  BY <1>1, CopyNow DEF CopyIn
<1>2. CASE \E m \in Node : msg \in Elems(rx'[m].msgs)
  BY <1>2, CopyNow DEF CopyIn
<1>3. CASE \E k, m \in Node : \E pkt \in Elems(air'[m][k]) : msg \in Elems(pkt)
  BY <1>3, CopyNow DEF CopyIn
<1> QED BY <1>1, <1>2, <1>3, CopyNext DEF CopyIn

(* The relays of a message can be counted. *)
LEMMA RelayersFinite ==
    ASSUME NEW id
    PROVE  IsFiniteSet(Relayers(id)) /\ Cardinality(Relayers(id)) \in Nat
<1>1. Relayers(id) \subseteq Node
  BY DEF Relayers
<1>2. IsFiniteSet(Relayers(id))
  BY <1>1, FloodAssumption, FS_Subset
<1> QED BY <1>2, FS_CardinalityType

(* olsr_hello_timer_cb and olsr_tc_timer_cb: a message nobody has seen.    *)
LEMMA OriginateStep ==
    ASSUME IInv, NEW n \in Node, NEW type \in MsgType, NEW ttl \in 1..TcTtl,
           type = "TC" => ttl = TcTtl, Originate(n, type, ttl)
    PROVE  IInv'
<1>1. /\ issued[n]["HELLO"] + issued[n]["TC"] < net.limit
      /\ issued' = [issued EXCEPT ![n][type] = issued[n][type] + 1]
      /\ Push(n, [orig |-> n, seq |-> msg_seq[n], ttl |-> ttl, type |-> type,
                  nr |-> issued'[n][type]])
      /\ UNCHANGED <<net, sym, msg_seq, air, rx, dups, processed, relays>>
  BY DEF Originate, network
<1>2. net.limit \in Nat /\ issued[n][type] \in 0..net.limit /\ msg_seq[n] \in 0..(SeqMod - 1)
  BY DEF IInv, PlaceTypes, NodeTypes, Scenario
<1>3. /\ issued' \in [Node -> [MsgType -> 0..net.limit]]
      /\ issued'[n][type] = issued[n][type] + 1 /\ issued'[n][type] \in 1..net.limit
      /\ \A m \in Node : \A t \in MsgType : issued[m][t] <= issued'[m][t]
      /\ \A m \in Node : \A t \in MsgType : issued[m][t] \in Nat
  <2>1. issued \in [Node -> [MsgType -> 0..net.limit]]
    BY DEF IInv, NodeTypes
  <2>2. issued[n]["HELLO"] \in 0..net.limit /\ issued[n]["TC"] \in 0..net.limit
    BY <2>1 DEF MsgType
  <2>3. issued[n][type] + 1 \in 1..net.limit
    BY <1>1, <1>2, <2>2 DEF MsgType
  <2>4. issued' = [issued EXCEPT ![n] = [issued[n] EXCEPT ![type] = issued[n][type] + 1]]
    BY <1>1
  <2>5. \A m \in Node : \A t \in MsgType :
           issued'[m][t] = IF m = n /\ t = type THEN issued[n][type] + 1 ELSE issued[m][t]
    BY <2>1, <2>4
  <2>6. issued' \in [Node -> [MsgType -> 0..net.limit]]
    BY <1>2, <2>1, <2>3, <2>4
  <2>7. \A m \in Node : \A t \in MsgType : issued[m][t] \in Nat
    BY <1>2, <2>1
  <2> QED BY <1>2, <2>3, <2>5, <2>6, <2>7
<1>4. PICK w : w = [orig |-> n, seq |-> msg_seq[n], ttl |-> ttl, type |-> type,
                    nr |-> issued[n][type] + 1]
  OBVIOUS
<1>5. Push(n, w)
  BY <1>1, <1>3, <1>4
<1>6. w \in Message
  BY <1>2, <1>3, <1>4 DEF Message
<1>7. Message' = Message
  BY <1>1, MessageNext
<1>8. /\ tx' \in [Node -> Seq(Message)] /\ \A m \in Node : Len(tx'[m]) <= net.cap
      /\ \A m \in Node : Elems(tx'[m]) \subseteq Elems(tx[m]) \cup {w}
  BY <1>5, <1>6, PushCopies DEF IInv
<1>9. Copies' \subseteq Copies \cup {w}
  <2>1. \A m \in Node : Elems(rx'[m].msgs) \subseteq Elems(rx[m].msgs)
    BY <1>1
  <2> QED BY <1>1, <1>8, <2>1, CopiesGrow
<1>10. PlaceTypes'
  BY <1>1, <1>7, <1>8 DEF IInv, PlaceTypes
<1>11. NodeTypes'
  BY <1>1, <1>3 DEF IInv, NodeTypes, dups
<1>12. Copies \subseteq Message
  BY CopiesTyped DEF IInv
<1>13. \A msg \in Copies : msg.orig \in Node /\ msg.type \in MsgType /\ msg.nr \in Nat
  BY <1>2, <1>12 DEF Message
<1>14. \A m \in Node : \A id \in processed[m] \cup Elems(relays[m]) :
          id.orig \in Node /\ id.type \in MsgType /\ id.nr \in Nat
  <2>1. \A m \in Node : processed[m] \subseteq IdentityType /\ relays[m] \in Seq(IdentityType)
    BY DEF IInv, NodeTypes
  <2>2. \A m \in Node : Elems(relays[m]) \subseteq IdentityType
    BY <2>1 DEF Elems
  <2> QED BY <2>1, <2>2 DEF IdentityType
<1>15. /\ w.orig = n /\ w.nr = issued[n][type] + 1 /\ w.ttl = ttl /\ w.type = type
       /\ Identity(w).orig = n /\ Identity(w).nr = issued[n][type] + 1
       /\ Identity(w).type = type
  BY <1>4 DEF Identity
<1>16. \A msg \in Copies : Identity(msg) # Identity(w)
  <2>1. \A msg \in Copies : msg.nr <= issued[msg.orig][msg.type]
    BY DEF IInv, FloodInv, IssuedInv
  <2> QED BY <1>2, <1>13, <1>15, <2>1, SameIdentity
<1>17. \A m \in Node : Identity(w) \notin processed[m] \cup Elems(relays[m])
  BY <1>2, <1>15 DEF IInv, FloodInv, IssuedInv
<1>18. IssuedInv'
  <2>1. ASSUME NEW msg \in Copies' PROVE msg.nr <= issued'[msg.orig][msg.type]
    <3>1. CASE msg = w
      BY <1>3, <1>15, <3>1
    <3>2. CASE msg \in Copies
      <4>1. /\ msg.nr <= issued[msg.orig][msg.type]
            /\ issued[msg.orig][msg.type] <= issued'[msg.orig][msg.type]
        BY <1>3, <1>13, <3>2 DEF IInv, FloodInv, IssuedInv
      <4>2. /\ issued[msg.orig][msg.type] \in Nat /\ issued'[msg.orig][msg.type] \in Nat
            /\ msg.nr \in Nat
        BY <1>2, <1>3, <1>13, <3>2
      <4> QED BY <4>1, <4>2
    <3> QED BY <1>9, <3>1, <3>2
  <2>2. ASSUME NEW m \in Node, NEW id \in processed[m] \cup Elems(relays[m])
        PROVE  id.nr <= issued'[id.orig][id.type] /\ id.orig # m
    <3>1. /\ id.nr <= issued[id.orig][id.type] /\ id.orig # m
          /\ issued[id.orig][id.type] <= issued'[id.orig][id.type]
      BY <1>3, <1>14 DEF IInv, FloodInv, IssuedInv
    <3>2. /\ issued[id.orig][id.type] \in Nat /\ issued'[id.orig][id.type] \in Nat
          /\ id.nr \in Nat
      BY <1>2, <1>3, <1>14
    <3> QED BY <3>1, <3>2
  <2> QED BY <1>1, <2>1, <2>2 DEF IssuedInv
<1>19. KeyInv'
  BY <1>9, <1>16 DEF IInv, FloodInv, KeyInv
<1>20. MarkInv'
  BY <1>1, <1>9, <1>17 DEF IInv, FloodInv, MarkInv, dups
<1>21. TakenInv'
  BY <1>1, <1>9, <1>17 DEF IInv, FloodInv, TakenInv, dups
<1>22. RelayOnce'
  BY <1>1 DEF IInv, FloodInv, RelayOnce
<1>23. TtlInv'
  <2>1. w.type = "TC" => w.ttl + Cardinality(Relayers(Identity(w))) >= TcTtl
    <3>1. Cardinality(Relayers(Identity(w))) \in Nat
      BY RelayersFinite
    <3> QED BY <1>15, <3>1, FloodAssumption
  <2>2. ASSUME NEW msg \in Copies', msg.type = "TC"
        PROVE  msg.ttl + Cardinality(Relayers(Identity(msg))) >= TcTtl
    BY <1>9, <2>1, <2>2 DEF IInv, FloodInv, TtlInv
  <2> QED BY <1>1, <2>2 DEF TtlInv, Relayers
<1> QED BY <1>10, <1>11, <1>18, <1>19, <1>20, <1>21, <1>22, <1>23 DEF IInv, FloodInv
-----------------------------------------------------------------------------
(* A TC that a node has not passed on has come by fewer relays than there  *)
(* are other nodes, so olsr_msg_forwarding is called for it.               *)
LEMMA HopsLeft ==
    ASSUME IInv, NEW n \in Node, NEW msg \in Copies, msg.type = "TC", msg.orig # n,
           Key(msg) \notin retransmitted[n]
    PROVE  msg.ttl > 1
<1>1. PICK id : id = Identity(msg)
  OBVIOUS
<1>2. msg \in Message
  BY CopiesTyped DEF IInv
<1>3. msg.orig \in Node /\ msg.ttl \in 1..TcTtl /\ id.orig = msg.orig
  BY <1>1, <1>2, MessageFacts DEF IInv
<1>4. n \notin Relayers(id)
  BY <1>1 DEF IInv, FloodInv, MarkInv, Relayers
<1>5. msg.orig \notin Relayers(id)
  BY <1>3 DEF IInv, FloodInv, IssuedInv, Relayers
<1>6. Relayers(id) \subseteq (Node \ {n}) \ {msg.orig}
  BY <1>4, <1>5 DEF Relayers
<1>7. /\ IsFiniteSet(Node \ {n}) /\ Cardinality(Node) \in Nat
      /\ Cardinality(Node \ {n}) = Cardinality(Node) - 1
  BY FloodAssumption, FS_RemoveElement, FS_CardinalityType
<1>8. /\ IsFiniteSet((Node \ {n}) \ {msg.orig})
      /\ Cardinality((Node \ {n}) \ {msg.orig}) = Cardinality(Node) - 1 - 1
  BY <1>3, <1>7, FS_RemoveElement
<1>9. Cardinality(Relayers(id)) <= Cardinality(Node) - 1 - 1
  BY <1>6, <1>8, FS_Subset
<1>10. msg.ttl + Cardinality(Relayers(id)) >= TcTtl
  BY <1>1 DEF IInv, FloodInv, TtlInv
<1>11. Cardinality(Relayers(id)) \in Nat
  BY RelayersFinite
<1> QED BY <1>3, <1>7, <1>9, <1>10, <1>11, TtlAssumption, FloodAssumption

(* process_olsr_msg takes at most the message it is given, and only one    *)
(* that the duplicate set does not know.                                   *)
LEMMA ProcessFacts ==
    ASSUME IInv, NEW n \in Node, NEW msg \in Message, NEW src \in Node, Process(n, msg, src)
    PROVE  /\ sym' \in [Node -> SUBSET Node]
           /\ processed' \in [Node -> SUBSET IdentityType]
           /\ \A m \in Node : \A id \in processed'[m] :
                 id \in processed[m] \/ (m = n /\ id = Identity(msg) /\ Key(msg) \notin dup_tree[n])
<1>1. Identity(msg) \in IdentityType
  BY MessageFacts DEF IInv
<1>2. sym \in [Node -> SUBSET Node] /\ processed \in [Node -> SUBSET IdentityType]
  BY DEF IInv, NodeTypes
<1>3. CASE AlreadyProcessed(n, msg)
  BY <1>2, <1>3 DEF Process
<1>4. CASE ~AlreadyProcessed(n, msg)
  <2>1. sym' = sym \/ sym' = [sym EXCEPT ![n] = sym[n] \cup {src}]
    BY <1>4 DEF Process
  <2>2. processed' = processed
           \/ processed' = [processed EXCEPT ![n] = processed[n] \cup {Identity(msg)}]
    BY <1>4 DEF Process
  <2> QED BY <1>1, <1>2, <1>4, <2>1, <2>2 DEF AlreadyProcessed
<1> QED BY <1>3, <1>4

(* A copy with one hop less has the key and the identity of the message.   *)
LEMMA HopLess ==
    ASSUME PlaceTypes, NEW msg \in Message, msg.ttl > 1,
           NEW w, w = [msg EXCEPT !.ttl = msg.ttl - 1]
    PROVE  /\ w \in Message /\ Key(w) = Key(msg) /\ Identity(w) = Identity(msg)
           /\ w.ttl = msg.ttl - 1
<1>1. /\ w.orig = msg.orig /\ w.seq = msg.seq /\ w.type = msg.type /\ w.nr = msg.nr
      /\ w.ttl = msg.ttl - 1
  BY DEF Message
<1>2. w.ttl \in 1..TcTtl
  BY <1>1, MessageFacts, FloodAssumption
<1>3. w \in Message
  BY <1>2 DEF Message
<1> QED BY <1>1, <1>3 DEF Key, Identity

(* What olsr_msg_forwarding and process_olsr_msg keep of the invariant when *)
(* the message msg may get a further copy w.                               *)
LEMMA HandledFlood ==
    ASSUME IInv, NEW n \in Node, NEW msg \in Copies, msg.orig # n,
           NEW w, Identity(w) = Identity(msg), Key(w) = Key(msg),
           Copies' \subseteq Copies \cup {w}, issued' = issued,
           \A m \in Node : \A id \in processed'[m] :
              id \in processed[m] \/ (m = n /\ id = Identity(msg) /\ Key(msg) \notin dup_tree[n]),
           \A m \in Node : /\ dup_tree[m] \subseteq dup_tree'[m]
                           /\ retransmitted[m] \subseteq retransmitted'[m]
                           /\ retransmitted'[m] \subseteq dup_tree'[m],
           msg.ttl > 1 => Key(msg) \in dup_tree'[n],
           \A m \in Node : \A id \in Elems(relays'[m]) :
              \/ id \in Elems(relays[m])
              \/ m = n /\ id = Identity(msg) /\ Key(msg) \in retransmitted'[n]
    PROVE  IssuedInv' /\ KeyInv' /\ MarkInv' /\ TakenInv'
<1>1. \A c \in Copies' : \E c0 \in Copies : Identity(c) = Identity(c0) /\ Key(c) = Key(c0)
  OBVIOUS
<1>2. /\ Identity(msg).orig = msg.orig /\ Identity(msg).nr = msg.nr
      /\ Identity(msg).type = msg.type
  BY DEF Identity
<1>3. /\ IssuedInv /\ KeyInv /\ MarkInv /\ TakenInv
  BY DEF IInv, FloodInv
<1>4. IssuedInv'
  <2>1. ASSUME NEW c \in Copies' PROVE c.nr <= issued'[c.orig][c.type]
    BY <1>1, <1>3, SameIdentity DEF IssuedInv
  <2>2. ASSUME NEW m \in Node, NEW id \in processed'[m] \cup Elems(relays'[m])
        PROVE  id.nr <= issued'[id.orig][id.type] /\ id.orig # m
    <3>1. id \in processed[m] \cup Elems(relays[m]) \/ (m = n /\ id = Identity(msg))
      OBVIOUS
    <3> QED BY <1>2, <1>3, <3>1 DEF IssuedInv
  <2> QED BY <2>1, <2>2 DEF IssuedInv
<1>5. KeyInv'
  <2>1. ASSUME NEW c \in Copies', NEW d \in Copies', Identity(c) = Identity(d)
        PROVE  Key(c) = Key(d)
    BY <1>1, <1>3, <2>1 DEF KeyInv
  <2> QED BY <2>1 DEF KeyInv
<1>6. MarkInv'
  <2>1. ASSUME NEW m \in Node, NEW c \in Copies', Identity(c) \in Elems(relays'[m])
        PROVE  Key(c) \in retransmitted'[m]
    <3>1. PICK c0 \in Copies : Identity(c) = Identity(c0) /\ Key(c) = Key(c0)
      BY <1>1
    <3>2. CASE Identity(c) \in Elems(relays[m])
      <4>1. Key(c0) \in retransmitted[m]
        BY <1>3, <3>1, <3>2 DEF MarkInv
      <4> QED BY <3>1, <4>1
    <3>3. CASE m = n /\ Identity(c) = Identity(msg) /\ Key(msg) \in retransmitted'[n]
      BY <1>3, <3>1, <3>3 DEF KeyInv
    <3> QED BY <2>1, <3>2, <3>3
  <2> QED BY <2>1 DEF MarkInv
<1>7. TakenInv'
  <2>1. ASSUME NEW m \in Node, NEW c \in Copies', c.type = "TC", Identity(c) \in processed'[m]
        PROVE  Key(c) \in dup_tree'[m]
    <3>1. PICK c0 \in Copies : Identity(c) = Identity(c0) /\ Key(c) = Key(c0)
      BY <1>1
    <3>2. c0.type = "TC"
      BY <2>1, <3>1, SameIdentity
    <3>3. CASE Identity(c) \in processed[m]
      <4>1. Key(c0) \in dup_tree[m]
        BY <1>3, <3>1, <3>2, <3>3 DEF TakenInv
      <4> QED BY <3>1, <4>1
    <3>4. CASE m = n /\ Identity(c) = Identity(msg) /\ Key(msg) \notin dup_tree[n]
      <4>1. msg.type = "TC"
        BY <2>1, <3>4, SameIdentity
      <4>2. msg.ttl > 1
        <5>1. Key(msg) \notin retransmitted[n]
          BY <1>3, <3>4 DEF MarkInv
        <5> QED BY <4>1, <5>1, HopsLeft
      <4>3. Key(c0) = Key(msg)
        BY <1>3, <3>1, <3>4 DEF KeyInv
      <4> QED BY <3>1, <3>4, <4>2, <4>3
    <3> QED BY <2>1, <3>3, <3>4
  <2> QED BY <2>1 DEF TakenInv
<1> QED BY <1>4, <1>5, <1>6, <1>7

(* handle_olsr_msg: the next message of the packet. *)
LEMMA HandleStep == ASSUME IInv, NEW n \in Node, HandleMsg(n) PROVE IInv'
<1>1. PICK msg, src : msg = Head(rx[n].msgs) /\ src = rx[n].src
  OBVIOUS
<1>2. /\ rx[n].msgs # <<>> /\ UNCHANGED <<net, msg_seq, air, issued>>
      /\ rx' = [rx EXCEPT ![n].msgs = Tail(rx[n].msgs)]
      /\ IF msg.orig = n THEN UNCHANGED <<sym, processed, dups, tx, relays>>
         ELSE Process(n, msg, src) /\ Forward(n, msg, src)
  BY <1>1 DEF HandleMsg, Free, network
<1>3. rx[n].msgs \in Seq(Message) /\ src \in Node
  BY <1>1, <1>2 DEF IInv, PlaceTypes
<1>4. Tail(rx[n].msgs) \in Seq(Message) /\ msg \in Message
  BY <1>1, <1>2, <1>3
<1>5. Elems(Tail(rx[n].msgs)) \subseteq Elems(rx[n].msgs) /\ msg \in Elems(rx[n].msgs)
  BY <1>1, <1>2, <1>3, ElemsSplit
<1>6. msg \in Copies
  BY <1>5, CopyNow DEF CopyIn
<1>7. \A m \in Node : rx'[m].src = rx[m].src
                      /\ rx'[m].msgs = IF m = n THEN Tail(rx[n].msgs) ELSE rx[m].msgs
  BY <1>2 DEF IInv, PlaceTypes
<1>8. /\ rx' \in [Node -> [src : Node \cup {0}, msgs : Seq(Message)]]
      /\ \A m \in Node : rx'[m].msgs # <<>> => rx'[m].src \in Node
  <2>1. rx' \in [Node -> [src : Node \cup {0}, msgs : Seq(Message)]]
    BY <1>2, <1>4 DEF IInv, PlaceTypes
  <2>2. \A m \in Node : rx'[m].msgs # <<>> => rx'[m].src \in Node
    BY <1>1, <1>3, <1>7 DEF IInv, PlaceTypes
  <2> QED BY <2>1, <2>2
<1>9. \A m \in Node : Elems(rx'[m].msgs) \subseteq Elems(rx[m].msgs)
  BY <1>5, <1>7
<1>10. Message' = Message
  BY <1>2, MessageNext
<1>11. CASE msg.orig = n
  <2>1. UNCHANGED <<sym, processed, dups, tx, relays>>
    BY <1>2, <1>11
  <2>2. PlaceTypes'
    BY <1>2, <1>8, <1>10, <2>1 DEF IInv, PlaceTypes
  <2>3. NodeTypes'
    BY <1>2, <2>1 DEF IInv, NodeTypes, dups
  <2>4. \A m \in Node : Elems(tx'[m]) \subseteq Elems(tx[m]) \cup {}
    BY <2>1
  <2>5. Copies' \subseteq Copies \cup {}
    BY <1>2, <1>9, <2>4, CopiesGrow
  <2> QED BY <1>2, <2>1, <2>2, <2>3, <2>5, QuietStep DEF IInv
<1>12. CASE msg.orig # n
  <2>1. Process(n, msg, src) /\ Forward(n, msg, src)
    BY <1>2, <1>12
  <2>2. /\ sym' \in [Node -> SUBSET Node]
        /\ processed' \in [Node -> SUBSET IdentityType]
        /\ \A m \in Node : \A id \in processed'[m] :
              id \in processed[m] \/ (m = n /\ id = Identity(msg) /\ Key(msg) \notin dup_tree[n])
    BY <1>3, <1>4, <2>1, ProcessFacts
  <2>3. Key(msg) \in KeyType /\ Identity(msg) \in IdentityType /\ msg.ttl \in 1..TcTtl
    BY <1>4, MessageFacts DEF IInv
  <2>4. /\ dup_tree \in [Node -> SUBSET KeyType] /\ retransmitted \in [Node -> SUBSET KeyType]
        /\ relays \in [Node -> Seq(IdentityType)]
    BY DEF IInv, NodeTypes
  <2>5. dup_tree' = IF msg.ttl > 1 THEN [dup_tree EXCEPT ![n] = dup_tree[n] \cup {Key(msg)}]
                    ELSE dup_tree
    BY <2>1 DEF Forward
  <2>6. /\ dup_tree' \in [Node -> SUBSET KeyType]
        /\ \A m \in Node : dup_tree[m] \subseteq dup_tree'[m]
        /\ msg.ttl > 1 => Key(msg) \in dup_tree'[n]
    BY <2>3, <2>4, <2>5
  <2>7. \A m \in Node : retransmitted[m] \subseteq dup_tree[m]
    BY DEF IInv, FloodInv, MarkInv
  <2>8. CASE ~PassesOn(n, msg, src)
    <3>1. UNCHANGED <<retransmitted, tx, relays>>
      BY <2>1, <2>8 DEF Forward
    <3>2. PlaceTypes'
      BY <1>2, <1>8, <1>10, <3>1 DEF IInv, PlaceTypes
    <3>3. NodeTypes'
      BY <1>2, <2>2, <2>6, <3>1 DEF IInv, NodeTypes
    <3>4. \A m \in Node : Elems(tx'[m]) \subseteq Elems(tx[m]) \cup {}
      BY <3>1
    <3>5. Copies' \subseteq Copies \cup {}
      BY <1>2, <1>9, <3>4, CopiesGrow
    <3>6. IssuedInv' /\ KeyInv' /\ MarkInv' /\ TakenInv'
      <4>1. Copies' \subseteq Copies \cup {msg}
        BY <3>5
      <4>2. \A m \in Node : /\ dup_tree[m] \subseteq dup_tree'[m]
                            /\ retransmitted[m] \subseteq retransmitted'[m]
                            /\ retransmitted'[m] \subseteq dup_tree'[m]
        BY <2>6, <2>7, <3>1
      <4>3. \A m \in Node : \A id \in Elems(relays'[m]) :
               \/ id \in Elems(relays[m])
               \/ m = n /\ id = Identity(msg) /\ Key(msg) \in retransmitted'[n]
        BY <3>1
      <4> QED BY <1>2, <1>6, <1>12, <2>2, <2>6, <4>1, <4>2, <4>3, HandledFlood
    <3>7. TtlInv' /\ RelayOnce'
      BY <3>1, <3>5 DEF IInv, FloodInv, TtlInv, RelayOnce, Relayers
    <3> QED BY <3>2, <3>3, <3>6, <3>7 DEF IInv, FloodInv
  <2>9. CASE PassesOn(n, msg, src)
    <3>1. PICK w : w = [msg EXCEPT !.ttl = msg.ttl - 1]
      OBVIOUS
    <3>2. /\ msg.ttl > 1 /\ Key(msg) \notin retransmitted[n]
      BY <2>9 DEF PassesOn
    <3>3. /\ retransmitted' = [retransmitted EXCEPT ![n] = retransmitted[n] \cup {Key(msg)}]
          /\ relays' = [relays EXCEPT ![n] = Append(relays[n], Identity(msg))]
          /\ Push(n, w)
      BY <2>1, <2>9, <3>1 DEF Forward
    <3>4. /\ w \in Message /\ Key(w) = Key(msg) /\ Identity(w) = Identity(msg)
          /\ w.ttl = msg.ttl - 1
      BY <1>4, <3>1, <3>2, HopLess DEF IInv
    <3>5. /\ tx' \in [Node -> Seq(Message)] /\ \A m \in Node : Len(tx'[m]) <= net.cap
          /\ \A m \in Node : Elems(tx'[m]) \subseteq Elems(tx[m]) \cup {w}
      BY <3>3, <3>4, PushCopies DEF IInv
    <3>6. Copies' \subseteq Copies \cup {w}
      BY <1>2, <1>9, <3>5, CopiesGrow
    <3>7. PlaceTypes'
      BY <1>2, <1>8, <1>10, <3>5 DEF IInv, PlaceTypes
    <3>8. /\ relays[n] \in Seq(IdentityType)
          /\ Append(relays[n], Identity(msg)) \in Seq(IdentityType)
          /\ Elems(Append(relays[n], Identity(msg))) = Elems(relays[n]) \cup {Identity(msg)}
      <4>1. relays[n] \in Seq(IdentityType)
        BY <2>4
      <4>2. Append(relays[n], Identity(msg)) \in Seq(IdentityType)
        BY <2>3, <4>1
      <4> QED BY <4>1, <4>2, ElemsAppend
    <3>9. /\ retransmitted' \in [Node -> SUBSET KeyType]
          /\ relays' \in [Node -> Seq(IdentityType)]
      BY <2>3, <2>4, <3>3, <3>8
    <3>10. NodeTypes'
      BY <1>2, <2>2, <2>6, <3>9 DEF IInv, NodeTypes
    <3>11. \A m \in Node : /\ dup_tree[m] \subseteq dup_tree'[m]
                           /\ retransmitted[m] \subseteq retransmitted'[m]
                           /\ retransmitted'[m] \subseteq dup_tree'[m]
      BY <2>4, <2>6, <2>7, <3>2, <3>3
    <3>12. \A m \in Node : Elems(relays'[m]) = IF m = n THEN Elems(relays[m]) \cup {Identity(msg)}
                                               ELSE Elems(relays[m])
      BY <2>4, <3>3, <3>8
    <3>13. IssuedInv' /\ KeyInv' /\ MarkInv' /\ TakenInv'
      <4>1. Key(msg) \in retransmitted'[n]
        BY <2>4, <3>3
      <4>2. \A m \in Node : \A id \in Elems(relays'[m]) :
               \/ id \in Elems(relays[m])
               \/ m = n /\ id = Identity(msg) /\ Key(msg) \in retransmitted'[n]
        BY <3>12, <4>1
      <4> QED BY <1>2, <1>6, <1>12, <2>2, <2>6, <3>4, <3>6, <3>11, <4>2, HandledFlood
    <3>14. Identity(msg) \notin Elems(relays[n])
      BY <1>6, <3>2 DEF IInv, FloodInv, MarkInv
    <3>15. RelayOnce'
      <4>1. ASSUME NEW m \in Node, NEW i \in DOMAIN relays'[m], NEW j \in DOMAIN relays'[m],
                   relays'[m][i] = relays'[m][j]
            PROVE  i = j
        <5>1. CASE m # n
          <6>1. relays'[m] = relays[m]
            BY <2>4, <3>3, <5>1
          <6> QED BY <4>1, <6>1 DEF IInv, FloodInv, RelayOnce
        <5>2. CASE m = n
          <6>1. relays'[n] = Append(relays[n], Identity(msg))
            BY <2>4, <3>3
          <6>2. /\ DOMAIN relays[n] = 1..Len(relays[n]) /\ Len(relays[n]) \in Nat
                /\ DOMAIN relays'[n] = 1..(Len(relays[n]) + 1)
                /\ relays'[n][Len(relays[n]) + 1] = Identity(msg)
                /\ \A k \in 1..Len(relays[n]) : relays'[n][k] = relays[n][k]
            BY <3>8, <6>1
          <6>3. \A k \in 1..Len(relays[n]) : relays[n][k] # Identity(msg)
            BY <3>14, <6>2 DEF Elems
          <6>4. /\ i \in 1..Len(relays[n]) \/ i = Len(relays[n]) + 1
                /\ j \in 1..Len(relays[n]) \/ j = Len(relays[n]) + 1
            BY <4>1, <5>2, <6>2
          <6>5. CASE i \in 1..Len(relays[n]) /\ j \in 1..Len(relays[n])
            <7>1. relays[n][i] = relays[n][j]
              BY <4>1, <5>2, <6>2, <6>5
            <7> QED BY <6>2, <6>5, <7>1 DEF IInv, FloodInv, RelayOnce
          <6> QED BY <4>1, <5>2, <6>2, <6>3, <6>4, <6>5
        <5> QED BY <5>1, <5>2
      <4> QED BY <4>1 DEF RelayOnce
    <3>16. TtlInv'
      <4>1. ASSUME NEW c \in Copies', c.type = "TC",
                   NEW R, R = {k \in Node : Identity(c) \in Elems(relays'[k])}
            PROVE  c.ttl + Cardinality(R) >= TcTtl
        <5>1. Relayers(Identity(c)) \subseteq R /\ R \subseteq Node
          BY <3>12, <4>1 DEF Relayers
        <5>2. IsFiniteSet(R)
          BY <5>1, FloodAssumption, FS_Subset
        <5>3. /\ Cardinality(Relayers(Identity(c))) \in Nat /\ Cardinality(R) \in Nat
              /\ Cardinality(Relayers(Identity(c))) <= Cardinality(R)
          BY <5>1, <5>2, FS_Subset, FS_CardinalityType, RelayersFinite
        <5>4. CASE c \in Copies
          <6>1. c.ttl + Cardinality(Relayers(Identity(c))) >= TcTtl
            BY <4>1, <5>4 DEF IInv, FloodInv, TtlInv
          <6>2. c \in Message
            BY <5>4, CopiesTyped DEF IInv
          <6>3. c.ttl \in 1..TcTtl
            BY <6>2, MessageFacts DEF IInv
          <6> QED BY <5>3, <6>1, <6>3, FloodAssumption
        <5>5. CASE c = w
          <6>1. Identity(c) = Identity(msg) /\ c.ttl = msg.ttl - 1 /\ msg.type = "TC"
            BY <3>4, <4>1, <5>5, SameIdentity
          <6>2. R = Relayers(Identity(msg)) \cup {n} /\ n \notin Relayers(Identity(msg))
            BY <3>12, <3>14, <4>1, <6>1 DEF Relayers
          <6>3. IsFiniteSet(Relayers(Identity(msg)))
            BY RelayersFinite
          <6>4. Cardinality(R) = Cardinality(Relayers(Identity(msg))) + 1
            BY <6>2, <6>3, FS_AddElement
          <6>5. msg.ttl + Cardinality(Relayers(Identity(msg))) >= TcTtl
            BY <1>6, <6>1 DEF IInv, FloodInv, TtlInv
          <6>6. Cardinality(Relayers(Identity(msg))) \in Nat
            BY RelayersFinite
          <6> QED BY <2>3, <6>1, <6>4, <6>5, <6>6, FloodAssumption
        <5> QED BY <3>6, <5>4, <5>5
      <4> QED BY <4>1 DEF TtlInv, Relayers
    <3> QED BY <3>7, <3>10, <3>13, <3>15, <3>16 DEF IInv, FloodInv
  <2> QED BY <2>8, <2>9
<1> QED BY <1>11, <1>12
-----------------------------------------------------------------------------
(* Every step keeps the invariant. *)
LEMMA NextInv == ASSUME IInv, [Next]_vars PROVE IInv'
<1>1. 1 \in 1..TcTtl /\ TcTtl \in 1..TcTtl
  BY FloodAssumption
<1>2. CASE \E n \in Node : HelloTimer(n)
  BY <1>1, <1>2, OriginateStep DEF HelloTimer, MsgType
<1>3. CASE \E n \in Node : TcTimer(n)
  BY <1>1, <1>3, OriginateStep DEF TcTimer, MsgType
<1>4. CASE \E n \in Node : SendFromQueue(n)
  BY <1>4, SendStep
<1>5. CASE \E n, p \in Node : RecvPkt(n, p)
  BY <1>5, RecvStep
<1>6. CASE \E n \in Node : HandleMsg(n)
  BY <1>6, HandleStep
<1>7. CASE \E n \in Node : \E key \in dup_tree[n] : DupExpire(n, key)
  BY <1>7, ExpireStep
<1>8. CASE (\E n, p \in Node : LinkExpire(n, p)) \/ UNCHANGED vars
  BY <1>8, LinkStep
<1> QED BY <1>2, <1>3, <1>4, <1>5, <1>6, <1>7, <1>8 DEF Next

(* olsr_msg_forwarding passes no message on twice, whatever the network,   *)
(* the losses and the order in which copies of a message come in: the      *)
(* retransmitted flag outlives the copies.                                 *)
THEOREM RelaysOnce == Spec => []RelayOnce
<1>1. IInv => RelayOnce
  BY DEF IInv, FloodInv
<1> QED BY <1>1, InitInv, NextInv, PTL DEF Spec

(* process_olsr_tc gets a TC once and a node never gets its own: as long   *)
(* as the ttl of a TC is no less than the number of nodes, what a node has *)
(* taken stays in its duplicate set while copies are under way.            *)
THEOREM TakenRemembered == Spec => []TakenIsRemembered
<1>1. ASSUME IInv, NEW n \in Node, NEW msg \in Copies, msg.type = "TC",
             Identity(msg) \in processed[n]
      PROVE  msg.orig # n /\ Key(msg) \in dup_tree[n]
  <2>1. Identity(msg).orig = msg.orig
    BY DEF Identity
  <2> QED BY <1>1, <2>1 DEF IInv, FloodInv, IssuedInv, TakenInv
<1>2. IInv => TakenIsRemembered
  BY <1>1, TypesHold DEF TakenIsRemembered
<1> QED BY <1>2, InitInv, NextInv, PTL DEF Spec
-----------------------------------------------------------------------------
(* MPR selection covers what is two hops away. *)

(* A non-empty set of naturals has a least element. *)
LEMMA LeastOf ==
    ASSUME NEW T, T \subseteq Nat, T # {}
    PROVE  \E x \in T : \A y \in T : x <= y
<1> DEFINE R == {ss \in Nat \X Nat : ss[1] < ss[2]}
<1>1. IsWellFoundedOn(R, Nat)
  BY NatLessThanWellFounded, Zenon DEF OpToRel
<1> HIDE DEF R
<1>2. PICK x \in T : \A y \in T : <<y, x>> \notin R
  BY <1>1, WFMin
<1>3. \A y \in T : ~(y < x)
  BY <1>2 DEF R
<1> QED BY <1>3

(* A set of naturals that is closed under successor is all of Nat: what    *)
(* stands in for induction below.                                          *)
LEMMA AllNat ==
    ASSUME NEW T, 0 \in T, \A k \in Nat : k \in T => k + 1 \in T
    PROVE  Nat \subseteq T
<1> SUFFICES ASSUME Nat \ T # {} PROVE FALSE
  OBVIOUS
<1>1. PICK x \in Nat \ T : \A y \in Nat \ T : x <= y
  BY LeastOf
<1>2. x # 0 /\ x - 1 \in Nat /\ (x - 1) + 1 = x
  BY <1>1
<1>3. x - 1 \notin T
  BY <1>1, <1>2
<1>4. x - 1 \in Nat \ T /\ ~(x <= x - 1)
  BY <1>1, <1>2, <1>3
<1> QED BY <1>1, <1>4

(* One turn of populate_mpr_set_by_reachability, and the states of the     *)
(* selection before and after each of its first n turns.                   *)
GreedyTurn(sel, neighbor2) ==
    IF GreedyContinues(sel, neighbor2) THEN GreedyStep(sel, neighbor2) ELSE sel

IsRun(f, n, first, neighbor2) ==
    f = [k \in 0..n |-> IF k = 0 THEN first ELSE GreedyTurn(f[k - 1], neighbor2)]

(* There is a run of every length, *)
LEMMA RunExists ==
    ASSUME NEW first, NEW neighbor2, NEW n \in Nat
    PROVE  \E f : IsRun(f, n, first, neighbor2)
<1> DEFINE T == {k \in Nat : \E f : IsRun(f, k, first, neighbor2)}
<1>1. 0 \in T
  <2>1. IsRun([k \in 0..0 |-> first], 0, first, neighbor2)
    BY DEF IsRun
  <2> QED BY <2>1
<1>2. ASSUME NEW k \in Nat, k \in T PROVE k + 1 \in T
  <2>1. PICK f : f = [j \in 0..k |-> IF j = 0 THEN first ELSE GreedyTurn(f[j - 1], neighbor2)]
    BY <1>2 DEF IsRun
  <2>2. PICK g : g = [j \in 0..(k + 1) |-> IF j <= k THEN f[j] ELSE GreedyTurn(f[k], neighbor2)]
    OBVIOUS
  <2>3. \A j \in 0..k : g[j] = f[j]
    BY <2>2
  <2>4. ASSUME NEW j \in 0..(k + 1)
        PROVE  g[j] = IF j = 0 THEN first ELSE GreedyTurn(g[j - 1], neighbor2)
    <3>1. CASE j = 0
      BY <2>1, <2>3, <3>1
    <3>2. CASE j \in 1..k
      <4>1. j \in 0..k /\ j - 1 \in 0..k /\ j # 0
        BY <3>2
      <4> QED BY <2>1, <2>3, <4>1
    <3>3. CASE j = k + 1
      <4>1. j # 0 /\ ~(j <= k) /\ j - 1 = k /\ k \in 0..k
        BY <3>3
      <4> QED BY <2>2, <2>3, <4>1
    <3> QED BY <3>1, <3>2, <3>3
  <2>5. IsRun(g, k + 1, first, neighbor2)
    BY <2>2, <2>4 DEF IsRun
  <2> QED BY <2>5
<1> HIDE DEF T
<1>3. Nat \subseteq T
  BY <1>1, <1>2, AllNat
<1> QED BY <1>3 DEF T

(* and a longer run goes on where a shorter one ends. *)
LEMMA RunUnique ==
    ASSUME NEW first, NEW neighbor2, NEW n \in Nat, NEW m \in Nat, n <= m,
           NEW f, IsRun(f, n, first, neighbor2), NEW g, IsRun(g, m, first, neighbor2)
    PROVE  \A k \in 0..n : f[k] = g[k]
<1> DEFINE T == {k \in Nat : k <= n => f[k] = g[k]}
<1>1. 0 \in T
  BY DEF IsRun
<1>2. ASSUME NEW k \in Nat, k \in T PROVE k + 1 \in T
  <2>1. SUFFICES ASSUME k + 1 <= n PROVE f[k + 1] = g[k + 1]
    OBVIOUS
  <2>2. f[k] = g[k] /\ k + 1 \in 0..n /\ k + 1 \in 0..m /\ k + 1 # 0 /\ (k + 1) - 1 = k
    BY <1>2, <2>1
  <2>3. f[k + 1] = GreedyTurn(f[k], neighbor2)
    BY <2>2 DEF IsRun
  <2>4. g[k + 1] = GreedyTurn(g[k], neighbor2)
    BY <2>2 DEF IsRun
  <2> QED BY <2>2, <2>3, <2>4
<1> HIDE DEF T
<1>3. Nat \subseteq T
  BY <1>1, <1>2, AllNat
<1> QED BY <1>3 DEF T

(* So the recursive definition in PopulateMprSet defines a function. *)
LEMMA TurnExists ==
    ASSUME NEW first, NEW neighbor2
    PROVE  \E f : f = [k \in Nat |-> IF k = 0 THEN first ELSE GreedyTurn(f[k - 1], neighbor2)]
<1> DEFINE Run(n) == CHOOSE f : IsRun(f, n, first, neighbor2)
<1>1. \A n \in Nat : IsRun(Run(n), n, first, neighbor2)
  BY RunExists
<1> HIDE DEF Run
<1>2. PICK g : g = [n \in Nat |-> Run(n)[n]]
  OBVIOUS
<1>3. ASSUME NEW k \in Nat
      PROVE  g[k] = IF k = 0 THEN first ELSE GreedyTurn(g[k - 1], neighbor2)
  <2>1. CASE k = 0
    BY <1>1, <1>2, <2>1 DEF IsRun
  <2>2. CASE k # 0
    <3>1. k - 1 \in Nat /\ k - 1 <= k /\ k - 1 \in 0..(k - 1) /\ k \in 0..k
      BY <2>2
    <3>2. Run(k)[k] = GreedyTurn(Run(k)[k - 1], neighbor2)
      BY <1>1, <2>2, <3>1 DEF IsRun
    <3>3. Run(k - 1)[k - 1] = Run(k)[k - 1]
      BY <1>1, <3>1, RunUnique
    <3>4. g[k] = Run(k)[k] /\ g[k - 1] = Run(k - 1)[k - 1]
      BY <1>2, <3>1
    <3> QED BY <2>2, <3>2, <3>3, <3>4
  <2> QED BY <2>1, <2>2
<1> QED BY <1>2, <1>3

(* FirstOf picks an element of its argument. *)
LEMMA FirstOfIn == ASSUME NEW S, S \subseteq Nat, S # {} PROVE FirstOf(S) \in S
BY LeastOf DEF FirstOf

(* Reachability counts nodes. *)
LEMMA ReachabilityFacts ==
    ASSUME NEW p, NEW n2 \in SUBSET Node, NEW neighbor2
    PROVE  /\ Reachability(p, n2, neighbor2) \in 0..Cardinality(Node)
           /\ Reachability(p, n2, neighbor2) > 0 <=> neighbor2[p] \cap n2 # {}
<1>1. PICK U : U = neighbor2[p] \cap n2
  OBVIOUS
<1>2. U \subseteq Node
  BY <1>1
<1>3. IsFiniteSet(U) /\ Cardinality(U) <= Cardinality(Node)
  BY <1>2, FloodAssumption, FS_Subset
<1>4. Cardinality(U) \in Nat /\ Cardinality(Node) \in Nat
  BY <1>3, FloodAssumption, FS_CardinalityType
<1>5. Cardinality(U) = 0 <=> U = {}
  BY <1>3, FS_EmptySet
<1> QED BY <1>1, <1>3, <1>4, <1>5 DEF Reachability

(* get_max_reachablilty_neigh finds a neighbour if one reaches anything. *)
LEMMA MaxReachableExists ==
    ASSUME NEW sel, NEW neighbor2, sel.n2 \in SUBSET Node,
           NEW b \in sel.n1, neighbor2[b] \cap sel.n2 # {}
    PROVE  MaxReachable(sel, neighbor2) # {}
<1> DEFINE Re(p) == Reachability(p, sel.n2, neighbor2)
           B == Cardinality(Node)
           T == {B - Re(p) : p \in sel.n1}
<1>1. B \in Nat /\ \A p \in sel.n1 : Re(p) \in 0..B
  BY ReachabilityFacts, FloodAssumption, FS_CardinalityType
<1>2. Re(b) > 0
  BY ReachabilityFacts
<1> HIDE DEF Re, B
<1>3. T \subseteq Nat /\ T # {}
  BY <1>1
<1>4. PICK x \in T : \A y \in T : x <= y
  <2> HIDE DEF T
  <2> QED BY <1>3, LeastOf
<1>5. PICK p \in sel.n1 : x = B - Re(p)
  BY <1>4
<1>6. \A q \in sel.n1 : B - Re(p) <= B - Re(q)
  BY <1>4, <1>5
<1>7. \A q \in sel.n1 : Re(q) <= Re(p)
  BY <1>1, <1>6
<1>8. Re(p) > 0
  BY <1>1, <1>2, <1>7
<1> QED BY <1>7, <1>8 DEF MaxReachable, Re

(* A selection under way: who is not selected is a candidate, and n2_set   *)
(* is what no selected neighbour bridges.                                  *)
Covering(sel, n1, n2, neighbor2) ==
    /\ sel.mpr \cup sel.n1 = n1
    /\ sel.n2 = {x \in n2 : \A m \in sel.mpr : x \notin neighbor2[m]}

(* Selecting a candidate keeps it so, and leaves one candidate less. *)
LEMMA SelectCovers ==
    ASSUME NEW n1 \in SUBSET Node, NEW n2, NEW neighbor2, NEW sel,
           Covering(sel, n1, n2, neighbor2), NEW m \in sel.n1
    PROVE  /\ Covering(Select(sel, m, neighbor2), n1, n2, neighbor2)
           /\ Cardinality(Select(sel, m, neighbor2).n1) = Cardinality(sel.n1) - 1
<1>1. PICK s : s = Select(sel, m, neighbor2)
  OBVIOUS
<1>2. s.mpr = sel.mpr \cup {m} /\ s.n1 = sel.n1 \ {m} /\ s.n2 = sel.n2 \ neighbor2[m]
  BY <1>1 DEF Select
<1>3. Covering(s, n1, n2, neighbor2)
  BY <1>2 DEF Covering
<1>4. sel.n1 \subseteq Node
  BY DEF Covering
<1>5. IsFiniteSet(sel.n1)
  BY <1>4, FloodAssumption, FS_Subset
<1>6. Cardinality(s.n1) = Cardinality(sel.n1) - 1
  BY <1>2, <1>5, FS_RemoveElement
<1> QED BY <1>1, <1>3, <1>6

(* populate_mpr_set ends when nothing is left to cover: there are as many  *)
(* turns as candidates, and each turn that does not end the loop uses one. *)
LEMMA PopulateCovers ==
    ASSUME NEW own, NEW stat, NEW neighbor2, DOMAIN stat = Node,
           \A p \in Node : neighbor2[p] \subseteq Node,
           NEW x \in CalcN2(own, CalcN1(stat), neighbor2)
    PROVE  \E q \in PopulateMprSet(own, stat, neighbor2).mpr :
              q \in CalcN1(stat) /\ x \in neighbor2[q]
<1> DEFINE start == StartSelection(own, stat, neighbor2)
           first == AddUniqueBridge(start, neighbor2)
           turn[k \in Nat] ==
              IF k = 0 THEN AddUniqueBridge(start, neighbor2)
              ELSE LET sel == turn[k - 1]
                   IN  IF GreedyContinues(sel, neighbor2)
                       THEN GreedyStep(sel, neighbor2) ELSE sel
<1>1. PopulateMprSet(own, stat, neighbor2) = turn[Cardinality(start.n1)]
  BY DEF PopulateMprSet
<1>2. PICK n1, n2 : n1 = CalcN1(stat) /\ n2 = CalcN2(own, n1, neighbor2)
  OBVIOUS
<1>3. /\ n1 \subseteq Node /\ n1 \in SUBSET Nat /\ n2 \subseteq Node
      /\ start.n1 = n1 /\ start.mpr = {} /\ start.n2 = n2
  <2>1. n1 \subseteq Node
    BY <1>2 DEF CalcN1
  <2>2. n2 \subseteq Node
    BY <1>2, <2>1 DEF CalcN2
  <2> QED BY <1>2, <2>1, <2>2, FloodAssumption DEF StartSelection
<1>4. IsFiniteSet(n1) /\ Cardinality(n1) \in Nat
  BY <1>3, FloodAssumption, FS_Subset, FS_CardinalityType
<1>5. Covering(start, n1, n2, neighbor2) /\ Cardinality(start.n1) = Cardinality(n1)
  BY <1>3 DEF Covering
<1>6. turn = [k \in Nat |-> IF k = 0 THEN first ELSE GreedyTurn(turn[k - 1], neighbor2)]
  <2> HIDE DEF start
  <2>1. turn = CHOOSE f : f = [k \in Nat |-> IF k = 0 THEN first
                                             ELSE GreedyTurn(f[k - 1], neighbor2)]
    BY DEF GreedyTurn
  <2> HIDE DEF turn, first
  <2> QED BY <2>1, TurnExists
<1>7. Covering(first, n1, n2, neighbor2) /\ Cardinality(first.n1) <= Cardinality(n1)
  <2>1. PICK only : only = UniqueBridges(start.n1, start.n2, neighbor2)
    OBVIOUS
  <2>2. only \subseteq start.n1 /\ only \subseteq Nat
    BY <1>3, <2>1 DEF UniqueBridges
  <2>3. only # {} => FirstOf(only) \in start.n1
    BY <2>2, FirstOfIn
  <2> HIDE DEF start
  <2>4. first = IF only = {} THEN start ELSE Select(start, FirstOf(only), neighbor2)
    BY <2>1 DEF AddUniqueBridge
  <2>5. CASE only = {}
    BY <1>4, <1>5, <2>4, <2>5
  <2>6. CASE only # {}
    <3>1. /\ Covering(Select(start, FirstOf(only), neighbor2), n1, n2, neighbor2)
          /\ Cardinality(Select(start, FirstOf(only), neighbor2).n1) = Cardinality(start.n1) - 1
      BY <1>3, <1>5, <2>3, <2>6, SelectCovers
    <3> QED BY <1>4, <1>5, <2>4, <2>6, <3>1
  <2> QED BY <2>5, <2>6
<1> HIDE DEF start, first, turn
<1> DEFINE T == {k \in Nat : /\ Covering(turn[k], n1, n2, neighbor2)
                             /\ \/ ~GreedyContinues(turn[k], neighbor2)
                                \/ Cardinality(turn[k].n1) + k <= Cardinality(n1)}
<1>8. 0 \in T
  <2>1. turn[0] = first
    BY <1>6
  <2>2. first.n1 \subseteq Node
    BY <1>3, <1>7 DEF Covering
  <2>3. Cardinality(first.n1) \in Nat
    BY <2>2, FloodAssumption, FS_Subset, FS_CardinalityType
  <2> QED BY <1>4, <1>7, <2>1, <2>3
<1>9. ASSUME NEW k \in Nat, k \in T PROVE k + 1 \in T
  <2>1. k + 1 # 0 /\ (k + 1) - 1 = k /\ k + 1 \in Nat
    OBVIOUS
  <2>2. turn[k + 1] = GreedyTurn(turn[k], neighbor2)
    BY <1>6, <2>1
  <2>3. PICK sel : sel = turn[k]
    OBVIOUS
  <2>4. CASE ~GreedyContinues(sel, neighbor2)
    BY <1>9, <2>1, <2>2, <2>3, <2>4 DEF GreedyTurn
  <2>5. CASE GreedyContinues(sel, neighbor2)
    <3>1. PICK M : M = MaxReachable(sel, neighbor2)
      OBVIOUS
    <3>2. Covering(sel, n1, n2, neighbor2) /\ Cardinality(sel.n1) + k <= Cardinality(n1)
      BY <1>9, <2>3, <2>5
    <3>3. M # {} /\ M \subseteq sel.n1 /\ M \subseteq Nat /\ sel.n1 \subseteq Node
      BY <1>3, <2>5, <3>1, <3>2 DEF GreedyContinues, MaxReachable, Covering
    <3>4. FirstOf(M) \in sel.n1
      BY <3>3, FirstOfIn
    <3>5. turn[k + 1] = Select(sel, FirstOf(M), neighbor2)
      BY <2>2, <2>3, <2>5, <3>1 DEF GreedyTurn, GreedyStep
    <3>6. /\ Covering(turn[k + 1], n1, n2, neighbor2)
          /\ Cardinality(turn[k + 1].n1) = Cardinality(sel.n1) - 1
      BY <1>3, <3>2, <3>4, <3>5, SelectCovers
    <3>7. Cardinality(sel.n1) \in Nat
      BY <3>3, FloodAssumption, FS_Subset, FS_CardinalityType
    <3> QED BY <1>4, <2>1, <3>2, <3>6, <3>7
  <2> QED BY <2>4, <2>5
<1> HIDE DEF T
<1>10. Nat \subseteq T
  BY <1>8, <1>9, AllNat
<1>11. PICK final : final = turn[Cardinality(n1)]
  OBVIOUS
<1>12. Covering(final, n1, n2, neighbor2) /\ final.n1 \subseteq Node /\ final.n2 \subseteq Node
  BY <1>3, <1>4, <1>10, <1>11 DEF T, Covering
<1>13. ~GreedyContinues(final, neighbor2)
  <2>1. SUFFICES ASSUME Cardinality(final.n1) + Cardinality(n1) <= Cardinality(n1)
                 PROVE  final.n1 = {}
    BY <1>4, <1>10, <1>11 DEF T, GreedyContinues, MaxReachable
  <2>2. IsFiniteSet(final.n1) /\ Cardinality(final.n1) \in Nat
    BY <1>12, FloodAssumption, FS_Subset, FS_CardinalityType
  <2>3. Cardinality(final.n1) = 0
    BY <1>4, <2>1, <2>2
  <2> QED BY <2>2, <2>3, FS_EmptySet
<1>14. PICK p \in n1 : x \in neighbor2[p]
  BY <1>2 DEF CalcN2
<1>15. x \notin final.n2
  <2>1. SUFFICES ASSUME x \in final.n2 PROVE FALSE
    OBVIOUS
  <2>2. p \in final.n1
    BY <1>12, <1>14, <2>1 DEF Covering
  <2>3. MaxReachable(final, neighbor2) # {}
    BY <1>12, <1>14, <2>1, <2>2, MaxReachableExists
  <2> QED BY <1>13, <2>1, <2>3 DEF GreedyContinues
<1>16. x \in n2 /\ final = PopulateMprSet(own, stat, neighbor2)
  BY <1>1, <1>2, <1>3, <1>11
<1>17. PICK q \in final.mpr : x \in neighbor2[q]
  BY <1>12, <1>15, <1>16 DEF Covering
<1> QED BY <1>2, <1>12, <1>16, <1>17 DEF Covering
-----------------------------------------------------------------------------
(***************************************************************************)
(* A TC reaches every node, in a settled network: nothing is lost, links   *)
(* work both ways and stay.                                                *)
(***************************************************************************)

Settled == ~net.loss /\ ~net.churn /\ IsSymmetric

(* Node n has originated the message id, or has set out to pass it on. *)
Sends(n, id) == n = id.orig \/ id \in Elems(relays[n])

(* A copy of id is in the sequence s of messages. *)
Waits(id, s) == \E msg \in Elems(s) : Identity(msg) = id

(* A packet holds what its sender sends, and comes from a neighbour. *)
SenderInv ==
    /\ \A n \in Node : sym[n] = Adj(n)
    /\ \A n \in Node : \A msg \in Elems(tx[n]) : Sends(n, Identity(msg))
    /\ \A n, m \in Node : \A pkt \in Elems(air[n][m]) :
          m \in Adj(n) /\ \A msg \in Elems(pkt) : Sends(n, Identity(msg))
    /\ \A m \in Node : \A msg \in Elems(rx[m].msgs) :
          m \in Adj(rx[m].src) /\ Sends(rx[m].src, Identity(msg))

(* A key tells a TC from all others: HELLOs, which can share a packet and  *)
(* its number with one, enter no duplicate set.                            *)
NumberInv ==
    /\ \A msg \in Copies : msg.type = "HELLO" => msg.ttl = 1
    /\ \A m1, m2 \in Copies :
          m1.type = "TC" /\ m2.type = "TC" /\ Key(m1) = Key(m2) => Identity(m1) = Identity(m2)

(* Hence the duplicate set and its marks speak of this very TC. *)
KnownInv ==
    \A n \in Node, msg \in Copies : msg.type = "TC" =>
       /\ Key(msg) \in dup_tree[n] /\ msg.orig # n => Identity(msg) \in processed[n]
       /\ Key(msg) \in retransmitted[n] => Identity(msg) \in Elems(relays[n])

(* A TC that has been processed came from a neighbour, and what is passed  *)
(* on has been processed.                                                  *)
FromInv ==
    /\ \A n \in Node : \A id \in processed[n] :
          id.type = "TC" => \E s \in Adj(n) : Sends(s, id)
    /\ \A n \in Node : Elems(relays[n]) \subseteq processed[n]

(* What is two hops from s can be reached by way of a node s has selected. *)
CoverInv ==
    \A s \in Node : \A p \in Adj(s) : \A x \in Adj(p) :
       \/ x = s \/ x \in Adj(s)
       \/ \E q \in Adj(s) : s \in selector_tree[q] /\ x \in Adj(q)

(* Node m has had the TC id from n, and passes it on if n relies on that. *)
Reached(id, n, m) ==
    id \in processed[m] /\ (n \in selector_tree[m] => id \in Elems(relays[m]))

(* On its way from n to its neighbour m the TC is never nowhere. *)
OnItsWay(id, n, m) ==
    \/ Waits(id, tx[n])
    \/ \E pkt \in Elems(air[n][m]) : Waits(id, pkt)
    \/ rx[m].src = n /\ Waits(id, rx[m].msgs)
    \/ Reached(id, n, m)

(* The TCs that met no full buffer. *)
Issued == {id \in IdentityType :
              id.type = "TC" /\ id.nr \in 1..issued[id.orig]["TC"] /\ id \notin refused}

DeliveryInv ==
    \A id \in Issued : \A n, m \in Node :
       Sends(n, id) /\ m \in Adj(n) /\ m # id.orig => OnItsWay(id, n, m)

ReachInv == Settled => /\ SenderInv /\ NumberInv /\ KnownInv
                       /\ FromInv /\ CoverInv /\ DeliveryInv
-----------------------------------------------------------------------------
(* With symmetric links, neighbours are each other's. *)
LEMMA AdjSymmetric ==
    ASSUME IsSymmetric, NEW n \in Node, NEW m \in Adj(n)
    PROVE  n \in Adj(m)
BY DEF IsSymmetric, Adj

(* The network is the same for good. *)
LEMMA NetworkStays ==
    ASSUME UNCHANGED network
    PROVE  /\ Settled' = Settled /\ \A n : Adj(n)' = Adj(n)
           /\ CoverInv => CoverInv'
BY DEF network, Settled, IsSymmetric, Adj, CoverInv

(* No copy is new and nothing is handled. *)
LEMMA QuietKnown ==
    ASSUME NumberInv, KnownInv, FromInv, Copies' \subseteq Copies, UNCHANGED network,
           \A n \in Node : /\ dup_tree'[n] \subseteq dup_tree[n]
                           /\ retransmitted'[n] \subseteq retransmitted[n],
           UNCHANGED <<processed, relays>>
    PROVE  NumberInv' /\ KnownInv' /\ FromInv'
<1>1. NumberInv'
  BY DEF NumberInv
<1>2. KnownInv'
  BY DEF KnownInv
<1>3. FromInv'
  BY NetworkStays DEF FromInv, Sends
<1> QED BY <1>1, <1>2, <1>3

(* Which of the TCs were not refused. *)
LEMMA IssuedStays == ASSUME UNCHANGED <<issued, refused>> PROVE Issued' = Issued
BY DEF Issued

(* Nobody has heard of anything, and MPRs are selected. *)
LEMMA InitReach == ASSUME Init PROVE ReachInv
<1>1. /\ \A n \in Node : tx[n] = <<>> /\ rx[n].msgs = <<>> /\ sym[n] = Adj(n)
      /\ \A n, m \in Node : air[m][n] = <<>>
      /\ \A n \in Node : processed[n] = {} /\ relays[n] = <<>> /\ issued[n]["TC"] = 0
  BY DEF Init, NoPacket, MsgType
<1>2. Copies = {}
  BY <1>1, ElemsEmpty, CopyNow DEF CopyIn
<1>3. SenderInv /\ NumberInv /\ KnownInv /\ FromInv
  BY <1>1, <1>2, ElemsEmpty DEF SenderInv, NumberInv, KnownInv, FromInv
<1>4. DeliveryInv
  <2>1. Issued = {}
    BY <1>1 DEF Issued, IdentityType
  <2> QED BY <2>1 DEF DeliveryInv
<1>5. CoverInv
  <2>1. SUFFICES ASSUME NEW s \in Node, NEW p \in Adj(s), NEW x \in Adj(p),
                        x # s, x \notin Adj(s)
                 PROVE  \E q \in Adj(s) : s \in selector_tree[q] /\ x \in Adj(q)
    BY DEF CoverInv
  <2>2. PICK stat, nb : /\ stat = [q \in Node |-> IF q \in Adj(s) THEN "SYM" ELSE "NONE"]
                        /\ nb = [q \in Node |-> Adj(q) \ {s}]
    OBVIOUS
  <2>3. Mprs(s) = PopulateMprSet(s, stat, nb).mpr
    BY <2>2 DEF Mprs
  <2>4. CalcN1(stat) = Adj(s) /\ DOMAIN stat = Node
    BY <2>2 DEF CalcN1, SymStatus, Adj
  <2>5. \A q \in Node : nb[q] \subseteq Node /\ nb[q] \subseteq Adj(q)
    BY <2>2 DEF Adj
  <2>6. p \in Node /\ x \in nb[p]
    BY <2>1, <2>2 DEF Adj
  <2>7. x \in CalcN2(s, CalcN1(stat), nb)
    BY <2>1, <2>4, <2>6 DEF CalcN2
  <2>8. PICK q \in Mprs(s) : q \in Adj(s) /\ x \in nb[q]
    BY <2>3, <2>4, <2>5, <2>7, PopulateCovers
  <2>9. q \in Node
    BY <2>8 DEF Adj
  <2>10. s \in selector_tree[q]
    BY <2>8, <2>9 DEF Init
  <2> QED BY <2>5, <2>8, <2>9, <2>10
<1> QED BY <1>3, <1>4, <1>5 DEF ReachInv

(* olsr_send_from_queue_cb: no neighbour is missed. *)
LEMMA SendReach ==
    ASSUME IInv, ReachInv, NEW n \in Node, SendFromQueue(n)
    PROVE  ReachInv'
<1>1. /\ tx' = [tx EXCEPT ![n] = <<>>] /\ rx' = rx
      /\ UNCHANGED <<network, sym, dups, issued, processed, relays, refused>>
  BY DEF SendFromQueue, history
<1>2. Settled' = Settled /\ \A k : Adj(k)' = Adj(k)
  BY <1>1, NetworkStays
<1>3. SUFFICES ASSUME Settled
               PROVE  SenderInv' /\ NumberInv' /\ KnownInv' /\ FromInv' /\ CoverInv' /\ DeliveryInv'
  BY <1>2 DEF ReachInv
<1>4. SenderInv /\ NumberInv /\ KnownInv /\ FromInv /\ CoverInv /\ DeliveryInv
  BY <1>3 DEF ReachInv
<1>5. air' = [air EXCEPT ![n] = [m \in Node |->
                 IF m \in Adj(n) THEN Append(air[n][m], tx[n]) ELSE air[n][m]]]
  BY <1>3 DEF SendFromQueue, Settled, IInv, PlaceTypes
<1>6. \A k, m \in Node : Elems(air'[k][m]) = IF k = n /\ m \in Adj(n)
                                             THEN Elems(air[k][m]) \cup {tx[n]}
                                             ELSE Elems(air[k][m])
  <2>1. \A m \in Node : air[n][m] \in Seq(Seq(Message))
    BY DEF IInv, PlaceTypes
  <2>2. \A m \in Node : Elems(Append(air[n][m], tx[n])) = Elems(air[n][m]) \cup {tx[n]}
    BY <2>1, ElemsAppend
  <2>3. \A k, m \in Node : air'[k][m] = IF k = n /\ m \in Adj(n)
                                        THEN Append(air[n][m], tx[n]) ELSE air[k][m]
    BY <1>5 DEF IInv, PlaceTypes
  <2> QED BY <2>2, <2>3
<1>7. /\ \A k \in Node : Elems(tx'[k]) = IF k = n THEN {} ELSE Elems(tx[k])
      /\ \A k, m \in Node : \A pkt \in Elems(air'[k][m]) :
            pkt \in Elems(air[k][m]) \/ (k = n /\ m \in Adj(n) /\ pkt = tx[n])
  <2>1. \A k \in Node : Elems(tx'[k]) = IF k = n THEN {} ELSE Elems(tx[k])
    BY <1>1, ElemsEmpty DEF IInv, PlaceTypes
  <2>2. ASSUME NEW k \in Node, NEW m \in Node, NEW pkt \in Elems(air'[k][m])
        PROVE  pkt \in Elems(air[k][m]) \/ (k = n /\ m \in Adj(n) /\ pkt = tx[n])
    BY <1>6, <2>2
  <2> QED BY <2>1, <2>2
<1>8. ASSUME NEW msg \in Copies' PROVE msg \in Copies
  <2>1. CASE \E m \in Node : msg \in Elems(tx'[m])
    BY <1>7, <2>1, CopyNow DEF CopyIn
  <2>2. CASE \E m \in Node : msg \in Elems(rx'[m].msgs)
    BY <1>1, <2>2, CopyNow DEF CopyIn
  <2>3. CASE \E k, m \in Node : \E pkt \in Elems(air'[m][k]) : msg \in Elems(pkt)
    BY <1>7, <2>3, CopyNow DEF CopyIn
  <2> QED BY <2>1, <2>2, <2>3, CopyNext DEF CopyIn
<1>9. NumberInv' /\ KnownInv' /\ FromInv' /\ CoverInv'
  BY <1>1, <1>4, <1>8, QuietKnown, NetworkStays DEF dups
<1>10. SenderInv'
  <2>1. \A k \in Node : \A msg \in Elems(tx'[k]) : Sends(k, Identity(msg))
    BY <1>4, <1>7 DEF SenderInv
  <2>2. \A k, m \in Node : \A pkt \in Elems(air'[k][m]) :
           m \in Adj(k) /\ \A msg \in Elems(pkt) : Sends(k, Identity(msg))
    BY <1>4, <1>7 DEF SenderInv
  <2> QED BY <1>1, <1>2, <1>4, <2>1, <2>2 DEF SenderInv, Sends
<1>11. DeliveryInv'
  <2>1. SUFFICES ASSUME NEW id \in Issued, NEW k \in Node, NEW m \in Node,
                        Sends(k, id), m \in Adj(k), m # id.orig
                 PROVE  OnItsWay(id, k, m)'
    BY <1>1, <1>2, IssuedStays DEF DeliveryInv, Sends
  <2>2. OnItsWay(id, k, m)
    BY <1>4, <2>1 DEF DeliveryInv
  <2>3. CASE Waits(id, tx[k])
    <3>1. CASE k = n
      <4>1. tx[n] \in Elems(air'[k][m])
        BY <1>6, <2>1, <3>1
      <4> QED BY <2>3, <3>1, <4>1 DEF OnItsWay, Waits
    <3>2. CASE k # n
      BY <1>7, <2>3, <3>2 DEF OnItsWay, Waits
    <3> QED BY <3>1, <3>2
  <2>4. CASE \E pkt \in Elems(air[k][m]) : Waits(id, pkt)
    BY <1>6, <2>4 DEF OnItsWay, Waits
  <2>5. CASE rx[m].src = k /\ Waits(id, rx[m].msgs)
    BY <1>1, <2>5 DEF OnItsWay, Waits
  <2>6. CASE Reached(id, k, m)
    BY <1>1, <2>6 DEF OnItsWay, Reached, network
  <2> QED BY <2>2, <2>3, <2>4, <2>5, <2>6 DEF OnItsWay
<1> QED BY <1>9, <1>10, <1>11

(* handle_route_pkt gets a packet: it stays between the same two nodes. *)
LEMMA RecvReach ==
    ASSUME IInv, ReachInv, NEW n \in Node, NEW p \in Node, RecvPkt(n, p)
    PROVE  ReachInv'
<1>1. /\ air[p][n] # <<>> /\ rx[n].msgs = <<>> /\ tx' = tx
      /\ rx' = [rx EXCEPT ![n] = [src |-> p, msgs |-> Head(air[p][n])]]
      /\ air' = [air EXCEPT ![p][n] = Tail(air[p][n])]
      /\ UNCHANGED <<network, sym, dups, issued, processed, relays, refused>>
  BY DEF RecvPkt, Free, history
<1>2. Settled' = Settled /\ \A k : Adj(k)' = Adj(k)
  BY <1>1, NetworkStays
<1>3. SUFFICES ASSUME Settled
               PROVE  SenderInv' /\ NumberInv' /\ KnownInv' /\ FromInv' /\ CoverInv' /\ DeliveryInv'
  BY <1>2 DEF ReachInv
<1>4. SenderInv /\ NumberInv /\ KnownInv /\ FromInv /\ CoverInv /\ DeliveryInv
  BY <1>3 DEF ReachInv
<1>5. PICK pkt0 : pkt0 = Head(air[p][n])
  OBVIOUS
<1>6. \A k, m \in Node : /\ k = p /\ m = n => Elems(air[k][m]) = {pkt0} \cup Elems(air'[k][m])
                         /\ ~(k = p /\ m = n) => air'[k][m] = air[k][m]
  <2>1. air[p][n] \in Seq(Seq(Message))
    BY DEF IInv, PlaceTypes
  <2>2. Elems(air[p][n]) = {pkt0} \cup Elems(Tail(air[p][n]))
    BY <1>1, <1>5, <2>1, ElemsSplit
  <2> QED BY <1>1, <2>2 DEF IInv, PlaceTypes
<1>7. /\ rx'[n].src = p /\ rx'[n].msgs = pkt0
      /\ \A m \in Node : m # n => rx'[m] = rx[m]
  BY <1>1, <1>5 DEF IInv, PlaceTypes
<1>8. pkt0 \in Elems(air[p][n])
  BY <1>6
<1>9. ASSUME NEW msg \in Copies' PROVE msg \in Copies
  <2>1. CASE \E m \in Node : msg \in Elems(tx'[m])
    BY <1>1, <2>1, CopyNow DEF CopyIn
  <2>2. CASE \E m \in Node : msg \in Elems(rx'[m].msgs)
    BY <1>7, <1>8, <2>2, CopyNow DEF CopyIn
  <2>3. CASE \E k, m \in Node : \E pkt \in Elems(air'[m][k]) : msg \in Elems(pkt)
    BY <1>6, <2>3, CopyNow DEF CopyIn
  <2> QED BY <2>1, <2>2, <2>3, CopyNext DEF CopyIn
<1>10. NumberInv' /\ KnownInv' /\ FromInv' /\ CoverInv'
  BY <1>1, <1>4, <1>9, QuietKnown, NetworkStays DEF dups
<1>11. SenderInv'
  <2>1. \A k, m \in Node : \A pkt \in Elems(air'[k][m]) :
           m \in Adj(k) /\ \A msg \in Elems(pkt) : Sends(k, Identity(msg))
    BY <1>4, <1>6 DEF SenderInv
  <2>2. \A m \in Node : \A msg \in Elems(rx'[m].msgs) :
           m \in Adj(rx'[m].src) /\ Sends(rx'[m].src, Identity(msg))
    BY <1>4, <1>7, <1>8 DEF SenderInv
  <2> QED BY <1>1, <1>2, <1>4, <2>1, <2>2 DEF SenderInv, Sends
<1>12. DeliveryInv'
  <2>1. SUFFICES ASSUME NEW id \in Issued, NEW k \in Node, NEW m \in Node,
                        Sends(k, id), m \in Adj(k), m # id.orig
                 PROVE  OnItsWay(id, k, m)'
    BY <1>1, <1>2, IssuedStays DEF DeliveryInv, Sends
  <2>2. OnItsWay(id, k, m)
    BY <1>4, <2>1 DEF DeliveryInv
  <2>3. CASE Waits(id, tx[k])
    BY <1>1, <2>3 DEF OnItsWay
  <2>4. CASE \E pkt \in Elems(air[k][m]) : Waits(id, pkt)
    <3>1. PICK pkt \in Elems(air[k][m]) : Waits(id, pkt)
      BY <2>4
    <3>2. pkt \in Elems(air'[k][m]) \/ (k = p /\ m = n /\ pkt = pkt0)
      BY <1>6
    <3> QED BY <1>7, <3>1, <3>2 DEF OnItsWay, Waits
  <2>5. CASE rx[m].src = k /\ Waits(id, rx[m].msgs)
    <3>1. m # n
      BY <1>1, <2>5, ElemsEmpty DEF Waits
    <3> QED BY <1>7, <2>5, <3>1 DEF OnItsWay
  <2>6. CASE Reached(id, k, m)
    BY <1>1, <2>6 DEF OnItsWay, Reached, network
  <2> QED BY <2>2, <2>3, <2>4, <2>5, <2>6 DEF OnItsWay
<1> QED BY <1>10, <1>11, <1>12

(* Timers that run out in a settled network leave messages alone. *)
LEMMA TimeReach ==
    ASSUME ReachInv, IInv,
           \/ \E n \in Node : \E key \in dup_tree[n] : DupExpire(n, key)
           \/ \E n, p \in Node : LinkExpire(n, p)
           \/ UNCHANGED vars
    PROVE  ReachInv'
<1>1. UNCHANGED <<network, tx, air, rx, issued, processed, relays, refused>>
  BY DEF DupExpire, LinkExpire, vars, network, history
<1>2. Settled' = Settled /\ \A k : Adj(k)' = Adj(k)
  BY <1>1, NetworkStays
<1>3. SUFFICES ASSUME Settled
               PROVE  SenderInv' /\ NumberInv' /\ KnownInv' /\ FromInv' /\ CoverInv' /\ DeliveryInv'
  BY <1>2 DEF ReachInv
<1>4. SenderInv /\ NumberInv /\ KnownInv /\ FromInv /\ CoverInv /\ DeliveryInv
  BY <1>3 DEF ReachInv
<1>5. sym' = sym
  BY <1>3 DEF DupExpire, LinkExpire, Settled, vars
<1>6. \A n \in Node : /\ dup_tree'[n] \subseteq dup_tree[n]
                      /\ retransmitted'[n] \subseteq retransmitted[n]
  BY DEF DupExpire, LinkExpire, vars, dups, IInv, NodeTypes
<1>7. Copies' = Copies
  BY <1>1 DEF Copies
<1>8. NumberInv' /\ KnownInv' /\ FromInv' /\ CoverInv'
  BY <1>1, <1>4, <1>6, <1>7, QuietKnown, NetworkStays
<1>9. SenderInv'
  BY <1>1, <1>2, <1>4, <1>5 DEF SenderInv, Sends
<1>10. DeliveryInv'
  BY <1>1, <1>2, <1>4, IssuedStays DEF DeliveryInv, Sends, OnItsWay, Reached, network
<1> QED BY <1>8, <1>9, <1>10

(* RingBuffer_push keeps what waits; w joins it or is counted as refused. *)
LEMMA PushWaits ==
    ASSUME PlaceTypes, NEW n \in Node, NEW w, Push(n, w)
    PROVE  /\ \A m \in Node : Elems(tx[m]) \subseteq Elems(tx'[m])
           /\ \A m \in Node : \A c \in Elems(tx'[m]) : c \in Elems(tx[m]) \/ (m = n /\ c = w)
           /\ w \in Elems(tx'[n]) \/ Identity(w) \in refused'
           /\ refused \subseteq refused'
<1>1. tx[n] \in Seq(Message) /\ tx \in [Node -> Seq(Message)]
  BY DEF PlaceTypes
<1>2. CASE Len(tx[n]) < net.cap
  <2>1. tx' = [tx EXCEPT ![n] = Append(tx[n], w)] /\ refused' = refused
    BY <1>2 DEF Push
  <2>2. Elems(Append(tx[n], w)) = Elems(tx[n]) \cup {w}
    BY <1>1, ElemsAppend
  <2> QED BY <1>1, <2>1, <2>2
<1>3. CASE ~(Len(tx[n]) < net.cap)
  BY <1>3 DEF Push
<1> QED BY <1>2, <1>3

(* olsr_hello_timer_cb and olsr_tc_timer_cb: a TC starts with a number     *)
(* that no duplicate set knows.                                            *)
LEMMA OriginateReach ==
    ASSUME IInv, ReachInv, NEW n \in Node, NEW type \in MsgType, NEW ttl,
           type = "HELLO" => ttl = 1, Originate(n, type, ttl)
    PROVE  ReachInv'
<1>1. /\ issued' = [issued EXCEPT ![n][type] = issued[n][type] + 1]
      /\ Push(n, [orig |-> n, seq |-> msg_seq[n], ttl |-> ttl, type |-> type,
                  nr |-> issued'[n][type]])
      /\ IsUnused(n, type)
      /\ UNCHANGED <<network, sym, air, rx, dups, processed, relays>>
  BY DEF Originate
<1>2. Settled' = Settled /\ \A k : Adj(k)' = Adj(k)
  BY <1>1, NetworkStays
<1>3. SUFFICES ASSUME Settled
               PROVE  SenderInv' /\ NumberInv' /\ KnownInv' /\ FromInv' /\ CoverInv' /\ DeliveryInv'
  BY <1>2 DEF ReachInv
<1>4. SenderInv /\ NumberInv /\ KnownInv /\ FromInv /\ CoverInv /\ DeliveryInv
  BY <1>3 DEF ReachInv
<1>5. \A m \in Node : \A t \in MsgType :
         /\ issued[m][t] \in Nat
         /\ issued'[m][t] = IF m = n /\ t = type THEN issued[n][type] + 1 ELSE issued[m][t]
  <2>1. issued \in [Node -> [MsgType -> 0..net.limit]] /\ net.limit \in Nat
    BY DEF IInv, NodeTypes, PlaceTypes, Scenario
  <2>2. issued' = [issued EXCEPT ![n] = [issued[n] EXCEPT ![type] = issued[n][type] + 1]]
    BY <1>1
  <2> QED BY <2>1, <2>2
<1>6. PICK w : w = [orig |-> n, seq |-> msg_seq[n], ttl |-> ttl, type |-> type,
                    nr |-> issued[n][type] + 1]
  OBVIOUS
<1>7. Push(n, w)
  BY <1>1, <1>5, <1>6
<1>8. /\ \A m \in Node : Elems(tx[m]) \subseteq Elems(tx'[m])
      /\ \A m \in Node : \A c \in Elems(tx'[m]) : c \in Elems(tx[m]) \/ (m = n /\ c = w)
      /\ w \in Elems(tx'[n]) \/ Identity(w) \in refused'
      /\ refused \subseteq refused'
  BY <1>7, PushWaits DEF IInv
<1>9. Copies' \subseteq Copies \cup {w}
  <2>1. \A m \in Node : Elems(tx'[m]) \subseteq Elems(tx[m]) \cup {w}
    BY <1>8
  <2>2. \A m \in Node : Elems(rx'[m].msgs) \subseteq Elems(rx[m].msgs)
    BY <1>1
  <2> QED BY <1>1, <2>1, <2>2, CopiesGrow
<1>10. /\ Identity(w) = [orig |-> n, type |-> type, nr |-> issued[n][type] + 1]
       /\ Key(w) = [orig |-> n, seq |-> msg_seq[n]] /\ w.type = type /\ w.ttl = ttl
  BY <1>6 DEF Identity, Key
<1>11. /\ \A msg \in Copies : msg.type = type => Key(msg) # Key(w)
       /\ \A m \in Node : Key(w) \notin dup_tree[m] /\ Key(w) \notin retransmitted[m]
  BY <1>1, <1>10 DEF IsUnused, IInv, FloodInv, MarkInv
<1>12. \A m \in Node : Identity(w) \notin Elems(relays[m])
  <2>1. \A m \in Node : \A id \in Elems(relays[m]) : id.nr <= issued[id.orig][id.type]
    BY DEF IInv, FloodInv, IssuedInv
  <2>2. ~(issued[n][type] + 1 <= issued[n][type])
    BY <1>5
  <2> QED BY <1>10, <2>1, <2>2
<1>13. SenderInv'
  <2>1. \A k \in Node : \A msg \in Elems(tx'[k]) : Sends(k, Identity(msg))
    BY <1>4, <1>8, <1>10 DEF SenderInv, Sends
  <2> QED BY <1>1, <1>2, <1>4, <2>1 DEF SenderInv, Sends
<1>14. NumberInv'
  BY <1>4, <1>9, <1>10, <1>11 DEF NumberInv
<1>15. KnownInv'
  BY <1>1, <1>4, <1>9, <1>11 DEF KnownInv, dups
<1>16. FromInv' /\ CoverInv'
  BY <1>1, <1>2, <1>4, NetworkStays DEF FromInv, Sends
<1>17. ASSUME NEW id \in Issued', id # Identity(w) PROVE id \in Issued
  <2>1. /\ id \in IdentityType /\ id.type = "TC" /\ id.nr \in 1..issued'[id.orig]["TC"]
        /\ id \notin refused'
    BY DEF Issued
  <2>2. id.orig \in Node /\ id.nr \in Nat /\ "TC" \in MsgType
        /\ id = [orig |-> id.orig, type |-> id.type, nr |-> id.nr]
    BY <2>1 DEF IdentityType, MsgType
  <2>3. ~(id.orig = n /\ type = "TC" /\ id.nr = issued[n][type] + 1)
    BY <1>10, <1>17, <2>1, <2>2
  <2>4. id.nr \in 1..issued[id.orig]["TC"]
    BY <1>5, <2>1, <2>2, <2>3
  <2> QED BY <1>8, <2>1, <2>4 DEF Issued
<1>18. DeliveryInv'
  <2>1. SUFFICES ASSUME NEW id \in Issued', NEW k \in Node, NEW m \in Node,
                        Sends(k, id), m \in Adj(k), m # id.orig
                 PROVE  OnItsWay(id, k, m)'
    BY <1>1, <1>2 DEF DeliveryInv, Sends
  <2>2. CASE id = Identity(w)
    <3>1. k = n
      BY <1>10, <1>12, <2>1, <2>2 DEF Sends
    <3>2. id \notin refused'
      BY DEF Issued
    <3> QED BY <1>8, <2>2, <3>1, <3>2 DEF OnItsWay, Waits
  <2>3. CASE id # Identity(w)
    <3>1. OnItsWay(id, k, m)
      BY <1>4, <1>17, <2>1, <2>3 DEF DeliveryInv
    <3>2. Waits(id, tx[k]) => Waits(id, tx'[k])
      BY <1>8 DEF Waits
    <3> QED BY <1>1, <3>1, <3>2 DEF OnItsWay, Reached, network
  <2> QED BY <2>2, <2>3
<1> QED BY <1>13, <1>14, <1>15, <1>16, <1>18

(* What olsr_msg_forwarding changes for the message msg that src handed    *)
(* over: everything grows, by the copy w and by what belongs to msg.       *)
Forwarded(n, msg, src, w) ==
    /\ \A m \in Node : Elems(tx[m]) \subseteq Elems(tx'[m])
    /\ \A m \in Node : \A c \in Elems(tx'[m]) :
          c \in Elems(tx[m]) \/ (m = n /\ c = w /\ PassesOn(n, msg, src))
    /\ refused \subseteq refused'
    /\ \A m \in Node : Elems(relays[m]) \subseteq Elems(relays'[m])
    /\ \A m \in Node : \A id \in Elems(relays'[m]) :
          id \in Elems(relays[m]) \/ (m = n /\ id = Identity(msg) /\ PassesOn(n, msg, src))
    /\ PassesOn(n, msg, src) => /\ Identity(msg) \in Elems(relays'[n])
                                /\ w \in Elems(tx'[n]) \/ Identity(msg) \in refused'
    /\ \A m \in Node : \A key \in retransmitted'[m] :
          key \in retransmitted[m] \/ (m = n /\ key = Key(msg) /\ PassesOn(n, msg, src))
    /\ \A m \in Node : \A key \in dup_tree'[m] :
          key \in dup_tree[m] \/ (m = n /\ key = Key(msg) /\ msg.ttl > 1)

OneLess(msg) == [msg EXCEPT !.ttl = msg.ttl - 1]

(* So it is. *)
LEMMA ForwardFacts ==
    ASSUME IInv, NEW n \in Node, NEW msg \in Message, NEW src, Forward(n, msg, src),
           NEW w, w = OneLess(msg)
    PROVE  Forwarded(n, msg, src, w)
<1> USE DEF OneLess
<1>1. /\ dup_tree \in [Node -> SUBSET KeyType] /\ retransmitted \in [Node -> SUBSET KeyType]
      /\ relays \in [Node -> Seq(IdentityType)] /\ PlaceTypes
  BY DEF IInv, NodeTypes
<1>2. \A m \in Node : \A key \in dup_tree'[m] :
         key \in dup_tree[m] \/ (m = n /\ key = Key(msg) /\ msg.ttl > 1)
  BY <1>1 DEF Forward
<1>3. CASE PassesOn(n, msg, src)
  <2>1. /\ retransmitted' = [retransmitted EXCEPT ![n] = retransmitted[n] \cup {Key(msg)}]
        /\ relays' = [relays EXCEPT ![n] = Append(relays[n], Identity(msg))]
        /\ Push(n, w) /\ msg.ttl > 1
    BY <1>3 DEF Forward, PassesOn
  <2>2. Identity(w) = Identity(msg)
    BY <1>1, <2>1, HopLess
  <2>3. /\ \A m \in Node : Elems(tx[m]) \subseteq Elems(tx'[m])
        /\ \A m \in Node : \A c \in Elems(tx'[m]) : c \in Elems(tx[m]) \/ (m = n /\ c = w)
        /\ w \in Elems(tx'[n]) \/ Identity(w) \in refused'
        /\ refused \subseteq refused'
    <3>1. PlaceTypes /\ Push(n, w)
      BY <1>1, <2>1
    <3> QED BY <3>1, PushWaits
  <2>4. relays[n] \in Seq(IdentityType)
    BY <1>1
  <2>5. Elems(Append(relays[n], Identity(msg))) = Elems(relays[n]) \cup {Identity(msg)}
    BY <2>4, ElemsAppend
  <2>6. \A m \in Node : Elems(relays'[m]) = IF m = n THEN Elems(relays[m]) \cup {Identity(msg)}
                                            ELSE Elems(relays[m])
    BY <1>1, <2>1, <2>5
  <2>7. \A m \in Node : \A key \in retransmitted'[m] :
           key \in retransmitted[m] \/ (m = n /\ key = Key(msg))
    BY <1>1, <2>1
  <2>8. /\ \A m \in Node : Elems(relays[m]) \subseteq Elems(relays'[m])
        /\ \A m \in Node : \A id \in Elems(relays'[m]) :
              id \in Elems(relays[m]) \/ (m = n /\ id = Identity(msg))
        /\ Identity(msg) \in Elems(relays'[n])
    BY <2>6
  <2> QED BY <1>2, <1>3, <2>2, <2>3, <2>7, <2>8 DEF Forwarded
<1>4. CASE ~PassesOn(n, msg, src)
  <2>1. UNCHANGED <<retransmitted, tx, relays, refused>>
    BY <1>4 DEF Forward
  <2> QED BY <1>2, <1>4, <2>1 DEF Forwarded
<1> QED BY <1>3, <1>4

(* handle_olsr_msg: a TC that comes in is processed, now or before, and    *)
(* passed on, now or before, for a neighbour that selected this node.      *)
LEMMA HandleReach ==
    ASSUME IInv, ReachInv, NEW n \in Node, HandleMsg(n)
    PROVE  ReachInv'
<1>1. PICK msg, src, w : /\ msg = Head(rx[n].msgs) /\ src = rx[n].src
                         /\ w = OneLess(msg)
  OBVIOUS
<1>2. /\ rx[n].msgs # <<>> /\ UNCHANGED <<network, air, issued>>
      /\ rx' = [rx EXCEPT ![n].msgs = Tail(rx[n].msgs)]
      /\ IF msg.orig = n THEN UNCHANGED <<sym, processed, dups, tx, relays, refused>>
         ELSE Process(n, msg, src) /\ Forward(n, msg, src)
  BY <1>1 DEF HandleMsg, Free
<1>3. Settled' = Settled /\ \A k : Adj(k)' = Adj(k)
  BY <1>2, NetworkStays
<1>4. SUFFICES ASSUME Settled
               PROVE  SenderInv' /\ NumberInv' /\ KnownInv' /\ FromInv' /\ CoverInv' /\ DeliveryInv'
  BY <1>3 DEF ReachInv
<1>5. SenderInv /\ NumberInv /\ KnownInv /\ FromInv /\ CoverInv /\ DeliveryInv
  BY <1>4 DEF ReachInv
<1>6. rx[n].msgs \in Seq(Message) /\ src \in Node /\ msg \in Message
  BY <1>1, <1>2 DEF IInv, PlaceTypes
<1>7. Elems(rx[n].msgs) = {msg} \cup Elems(Tail(rx[n].msgs))
  BY <1>1, <1>2, <1>6, ElemsSplit
<1>8. \A m \in Node : /\ rx'[m].src = rx[m].src
                      /\ rx'[m].msgs = IF m = n THEN Tail(rx[n].msgs) ELSE rx[m].msgs
  BY <1>2 DEF IInv, PlaceTypes
<1>9. \A m \in Node : /\ Elems(rx'[m].msgs) \subseteq Elems(rx[m].msgs)
                      /\ \A c \in Elems(rx[m].msgs) : c \in Elems(rx'[m].msgs) \/ (m = n /\ c = msg)
  BY <1>7, <1>8
<1>10. msg \in Copies /\ n \in Adj(src) /\ Sends(src, Identity(msg))
  BY <1>1, <1>5, <1>7, CopyNow DEF CopyIn, SenderInv
<1>11. src \in Adj(n) /\ src \in sym[n]
  BY <1>4, <1>5, <1>6, <1>10, AdjSymmetric DEF Settled, SenderInv
<1>12. CoverInv'
  BY <1>2, <1>5, NetworkStays
<1>13. Identity(msg).orig = msg.orig /\ Identity(msg).type = msg.type
  BY DEF Identity
<1>14. CASE msg.orig = n
  <2>1. UNCHANGED <<sym, processed, dups, tx, relays, refused>>
    BY <1>2, <1>14
  <2>2. \A m \in Node : Elems(tx'[m]) \subseteq Elems(tx[m]) \cup {}
    BY <2>1
  <2>3. Copies' \subseteq Copies
    BY <1>2, <1>9, <2>2, CopiesGrow
  <2>4. NumberInv' /\ KnownInv' /\ FromInv'
    BY <1>2, <1>5, <2>1, <2>3, QuietKnown DEF dups
  <2>5. SenderInv'
    BY <1>2, <1>3, <1>5, <1>8, <1>9, <2>1 DEF SenderInv, Sends
  <2>6. DeliveryInv'
    <3>1. SUFFICES ASSUME NEW id \in Issued, NEW k \in Node, NEW m \in Node,
                          Sends(k, id), m \in Adj(k), m # id.orig
                   PROVE  OnItsWay(id, k, m)'
      BY <1>2, <1>3, <2>1, IssuedStays DEF DeliveryInv, Sends
    <3>2. OnItsWay(id, k, m)
      BY <1>5, <3>1 DEF DeliveryInv
    <3>3. Waits(id, rx[m].msgs) => Waits(id, rx'[m].msgs)
      BY <1>9, <1>13, <1>14, <3>1 DEF Waits
    <3> QED BY <1>2, <1>8, <2>1, <3>2, <3>3 DEF OnItsWay, Reached, network
  <2> QED BY <1>12, <2>4, <2>5, <2>6
<1>15. CASE msg.orig # n
  <2>1. Process(n, msg, src) /\ Forward(n, msg, src)
    BY <1>2, <1>15
  <2>2. Forwarded(n, msg, src, w)
    BY <1>1, <1>6, <2>1, ForwardFacts
  <2>3. PassesOn(n, msg, src) => Key(w) = Key(msg) /\ Identity(w) = Identity(msg)
    BY <1>1, <1>6, HopLess DEF IInv, PassesOn, OneLess
  <2>4. msg.ttl > 1 => msg.type = "TC"
    <3>1. msg.type \in MsgType /\ msg.ttl \in 1..TcTtl
      BY <1>6, MessageFacts DEF IInv
    <3> QED BY <1>5, <1>10, <3>1 DEF NumberInv, MsgType
  <2>5. \A c \in Copies' : \E c0 \in Copies :
           /\ Identity(c) = Identity(c0) /\ Key(c) = Key(c0) /\ c.type = c0.type
           /\ c = c0 \/ c.type = "TC"
    <3>1. CASE PassesOn(n, msg, src)
      <4>1. \A m \in Node : Elems(tx'[m]) \subseteq Elems(tx[m]) \cup {w}
        BY <2>2 DEF Forwarded
      <4>2. Copies' \subseteq Copies \cup {w}
        BY <1>2, <1>9, <4>1, CopiesGrow
      <4>3. w.type = msg.type /\ msg.type = "TC"
        BY <2>3, <2>4, <3>1, SameIdentity DEF PassesOn
      <4> QED BY <1>10, <2>3, <3>1, <4>2, <4>3
    <3>2. CASE ~PassesOn(n, msg, src)
      <4>1. \A m \in Node : Elems(tx'[m]) \subseteq Elems(tx[m]) \cup {}
        BY <2>2, <3>2 DEF Forwarded
      <4>2. Copies' \subseteq Copies \cup {}
        BY <1>2, <1>9, <4>1, CopiesGrow
      <4> QED BY <4>2
    <3> QED BY <3>1, <3>2
  <2>6. /\ sym' = sym
        /\ \A m \in Node : processed[m] \subseteq processed'[m]
        /\ \A m \in Node : \A id \in processed'[m] :
              id \in processed[m] \/ (m = n /\ id = Identity(msg))
        /\ msg.type = "TC" => Identity(msg) \in processed'[n]
    <3>1. sym \in [Node -> SUBSET Node] /\ processed \in [Node -> SUBSET IdentityType]
      BY DEF IInv, NodeTypes
    <3>2. CASE AlreadyProcessed(n, msg)
      <4>1. UNCHANGED <<sym, processed>>
        BY <2>1, <3>2 DEF Process
      <4>2. msg.type = "TC" => Identity(msg) \in processed[n]
        BY <1>5, <1>10, <1>15, <3>2 DEF KnownInv, AlreadyProcessed
      <4> QED BY <4>1, <4>2
    <3>3. CASE ~AlreadyProcessed(n, msg)
      <4>1. sym' = sym
        <5>1. [sym EXCEPT ![n] = sym[n] \cup {src}] = sym
          <6>1. sym[n] \cup {src} = sym[n]
            BY <1>11
          <6> QED BY <3>1, <6>1
        <5> QED BY <2>1, <3>3, <5>1 DEF Process
      <4>2. processed' = [processed EXCEPT ![n] = processed[n] \cup {Identity(msg)}]
        BY <1>11, <2>1, <3>3 DEF Process
      <4> QED BY <3>1, <4>1, <4>2
    <3> QED BY <3>2, <3>3
  <2>7. msg.type = "TC" /\ src \in selector_tree[n] => Identity(msg) \in Elems(relays'[n])
    <3>1. SUFFICES ASSUME msg.type = "TC", src \in selector_tree[n]
                   PROVE  Identity(msg) \in Elems(relays'[n])
      OBVIOUS
    <3>2. CASE Key(msg) \in retransmitted[n]
      BY <1>5, <1>10, <2>2, <3>1, <3>2 DEF KnownInv, Forwarded
    <3>3. CASE Key(msg) \notin retransmitted[n]
      <4>1. msg.ttl > 1
        BY <1>10, <1>15, <3>1, <3>3, HopsLeft
      <4> QED BY <2>2, <3>1, <3>3, <4>1 DEF PassesOn, Forwarded
    <3> QED BY <3>2, <3>3
  <2>8. SenderInv'
    <3>1. \A k \in Node : \A id : Sends(k, id) => k = id.orig \/ id \in Elems(relays'[k])
      BY <2>2 DEF Sends, Forwarded
    <3>2. \A k \in Node : \A c \in Elems(tx'[k]) :
             k = Identity(c).orig \/ Identity(c) \in Elems(relays'[k])
      BY <1>5, <2>2, <2>3, <3>1 DEF SenderInv, Forwarded
    <3>3. \A k, m \in Node : \A pkt \in Elems(air[k][m]) : m \in Adj(k) /\
             \A c \in Elems(pkt) : k = Identity(c).orig \/ Identity(c) \in Elems(relays'[k])
      BY <1>5, <3>1 DEF SenderInv
    <3>4. \A m \in Node : \A c \in Elems(rx'[m].msgs) :
             /\ m \in Adj(rx[m].src)
             /\ rx[m].src = Identity(c).orig \/ Identity(c) \in Elems(relays'[rx[m].src])
      <4>1. \A m \in Node : rx[m].msgs # <<>> => rx[m].src \in Node
        BY DEF IInv, PlaceTypes
      <4>2. \A m \in Node : \A c \in Elems(rx[m].msgs) : rx[m].src \in Node
        BY <4>1, ElemsEmpty
      <4> QED BY <1>5, <1>9, <3>1, <4>2 DEF SenderInv
    <3> QED BY <1>2, <1>3, <1>5, <1>8, <2>6, <3>2, <3>3, <3>4 DEF SenderInv, Sends
  <2>9. NumberInv'
    <3>1. ASSUME NEW c \in Copies', c.type = "HELLO" PROVE c.ttl = 1
      BY <1>5, <2>5, <3>1 DEF NumberInv
    <3>2. ASSUME NEW c \in Copies', NEW d \in Copies', c.type = "TC", d.type = "TC",
                 Key(c) = Key(d)
          PROVE  Identity(c) = Identity(d)
      BY <1>5, <2>5, <3>2 DEF NumberInv
    <3> QED BY <3>1, <3>2 DEF NumberInv
  <2>10. KnownInv'
    <3>1. ASSUME NEW m \in Node, NEW c \in Copies', c.type = "TC"
          PROVE  /\ Key(c) \in dup_tree'[m] /\ c.orig # m => Identity(c) \in processed'[m]
                 /\ Key(c) \in retransmitted'[m] => Identity(c) \in Elems(relays'[m])
      <4>1. PICK c0 \in Copies : Identity(c) = Identity(c0) /\ Key(c) = Key(c0) /\ c0.type = "TC"
        BY <2>5, <3>1
      <4>2. c0.orig = c.orig
        BY <4>1, SameIdentity
      <4>3. Key(c0) = Key(msg) /\ msg.ttl > 1 => Identity(c0) = Identity(msg)
        BY <1>5, <1>10, <2>4, <4>1 DEF NumberInv
      <4>4. ASSUME Key(c) \in dup_tree'[m], c.orig # m PROVE Identity(c) \in processed'[m]
        <5>1. CASE Key(c0) \in dup_tree[m]
          BY <1>5, <2>6, <4>1, <4>2, <4>4, <5>1 DEF KnownInv
        <5>2. CASE m = n /\ Key(c0) = Key(msg) /\ msg.ttl > 1
          BY <2>4, <2>6, <4>1, <4>3, <5>2
        <5> QED BY <2>2, <4>1, <4>4, <5>1, <5>2 DEF Forwarded
      <4>5. ASSUME Key(c) \in retransmitted'[m] PROVE Identity(c) \in Elems(relays'[m])
        <5>1. CASE Key(c0) \in retransmitted[m]
          BY <1>5, <2>2, <4>1, <5>1 DEF KnownInv, Forwarded
        <5>2. CASE m = n /\ Key(c0) = Key(msg) /\ PassesOn(n, msg, src)
          BY <2>2, <4>1, <4>3, <5>2 DEF PassesOn, Forwarded
        <5> QED BY <2>2, <4>1, <4>5, <5>1, <5>2 DEF Forwarded
      <4> QED BY <4>4, <4>5
    <3> QED BY <3>1 DEF KnownInv
  <2>11. FromInv'
    <3>1. ASSUME NEW m \in Node, NEW id \in processed'[m], id.type = "TC"
          PROVE  \E s \in Adj(m) : s = id.orig \/ id \in Elems(relays'[s])
      <4>1. PICK s \in Adj(m) : Sends(s, id)
        BY <1>5, <1>10, <1>11, <2>6, <3>1 DEF FromInv
      <4>2. s \in Node
        BY <4>1 DEF Adj
      <4> QED BY <2>2, <4>1, <4>2 DEF Sends, Forwarded
    <3>2. ASSUME NEW m \in Node, NEW id \in Elems(relays'[m]) PROVE id \in processed'[m]
      BY <1>5, <2>2, <2>4, <2>6 DEF FromInv, PassesOn, Forwarded
    <3> QED BY <1>3, <3>1, <3>2 DEF FromInv, Sends
  <2>12. DeliveryInv'
    <3>1. SUFFICES ASSUME NEW id \in Issued', NEW k \in Node, NEW m \in Node,
                          k = id.orig \/ id \in Elems(relays'[k]), m \in Adj(k), m # id.orig
                   PROVE  OnItsWay(id, k, m)'
      BY <1>3 DEF DeliveryInv, Sends
    <3>2. id \in Issued /\ id \notin refused' /\ id.type = "TC"
      BY <1>2, <2>2 DEF Issued, Forwarded
    <3>3. CASE Sends(k, id)
      <4>1. OnItsWay(id, k, m)
        BY <1>5, <3>1, <3>2, <3>3 DEF DeliveryInv
      <4>2. CASE Waits(id, tx[k])
        BY <2>2, <4>2 DEF OnItsWay, Waits, Forwarded
      <4>3. CASE \E pkt \in Elems(air[k][m]) : Waits(id, pkt)
        BY <1>2, <4>3 DEF OnItsWay
      <4>4. CASE rx[m].src = k /\ Waits(id, rx[m].msgs)
        <5>1. PICK c \in Elems(rx[m].msgs) : Identity(c) = id
          BY <4>4 DEF Waits
        <5>2. CASE c \in Elems(rx'[m].msgs)
          BY <1>8, <4>4, <5>1, <5>2 DEF OnItsWay, Waits
        <5>3. CASE m = n /\ c = msg
          <6>1. id = Identity(msg) /\ k = src /\ msg.type = "TC"
            BY <1>1, <1>13, <3>2, <4>4, <5>1, <5>3
          <6>2. id \in processed'[m] /\ (k \in selector_tree[m] => id \in Elems(relays'[m]))
            BY <2>6, <2>7, <5>3, <6>1
          <6> QED BY <1>2, <6>2 DEF OnItsWay, Reached, network
        <5> QED BY <1>9, <5>1, <5>2, <5>3
      <4>5. CASE Reached(id, k, m)
        <5>1. id \in processed'[m] /\ (k \in selector_tree[m] => id \in Elems(relays'[m]))
          BY <2>2, <2>6, <4>5 DEF Reached, Forwarded
        <5> QED BY <1>2, <5>1 DEF OnItsWay, Reached, network
      <4> QED BY <4>1, <4>2, <4>3, <4>4, <4>5 DEF OnItsWay
    <3>4. CASE ~Sends(k, id)
      <4>1. k = n /\ id = Identity(msg) /\ PassesOn(n, msg, src)
        BY <2>2, <3>1, <3>4 DEF Sends, Forwarded
      <4>2. w \in Elems(tx'[k]) /\ Identity(w) = id
        BY <2>2, <2>3, <3>2, <4>1 DEF Forwarded
      <4> QED BY <4>2 DEF OnItsWay, Waits
    <3> QED BY <3>3, <3>4
  <2> QED BY <1>12, <2>8, <2>9, <2>10, <2>11, <2>12
<1> QED BY <1>14, <1>15

(* Every step of a settled network keeps TCs on their way. *)
LEMMA NextReach == ASSUME IInv, ReachInv, [Next]_vars PROVE ReachInv'
<1>1. CASE \E n \in Node : HelloTimer(n)
  BY <1>1, OriginateReach DEF HelloTimer, MsgType
<1>2. CASE \E n \in Node : TcTimer(n)
  BY <1>2, OriginateReach DEF TcTimer, MsgType
<1>3. CASE \E n \in Node : SendFromQueue(n)
  BY <1>3, SendReach
<1>4. CASE \E n, p \in Node : RecvPkt(n, p)
  BY <1>4, RecvReach
<1>5. CASE \E n \in Node : HandleMsg(n)
  BY <1>5, HandleReach
<1>6. CASE \/ \E n \in Node : \E key \in dup_tree[n] : DupExpire(n, key)
           \/ \E n, p \in Node : LinkExpire(n, p)
           \/ UNCHANGED vars
  BY <1>6, TimeReach
<1> QED BY <1>1, <1>2, <1>3, <1>4, <1>5, <1>6 DEF Next

(* When nothing is under way, the nodes that have a TC have no neighbour   *)
(* without it.  A node that passed it on, or made it, has handed it to all *)
(* its neighbours.  One that has not took it from such a node s; its other *)
(* neighbours are next to s, or behind a node that s has selected.         *)
LEMMA NoneWithout ==
    ASSUME ReachInv, Settled, Copies = {}, NEW id \in Issued, id.orig \in Node,
           NEW n \in Node, n = id.orig \/ id \in processed[n], NEW m \in Adj(n), m # id.orig
    PROVE  id \in processed[m]
<1>1. CoverInv /\ FromInv /\ DeliveryInv
  BY DEF ReachInv
<1>2. ASSUME NEW k \in Node, NEW p \in Adj(k), Sends(k, id), p # id.orig
      PROVE  Reached(id, k, p)
  <2>1. p \in Node
    BY DEF Adj
  <2>2. OnItsWay(id, k, p)
    BY <1>1, <1>2, <2>1 DEF DeliveryInv
  <2>3. ~Waits(id, tx[k]) /\ ~Waits(id, rx[p].msgs)
    BY <2>1, CopyNow DEF Waits, CopyIn
  <2>4. \A pkt \in Elems(air[k][p]) : ~Waits(id, pkt)
    BY <2>1, CopyNow DEF Waits, CopyIn
  <2> QED BY <2>2, <2>3, <2>4 DEF OnItsWay
<1>3. CASE Sends(n, id)
  BY <1>2, <1>3 DEF Reached
<1>4. CASE ~Sends(n, id)
  <2>1. id \in processed[n] /\ id.type = "TC"
    BY <1>4 DEF Sends, Issued
  <2>2. PICK s \in Adj(n) : Sends(s, id)
    BY <1>1, <2>1 DEF FromInv
  <2>3. s \in Node /\ n \in Adj(s)
    <3>1. s \in Node
      BY <2>2 DEF Adj
    <3> QED BY <2>2, <3>1, AdjSymmetric DEF Settled
  <2>4. CASE m = s
    BY <1>1, <2>2, <2>3, <2>4 DEF Sends, FromInv
  <2>5. CASE m \in Adj(s)
    BY <1>2, <2>2, <2>3, <2>5 DEF Reached
  <2>6. CASE m # s /\ m \notin Adj(s)
    <3>1. PICK q \in Adj(s) : s \in selector_tree[q] /\ m \in Adj(q)
      BY <1>1, <2>3, <2>6 DEF CoverInv
    <3>2. q \in Node
      BY <3>1 DEF Adj
    <3>3. Sends(q, id)
      <4>1. CASE q = id.orig
        BY <4>1 DEF Sends
      <4>2. CASE q # id.orig
        BY <1>2, <2>2, <2>3, <3>1, <4>2 DEF Reached, Sends
      <4> QED BY <4>1, <4>2
    <3> QED BY <1>2, <3>1, <3>2, <3>3 DEF Reached
  <2> QED BY <2>4, <2>5, <2>6
<1> QED BY <1>3, <1>4

(* MPR flooding reaches every node of a connected network, whatever its    *)
(* graph and whichever nodes are selected as relays, however packets and   *)
(* handlers interleave, and whatever HELLOs share packets with a TC: only  *)
(* one that RingBuffer_push itself refused may be missing somewhere.       *)
THEOREM TcsReachAll == Spec => []TcReachesAll
<1>1. ASSUME IInv, ReachInv PROVE TcReachesAll
  <2>1. SUFFICES ASSUME ~net.loss, ~net.churn, Copies = {}, IsSymmetric, IsOnePiece,
                        NEW o \in Node, NEW k \in 1..issued[o]["TC"],
                        NEW tc, tc = [orig |-> o, type |-> "TC", nr |-> k],
                        tc \notin refused
                 PROVE  \A n \in Node \ {o} : tc \in processed[n]
    BY DEF TcReachesAll
  <2>2. tc \in Issued /\ tc.orig = o
    <3>1. issued \in [Node -> [MsgType -> 0..net.limit]] /\ net.limit \in Nat
      BY <1>1 DEF IInv, NodeTypes, PlaceTypes, Scenario
    <3>2. issued[o]["TC"] \in Nat
      BY <3>1 DEF MsgType
    <3> QED BY <2>1, <3>2 DEF Issued, IdentityType, MsgType
  <2>3. PICK part : part = {o} \cup {n \in Node : tc \in processed[n]}
    OBVIOUS
  <2>4. ASSUME NEW n \in part, NEW m \in Adj(n) PROVE m \in part
    <3>1. n \in Node /\ m \in Node /\ (n = tc.orig \/ tc \in processed[n])
      BY <2>2, <2>3 DEF Adj
    <3>2. m # tc.orig => tc \in processed[m]
      BY <1>1, <2>1, <2>2, <3>1, NoneWithout DEF Settled
    <3> QED BY <2>2, <2>3, <3>1, <3>2
  <2>5. part = Node
    <3>1. part \in SUBSET Node /\ part # {}
      BY <2>3
    <3> QED BY <2>1, <2>4, <3>1 DEF IsOnePiece
  <2> QED BY <2>3, <2>5
<1>2. IInv /\ ReachInv /\ [Next]_vars => (IInv /\ ReachInv)'
  BY NextInv, NextReach
<1> QED BY <1>1, <1>2, InitInv, InitReach, PTL DEF Spec
-----------------------------------------------------------------------------
(* The topology set. *)

Ansn == 0..(AnsnMod - 1)
Tc == [ansn : Ansn, neigh : SUBSET Addr, age : 0..MaxDelay]

(* How far the originator's ansn is beyond the value x, going round. *)
Steps(x) == IF x <= ansn THEN ansn - x ELSE ansn + AnsnMod - x

(* Since a TC was built, ansn has moved by one for it and for each newer   *)
(* one, and by MaxBumps more in each interval at most.                     *)
Since(age, x) ==
    age + 1 <= Steps(x) /\ Steps(x) <= (MaxBumps + 1) * age + 1 + bumped

(* What is known is not older than its timer says. *)
KnownAge ==
    known => /\ last + expire_timer <= MaxDelay + VTime
             /\ Since(last, seq)

UnderWayAges ==
    /\ \A msg \in under_way : Since(msg.age, msg.ansn)
    /\ \A m1, m2 \in under_way : m1.age = m2.age => m1 = m2
    /\ \A m1, m2 \in under_way : m1.age < m2.age => Steps(m1.ansn) < Steps(m2.ansn)

(* Older TCs have older sequence numbers, those under way and the one      *)
(* accepted last, which is under way no longer.                            *)
AgeOrder ==
    known => \A msg \in under_way :
       /\ msg.age # last
       /\ msg.age < last => Steps(msg.ansn) < Steps(seq)
       /\ msg.age > last => Steps(msg.ansn) > Steps(seq)

AgeInv == TopologyTypes /\ under_way \subseteq Tc /\ KnownAge /\ UnderWayAges /\ AgeOrder
-----------------------------------------------------------------------------
(* Products of naturals grow with their factors. *)
LEMMA Product ==
    ASSUME NEW k \in Nat \ {0}, NEW a \in Nat, NEW b \in Nat, a <= b
    PROVE  k * a \in Nat /\ k * (a + 1) = k * a + k /\ k * a <= k * b
<1>1. k * a \in Nat /\ k * (b - a) \in Nat /\ k * b \in Nat /\ b - a \in Nat
  OBVIOUS
<1>2. k * (a + 1) = k * a + k
  OBVIOUS
<1>3. k * b = k * a + k * (b - a)
  OBVIOUS
<1> QED BY <1>1, <1>2, <1>3

(* Within its time no TC sees ansn come round. *)
LEMMA NoWrap ==
    ASSUME NEW age \in Nat, age <= MaxDelay + VTime, bumped \in 0..MaxBumps,
           NEW x \in Ansn, ansn \in Ansn, Since(age, x)
    PROVE  /\ Steps(x) \in Nat /\ Steps(x) < AnsnMod
           /\ bumped < MaxBumps => Steps(x) + 1 < AnsnMod
           /\ age < MaxDelay + VTime => Steps(x) + 1 < AnsnMod
<1> DEFINE k == MaxBumps + 1
           limit == MaxDelay + VTime
<1>1. /\ k \in Nat \ {0} /\ limit \in Nat /\ AnsnMod \in Nat /\ MaxBumps \in Nat
      /\ k * (limit + 1) < AnsnMod
  BY TopologyAssumption, WrapAssumption
<1>2. Steps(x) \in Nat /\ Steps(x) <= k * age + 1 + bumped
  BY <1>1 DEF Since, Steps, Ansn
<1> HIDE DEF k, limit
<1>3. /\ k * age \in Nat /\ k * (age + 1) = k * age + k /\ k * (age + 1) <= k * (limit + 1)
  <2>1. age + 1 <= limit + 1 /\ age <= limit
    BY <1>1 DEF limit
  <2>2. k * (age + 1) <= k * (limit + 1)
    BY <1>1, <2>1, Product
  <2> QED BY <1>1, <2>1, <2>2, Product
<1>4. k * (age + 1) < AnsnMod /\ k * (limit + 1) \in Nat
  BY <1>1, <1>3
<1>5. Steps(x) <= k * (age + 1)
  BY <1>1, <1>2, <1>3 DEF k
<1>6. ASSUME bumped < MaxBumps PROVE Steps(x) + 1 <= k * (age + 1)
  BY <1>1, <1>2, <1>3, <1>6 DEF k
<1>7. ASSUME age < limit PROVE Steps(x) + 1 < AnsnMod
  <2>1. (age + 1) + 1 <= limit + 1 /\ age + 1 \in Nat
    BY <1>1, <1>7
  <2>2. k * ((age + 1) + 1) = k * (age + 1) + k /\ k * ((age + 1) + 1) <= k * (limit + 1)
    BY <1>1, <2>1, Product
  <2> QED BY <1>1, <1>2, <1>3, <1>4, <1>5, <2>2
<1> QED BY <1>1, <1>2, <1>3, <1>4, <1>5, <1>6, <1>7 DEF limit

(* When ansn moves on it is one more step beyond every value that it does  *)
(* not come round to.                                                      *)
LEMMA Moved ==
    ASSUME ansn \in Ansn, ansn' = (ansn + 1) % AnsnMod
    PROVE  /\ ansn' \in Ansn
           /\ \A x \in Ansn : Steps(x) + 1 < AnsnMod => Steps(x)' = Steps(x) + 1
           /\ \A x \in Ansn : x = ansn => Steps(x)' = 1
<1>1. AnsnMod \in Nat /\ AnsnMod > 1
  <2>1. MaxBumps + 1 \in Nat \ {0} /\ MaxDelay + VTime + 1 \in Nat /\ MaxDelay + VTime + 1 > 1
    BY TopologyAssumption
  <2>2. ASSUME NEW k \in Nat \ {0}, NEW l \in Nat PROVE k * l \in Nat /\ k * l >= l
    <3>1. k * l = l + (k - 1) * l /\ (k - 1) * l \in Nat /\ k * l \in Nat
      OBVIOUS
    <3> QED BY <3>1
  <2> QED BY <2>1, <2>2, TopologyAssumption, WrapAssumption
<1>2. ansn' = IF ansn + 1 = AnsnMod THEN 0 ELSE ansn + 1
  BY <1>1 DEF Ansn
<1>3. ansn' \in Ansn
  BY <1>1, <1>2 DEF Ansn
<1>4. ASSUME NEW x \in Ansn, Steps(x) + 1 < AnsnMod PROVE Steps(x)' = Steps(x) + 1
  BY <1>1, <1>2, <1>4 DEF Steps, Ansn
<1>5. ASSUME NEW x \in Ansn, x = ansn PROVE Steps(x)' = 1
  BY <1>1, <1>2, <1>5 DEF Steps, Ansn
<1> QED BY <1>3, <1>4, <1>5

(* The tree after a TC has addresses only. *)
LEMMA TreeTyped ==
    ASSUME NEW old \in SUBSET Addr, NEW new \in SUBSET Addr
    PROVE  TreeAfter(old, new) \subseteq Addr
BY DEF TreeAfter, AfterFirst

(* populate_mpr_set has moved ansn on. *)
LEMMA MprChangeKeepsInv ==
    ASSUME AgeInv, MprChange
    PROVE  AgeInv'
<1>1. /\ bumped \in 0..MaxBumps /\ bumped < MaxBumps /\ bumped' = bumped + 1
      /\ ansn \in Ansn /\ ansn' = (ansn + 1) % AnsnMod /\ seq \in Ansn
      /\ UNCHANGED <<under_way, known, seq, expire_timer, last>>
      /\ MaxDelay \in Nat /\ VTime \in Nat /\ MaxBumps \in Nat
  BY TopologyAssumption DEF AgeInv, TopologyTypes, MprChange, receiver, Ansn
<1>2. ansn' \in Ansn /\ bumped' \in 0..MaxBumps
  BY <1>1, Moved
<1>3. TopologyTypes' /\ (under_way \subseteq Tc)'
  BY <1>1, <1>2 DEF AgeInv, TopologyTypes, MprChange, receiver, Ansn
<1>4. ASSUME NEW age \in Nat, age <= MaxDelay + VTime, NEW x \in Ansn, Since(age, x)
      PROVE  Since(age, x)' /\ Steps(x)' = Steps(x) + 1 /\ Steps(x) \in Nat
  <2>1. Steps(x) + 1 < AnsnMod /\ Steps(x) \in Nat
    BY <1>1, <1>4, NoWrap
  <2>2. Steps(x)' = Steps(x) + 1
    BY <1>1, <2>1, Moved
  <2>3. (MaxBumps + 1) * age \in Nat
    BY <1>1
  <2> QED BY <1>1, <1>4, <2>1, <2>2, <2>3 DEF Since
<1>5. ASSUME NEW msg \in under_way
      PROVE  /\ msg.age \in Nat /\ msg.age <= MaxDelay + VTime /\ msg.ansn \in Ansn
             /\ Since(msg.age, msg.ansn)
  BY <1>1 DEF AgeInv, Tc, UnderWayAges
<1>6. ASSUME known PROVE last \in Nat /\ last <= MaxDelay + VTime /\ Since(last, seq)
  BY <1>1, <1>6 DEF AgeInv, KnownAge, TopologyTypes
<1>7. KnownAge'
  BY <1>1, <1>4, <1>6 DEF AgeInv, KnownAge
<1>8. UnderWayAges'
  BY <1>1, <1>4, <1>5 DEF AgeInv, UnderWayAges
<1>9. AgeOrder'
  BY <1>1, <1>4, <1>5, <1>6 DEF AgeInv, AgeOrder
<1> QED BY <1>3, <1>7, <1>8, <1>9 DEF AgeInv

(* A TC has been built: all others are one interval older. *)
LEMMA BuildTcKeepsInv ==
    ASSUME AgeInv, BuildTc
    PROVE  AgeInv'
<1> DEFINE older(msg) == [msg EXCEPT !.age = Older(@)]
           new == [ansn |-> ansn, neigh |-> selectors, age |-> 0]
<1>1. /\ bumped \in 0..MaxBumps /\ bumped' = 0 /\ ansn \in Ansn /\ seq \in Ansn
      /\ ansn' = (ansn + 1) % AnsnMod
      /\ under_way' = {older(msg) : msg \in under_way} \cup {new}
      /\ known \in BOOLEAN /\ known' = known /\ seq' = seq /\ an_tree' = an_tree
      /\ selectors' = selectors /\ calm' = calm
      /\ expire_timer' = IF known THEN expire_timer - 1 ELSE 0
      /\ known => expire_timer > 0
      /\ last' = Older(last) /\ last \in 0..MaxAge /\ expire_timer \in 0..VTime
      /\ \A msg \in under_way : msg.age < MaxDelay
  BY DEF AgeInv, TopologyTypes, BuildTc, Ansn
<1>2. /\ MaxDelay \in Nat /\ VTime \in Nat \ {0} /\ MaxBumps \in Nat
      /\ MaxAge = MaxDelay + VTime + 2 /\ MaxAge \in Nat
  BY TopologyAssumption DEF MaxAge
<1>3. ansn' \in Ansn /\ \A x \in Ansn : x = ansn => Steps(x)' = 1
  BY <1>1, Moved
<1>4. ASSUME NEW age \in Nat, age < MaxDelay + VTime, NEW x \in Ansn, Since(age, x)
      PROVE  Since(age + 1, x)' /\ Steps(x)' = Steps(x) + 1 /\ Steps(x) \in Nat /\ Steps(x) > 0
  <2>1. Steps(x) + 1 < AnsnMod /\ Steps(x) \in Nat
    BY <1>1, <1>2, <1>4, NoWrap
  <2>2. Steps(x)' = Steps(x) + 1
    BY <1>1, <2>1, Moved
  <2>3. /\ (MaxBumps + 1) * age \in Nat
        /\ (MaxBumps + 1) * (age + 1) = (MaxBumps + 1) * age + (MaxBumps + 1)
    BY <1>2, Product
  <2> QED BY <1>1, <1>2, <1>4, <2>1, <2>2, <2>3 DEF Since
<1>5. ASSUME NEW msg \in under_way
      PROVE  /\ msg \in Tc /\ msg.age \in Nat /\ msg.age < MaxDelay + VTime /\ msg.ansn \in Ansn
             /\ Since(msg.age, msg.ansn)
             /\ older(msg) = [ansn |-> msg.ansn, neigh |-> msg.neigh, age |-> msg.age + 1]
             /\ older(msg) \in Tc
  <2>1. msg \in Tc /\ Since(msg.age, msg.ansn) /\ msg.age < MaxDelay
    BY <1>1 DEF AgeInv, UnderWayAges
  <2>2. msg.age \in 0..MaxDelay /\ msg.ansn \in Ansn /\ msg.neigh \in SUBSET Addr
    BY <2>1 DEF Tc
  <2>3. Older(msg.age) = msg.age + 1 /\ msg.age + 1 \in 0..MaxDelay
    BY <1>2, <2>1, <2>2 DEF Older
  <2>4. older(msg) = [ansn |-> msg.ansn, neigh |-> msg.neigh, age |-> msg.age + 1]
    BY <2>1, <2>3 DEF Tc
  <2> QED BY <1>2, <2>1, <2>2, <2>3, <2>4 DEF Tc
<1>6. new \in Tc /\ new.ansn = ansn /\ new.age = 0
  BY <1>1, <1>2 DEF Tc, AgeInv, TopologyTypes
<1> HIDE DEF older, new
<1>7. \A msg \in under_way' : msg = new \/ \E m \in under_way : msg = older(m)
  BY <1>1
<1>8. ASSUME NEW m \in under_way
      PROVE  /\ older(m).age = m.age + 1 /\ older(m).ansn = m.ansn /\ m.age \in Nat
             /\ Since(m.age + 1, m.ansn)' /\ Steps(m.ansn)' = Steps(m.ansn) + 1
             /\ Steps(m.ansn) \in Nat /\ Steps(m.ansn) > 0
  BY <1>4, <1>5
<1>9. ASSUME known
      PROVE  /\ last' = last + 1 /\ last \in Nat /\ expire_timer' = expire_timer - 1
             /\ last' + expire_timer' <= MaxDelay + VTime
             /\ Since(last, seq)' /\ Steps(seq)' = Steps(seq) + 1 /\ Steps(seq) \in Nat
             /\ Steps(seq) > 0
  <2>1. last + expire_timer <= MaxDelay + VTime /\ Since(last, seq) /\ expire_timer > 0
    BY <1>1, <1>9 DEF AgeInv, KnownAge
  <2>2. last \in Nat /\ last < MaxDelay + VTime /\ last < MaxAge
    BY <1>1, <1>2, <2>1
  <2>3. last' = last + 1
    BY <1>1, <2>2 DEF Older
  <2>4. last' + expire_timer' <= MaxDelay + VTime /\ expire_timer' = expire_timer - 1
    BY <1>1, <1>2, <1>9, <2>1, <2>3
  <2>5. ASSUME NEW age, age = last, NEW x, x = seq
        PROVE  /\ Since(age + 1, x)' /\ Steps(x)' = Steps(x) + 1
               /\ Steps(x) \in Nat /\ Steps(x) > 0
    BY <1>1, <1>4, <2>1, <2>2, <2>5
  <2>6. Since(last, seq)' /\ Steps(seq)' = Steps(seq) + 1
    <3> DEFINE age == last
               x == seq
    <3>1. last' = age + 1 /\ seq' = x
      BY <1>1, <2>3
    <3> QED BY <1>1, <2>3, <2>5, <3>1 DEF Since, Steps
  <2> QED BY <2>2, <2>3, <2>4, <2>5, <2>6
<1>10. under_way' \subseteq Tc
  BY <1>5, <1>6, <1>7
<1>11. TopologyTypes'
  <2>1. last' \in 0..MaxAge /\ expire_timer' \in 0..VTime /\ bumped' \in 0..MaxBumps
    BY <1>1, <1>2 DEF Older
  <2>2. \A msg \in under_way' : msg.neigh \subseteq Addr /\ msg.age \in 0..MaxDelay
    BY <1>10 DEF Tc
  <2>3. ansn' \in 0..(AnsnMod - 1)
    BY <1>3 DEF Ansn
  <2> QED BY <1>1, <2>1, <2>2, <2>3 DEF AgeInv, TopologyTypes
<1>12. KnownAge'
  BY <1>1, <1>9 DEF KnownAge
<1>13. ASSUME NEW x, x = ansn PROVE Since(0, x)' /\ Steps(x)' = 1
  BY <1>1, <1>2, <1>3, <1>13 DEF Since
<1>14. UnderWayAges'
  <2>1. ASSUME NEW msg \in under_way' PROVE Since(msg.age, msg.ansn)'
    <3>1. CASE msg = new
      BY <1>6, <1>13, <3>1
    <3>2. ASSUME NEW m \in under_way, msg = older(m) PROVE Since(msg.age, msg.ansn)'
      BY <1>8, <3>2
    <3> QED BY <1>7, <3>1, <3>2
  <2>2. ASSUME NEW m1 \in under_way', NEW m2 \in under_way', m1.age = m2.age PROVE m1 = m2
    <3>1. ASSUME NEW a \in under_way, m1 = older(a), NEW b \in under_way, m2 = older(b)
          PROVE  m1 = m2
      <4>1. a.age = b.age
        BY <1>8, <2>2, <3>1
      <4> QED BY <3>1, <4>1 DEF AgeInv, UnderWayAges
    <3> QED BY <1>6, <1>7, <1>8, <2>2, <3>1
  <2>3. ASSUME NEW m1 \in under_way', NEW m2 \in under_way', m1.age < m2.age
        PROVE  Steps(m1.ansn)' < Steps(m2.ansn)'
    <3>1. ASSUME NEW a \in under_way, m1 = older(a), NEW b \in under_way, m2 = older(b)
          PROVE  Steps(m1.ansn)' < Steps(m2.ansn)'
      <4>1. a.age < b.age
        BY <1>8, <2>3, <3>1
      <4>2. Steps(a.ansn) < Steps(b.ansn)
        BY <3>1, <4>1 DEF AgeInv, UnderWayAges
      <4> QED BY <1>8, <3>1, <4>2
    <3>2. ASSUME m1 = new, NEW b \in under_way, m2 = older(b)
          PROVE  Steps(m1.ansn)' < Steps(m2.ansn)'
      BY <1>6, <1>8, <1>13, <3>2
    <3>3. CASE m2 = new
      BY <1>6, <1>7, <1>8, <2>3, <3>3
    <3> QED BY <1>7, <3>1, <3>2, <3>3
  <2> QED BY <2>1, <2>2, <2>3 DEF UnderWayAges
<1>15. AgeOrder'
  <2> SUFFICES ASSUME known, NEW msg \in under_way'
               PROVE  /\ msg.age # last'
                      /\ msg.age < last' => Steps(msg.ansn)' < Steps(seq)'
                      /\ msg.age > last' => Steps(msg.ansn)' > Steps(seq)'
    BY <1>1 DEF AgeOrder
  <2>1. CASE msg = new
    BY <1>6, <1>9, <1>13, <2>1
  <2>2. ASSUME NEW m \in under_way, msg = older(m)
        PROVE  /\ msg.age # last'
               /\ msg.age < last' => Steps(msg.ansn)' < Steps(seq)'
               /\ msg.age > last' => Steps(msg.ansn)' > Steps(seq)'
    <3>1. /\ m.age # last
          /\ m.age < last => Steps(m.ansn) < Steps(seq)
          /\ m.age > last => Steps(m.ansn) > Steps(seq)
      BY <2>2 DEF AgeInv, AgeOrder
    <3> QED BY <1>8, <1>9, <2>2, <3>1
  <2> QED BY <1>7, <2>1, <2>2
<1> QED BY <1>10, <1>11, <1>12, <1>14, <1>15 DEF AgeInv

(* process_olsr_tc has accepted or ignored a TC. *)
LEMMA RecvTcKeepsInv ==
    ASSUME AgeInv, NEW msg \in under_way, RecvTc(msg)
    PROVE  AgeInv'
<1>1. /\ under_way' = under_way \ {msg} /\ UNCHANGED <<selectors, ansn, bumped, calm>>
      /\ msg \in Tc /\ under_way \subseteq Tc
  BY DEF AgeInv, RecvTc, sender
<1>2. msg.age \in 0..MaxDelay /\ msg.ansn \in Ansn /\ msg.neigh \in SUBSET Addr
  BY <1>1 DEF Tc
<1>3. MaxDelay \in Nat /\ VTime \in Nat /\ MaxAge = MaxDelay + VTime + 2
  BY TopologyAssumption DEF MaxAge
<1>4. UnderWayAges'
  BY <1>1 DEF AgeInv, UnderWayAges, Since, Steps
<1>5. CASE Accepts(msg)
  <2>1. /\ known' = TRUE /\ seq' = msg.ansn /\ an_tree' = TreeAfter(an_tree, msg.neigh)
        /\ expire_timer' = VTime /\ last' = msg.age
    BY <1>5 DEF RecvTc
  <2>2. an_tree' \subseteq Addr
    BY <1>2, <2>1, TreeTyped DEF AgeInv, TopologyTypes
  <2>3. last' \in 0..MaxAge /\ last' + expire_timer' <= MaxDelay + VTime
    BY <1>2, <1>3, <2>1
  <2>4. TopologyTypes'
    BY <1>1, <1>2, <1>3, <2>1, <2>2, <2>3 DEF AgeInv, TopologyTypes, Ansn
  <2>5. KnownAge'
    <3>1. Since(last, seq)'
      BY <1>1, <2>1 DEF AgeInv, UnderWayAges, Since, Steps
    <3> QED BY <2>3, <3>1 DEF KnownAge
  <2>6. AgeOrder'
    <3> SUFFICES ASSUME NEW m \in under_way'
                 PROVE  /\ m.age # msg.age
                        /\ m.age < msg.age => Steps(m.ansn) < Steps(msg.ansn)
                        /\ m.age > msg.age => Steps(m.ansn) > Steps(msg.ansn)
      BY <1>1, <2>1 DEF AgeOrder, Steps
    <3>1. m \in under_way /\ m # msg /\ m.age \in Nat
      BY <1>1 DEF Tc
    <3>2. m.age > msg.age => msg.age < m.age
      BY <1>2, <3>1
    <3>3. Steps(msg.ansn) < Steps(m.ansn) => Steps(m.ansn) > Steps(msg.ansn)
      BY <1>1, <1>2, TopologyAssumption DEF Steps, AgeInv, TopologyTypes, Ansn, Tc
    <3> QED BY <3>1, <3>2, <3>3 DEF AgeInv, UnderWayAges
  <2> QED BY <1>1, <1>4, <2>4, <2>5, <2>6 DEF AgeInv
<1>6. CASE ~Accepts(msg)
  <2>1. UNCHANGED <<known, seq, an_tree, expire_timer, last>>
    BY <1>6 DEF RecvTc, receiver
  <2> QED BY <1>1, <1>4, <2>1 DEF AgeInv, TopologyTypes, KnownAge, AgeOrder, Since, Steps
<1> QED BY <1>5, <1>6

(* process_olsr_tc never takes an old TC for a new one or a new one for an *)
(* old one between two wraps of the ANSN: whatever is lost or overtaken,   *)
(* ages and numbers are ordered alike.                                     *)
THEOREM NewerTcsOnly == TopologySpec => []NeverOlder
<1>1. TopologyInit => AgeInv
  <2>1. AnsnMod \in Nat \ {0} /\ MaxAge \in Nat /\ VTime \in Nat /\ MaxBumps \in Nat
    BY TopologyAssumption DEF MaxAge
  <2> HIDE DEF MaxAge
  <2> SUFFICES ASSUME TopologyInit PROVE AgeInv
    OBVIOUS
  <2>2. 0 \in 0..(AnsnMod - 1) /\ 0 \in 0..VTime /\ 0 \in 0..MaxBumps /\ MaxAge \in 0..MaxAge
    BY <2>1
  <2>3. ~known /\ under_way = {}
    BY DEF TopologyInit
  <2>4. TopologyTypes
    BY <2>2, Zenon DEF TopologyInit, TopologyTypes
  <2> QED BY <2>3, <2>4 DEF AgeInv, KnownAge, UnderWayAges, AgeOrder
<1>2. AgeInv /\ [TopologyNext]_tvars => AgeInv'
  <2> SUFFICES ASSUME AgeInv, [TopologyNext]_tvars PROVE AgeInv'
    OBVIOUS
  <2> USE DEF AgeInv, TopologyTypes, KnownAge, UnderWayAges, AgeOrder, Since, Steps
  <2>1. ASSUME NEW new \in SUBSET Addr, ChangeSelectors(new) PROVE AgeInv'
    BY <2>1 DEF ChangeSelectors, receiver
  <2>2. ASSUME NEW msg \in under_way, Lose(msg) PROVE AgeInv'
    BY <2>2 DEF Lose, sender, receiver
  <2>3. ASSUME TopologyExpire PROVE AgeInv'
    <3>1. AnsnMod \in Nat \ {0} /\ MaxAge \in Nat
      BY TopologyAssumption DEF MaxAge
    <3>2. ~known' /\ under_way' = under_way /\ ansn' = ansn /\ bumped' = bumped
      BY <2>3 DEF TopologyExpire, sender
    <3>3. 0 \in 0..(AnsnMod - 1) /\ MaxAge \in 0..MaxAge
      BY <3>1
    <3>4. TopologyTypes'
      BY <2>3, <3>3, Zenon DEF TopologyExpire, sender
    <3> QED BY <3>2, <3>4
  <2>4. ASSUME Settle PROVE AgeInv'
    BY <2>4 DEF Settle, sender, receiver
  <2>5. CASE UNCHANGED tvars
    BY <2>5 DEF tvars
  <2> HIDE DEF AgeInv
  <2> QED BY <2>1, <2>2, <2>3, <2>4, <2>5, MprChangeKeepsInv, BuildTcKeepsInv, RecvTcKeepsInv
          DEF TopologyNext
<1>3. AgeInv => NeverOlder
  <2> SUFFICES ASSUME AgeInv, NEW msg \in under_way, known, msg.ansn < ansn, seq < ansn
               PROVE  Accepts(msg) <=> msg.age < last
    BY DEF AgeInv, NeverOlder
  <2>1. /\ msg.age \in Nat /\ last \in Nat /\ msg.ansn \in Ansn /\ seq \in Ansn /\ ansn \in Ansn
    BY TopologyAssumption DEF AgeInv, TopologyTypes, Tc, Ansn
  <2>2. AnsnMod \in Nat
    BY TopologyAssumption
  <2>3. Steps(msg.ansn) = ansn - msg.ansn /\ Steps(seq) = ansn - seq
    BY <2>1, <2>2 DEF Steps, Ansn
  <2>4. /\ msg.age # last
        /\ msg.age < last => Steps(msg.ansn) < Steps(seq)
        /\ msg.age > last => Steps(msg.ansn) > Steps(seq)
    BY DEF AgeInv, AgeOrder
  <2> QED BY <2>1, <2>2, <2>3, <2>4 DEF Accepts, Ansn
<1> QED BY <1>1, <1>2, <1>3, PTL DEF TopologySpec
=============================================================================
