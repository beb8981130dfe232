--------------------------- MODULE PacketPipeline ---------------------------
(***************************************************************************)
(* The processes between two network layers: simnet and simmac of every    *)
(* node, one simphy for all, started and killed by the simulator.  They    *)
(* talk over System V message queues, which outlive the processes: what a  *)
(* killed simulation leaves in them is flushed by the next processes when  *)
(* they initialise, at different times and while others already send.      *)
(*                                                                         *)
(* An action takes one message from a queue and does with it all that the  *)
(* process does.  The loops poll one queue after the other, and a message  *)
(* can arrive behind the poll of its queue, so that the process may next   *)
(* meet a message of any of its queues.                                    *)
(***************************************************************************)
EXTENDS Naturals, Sequences

CONSTANTS
    Node,       \* node ids
    QCap,       \* frames that fit into a message queue
    CommandCap  \* commands, which are much smaller, that fit into one

ASSUME PipelineAssumption == QCap \in Nat \ {0} /\ CommandCap \in Nat \ {0}

(* MQ_KEY_NET_TO_MAC, MQ_KEY_MAC_TO_PHY, ...: one queue of each per node.  *)
Key == {"NET_TO_MAC", "MAC_TO_PHY", "PHY_TO_MAC", "MAC_TO_NET"}
Pair == {p \in Node \X Node : p[1] # p[2]}

VARIABLES
    net,        \* nodes whose simnet is initialised
    mac,        \* nodes whose simmac is initialised
    phy,        \* whether simphy is initialised
    mq,         \* contents of the queues between them
    command,    \* contents of the queue MQ_KEY_PHY_COMMAND
    alive,      \* simphy: nodes that it has received something from
    los,        \* simphy: directed links with line of sight
    asked       \* what LinkInfo has asked simphy for since it runs

vars == <<net, mac, phy, mq, command, alive, los, asked>>

(* old is not in the message: it is set once the simulation that sent it   *)
(* has been killed.                                                        *)
Message == [type : {"DATA", "HEARTBEAT"}, src : Node, old : BOOLEAN]
Msg(type, n) == [type |-> type, src |-> n, old |-> FALSE]

(* send_mq: a message that does not fit is lost. *)
Enqueued(q, cap, m) == IF Len(q) < cap THEN Append(q, m) ELSE q
Sent(q, m) == Enqueued(q, QCap, m)

(* The simulator has just forked the processes of the first simulation. *)
Init ==
    /\ net = {} /\ mac = {} /\ phy = FALSE
    /\ mq = [k \in Key |-> [n \in Node |-> <<>>]]
    /\ command = <<>>
    /\ alive = {} /\ los = Pair /\ asked = Pair
-----------------------------------------------------------------------------
(* start_simulate_remote: every process is killed and forked again; the    *)
(* queues keep what they hold.  A killed process does nothing any more by  *)
(* the time its successor has been executed.                               *)
StartSimulation ==
    /\ net' = {} /\ mac' = {} /\ phy' = FALSE
    /\ mq' = [k \in Key |-> [n \in Node |->
              [i \in DOMAIN mq[k][n] |-> [mq[k][n][i] EXCEPT !.old = TRUE]]]]
    /\ UNCHANGED <<command, alive, los, asked>>

(* Mutant: simnet flushes the queues it reads only. *)
NetKeysRead == {"MAC_TO_NET"}

(* The queues that simnet_init_mq flushes. *)
NetKeys == {"NET_TO_MAC", "MAC_TO_NET"}

(* mq_flush of some of the queues of node n. *)
Flushed(keys, n) ==
    [k \in Key |-> [m \in Node |-> IF k \in keys /\ m = n THEN <<>> ELSE mq[k][m]]]

NetStart(n) ==
    /\ n \notin net
    /\ net' = net \cup {n}
    /\ mq' = Flushed(NetKeys, n)
    /\ UNCHANGED <<mac, phy, command, alive, los, asked>>

(* simmac flushes the four queues of its node and tells simphy of itself. *)
MacStart(n) ==
    /\ n \notin mac
    /\ mac' = mac \cup {n}
    /\ mq' = [Flushed(Key, n) EXCEPT !["MAC_TO_PHY"][n] = Sent(<<>>, Msg("HEARTBEAT", n))]
    /\ UNCHANGED <<net, phy, command, alive, los, asked>>

(* create_simphy_context and simphy_init_mq. *)
PhyStart ==
    /\ ~phy
    /\ phy' = TRUE
    /\ alive' = {} /\ los' = Pair /\ asked' = Pair
    /\ mq' = [k \in Key |-> [n \in Node |->
              IF k \in {"MAC_TO_PHY", "PHY_TO_MAC"} THEN <<>> ELSE mq[k][n]]]
    /\ command' = <<>>
    /\ UNCHANGED <<net, mac>>
-----------------------------------------------------------------------------
(* remote_send, at the latest with the next HELLO. *)
NetSend(n) ==
    /\ n \in net
    /\ mq' = [mq EXCEPT !["NET_TO_MAC"][n] = Sent(@, Msg("DATA", n))]
    /\ UNCHANGED <<net, mac, phy, command, alive, los, asked>>

(* poll_mq: process_net_msg and process_phy_msg pass on whatever type as   *)
(* MESSAGE_TYPE_DATA.                                                      *)
MacPasses(n, from, to) ==
    /\ n \in mac
    /\ mq[from][n] # <<>>
    /\ mq' = [mq EXCEPT ![from][n] = Tail(@),
                        ![to][n] = Sent(@, [Head(mq[from][n]) EXCEPT !.type = "DATA"])]
    /\ UNCHANGED <<net, mac, phy, command, alive, los, asked>>

(* The nodes that process_mac_frame sends a frame of n to. *)
Receivers(n, living) == {m \in living : m # n /\ <<n, m>> \in los}

(* Mutant: a heartbeat is sent on like a frame. *)
ForwardsAll(m) == TRUE

(* The switch of recv_from_mac over the message types. *)
Forwards(m) == m.type = "DATA"

(* Mutant: only a heartbeat makes a node alive. *)
NowAliveByHeartbeat(n, m) == IF m.type = "HEARTBEAT" THEN alive \cup {n} ELSE alive

(* recv_from_mac: whatever comes from a node makes it alive. *)
NowAlive(n, m) == alive \cup {n}

PhyRecv(n) ==
    /\ phy
    /\ mq["MAC_TO_PHY"][n] # <<>>
    /\ LET m == Head(mq["MAC_TO_PHY"][n])
           living == NowAlive(n, m)
       IN  /\ alive' = living
           /\ mq' = [k \in Key |-> [r \in Node |->
                 IF k = "MAC_TO_PHY" /\ r = n THEN Tail(mq[k][r])
                 ELSE IF k = "PHY_TO_MAC" /\ Forwards(m) /\ r \in Receivers(n, living)
                 THEN Sent(mq[k][r], m)
                 ELSE mq[k][r]]]
    /\ UNCHANGED <<net, mac, phy, command, los, asked>>

(* recvfrom_mac: the frame goes to the routing protocol. *)
NetRecv(n) ==
    /\ n \in net
    /\ mq["MAC_TO_NET"][n] # <<>>
    /\ mq' = [mq EXCEPT !["MAC_TO_NET"][n] = Tail(@)]
    /\ UNCHANGED <<net, mac, phy, command, alive, los, asked>>
-----------------------------------------------------------------------------
(* The effect of a PhyLinkConfig on the links. *)
Both(p) == {p, <<p[2], p[1]>>}

(* Mutant: one direction of the link only. *)
ConfiguredOneWay(links, c) == IF c.los THEN links \cup {c.pair} ELSE links \ {c.pair}

(* handle_link_config_command. *)
Configured(links, c) == IF c.los THEN links \cup Both(c.pair) ELSE links \ Both(c.pair)

(* One turn of the loop of handle_link_info_msg, or of the one of          *)
(* send_link_config_msgs: a PhyLinkConfig is sent, and lost if the queue   *)
(* is full.  asked has it if it gets into the queue of a simphy that runs. *)
SendLinkConfig(p, on) ==
    /\ command' = Enqueued(command, CommandCap, [pair |-> p, los |-> on])
    /\ asked' = IF ~phy \/ command' = command THEN asked
                ELSE IF on THEN asked \cup Both(p) ELSE asked \ Both(p)
    /\ UNCHANGED <<net, mac, phy, mq, alive, los>>

(* recv_command of simphy. *)
PhyCommand ==
    /\ phy
    /\ command # <<>>
    /\ los' = Configured(los, Head(command))
    /\ command' = Tail(command)
    /\ UNCHANGED <<net, mac, phy, mq, alive, asked>>

Next ==
    \/ StartSimulation
    \/ PhyStart
    \/ \E n \in Node : NetStart(n) \/ MacStart(n) \/ NetSend(n) \/ PhyRecv(n) \/ NetRecv(n)
    \/ \E n \in Node : MacPasses(n, "NET_TO_MAC", "MAC_TO_PHY")
    \/ \E n \in Node : MacPasses(n, "PHY_TO_MAC", "MAC_TO_NET")
    \/ \E p \in Pair, on \in BOOLEAN : SendLinkConfig(p, on)
    \/ PhyCommand

Spec == Init /\ [][Next]_vars

(* Every process that is started runs its loop, and simnet sends a HELLO   *)
(* every two seconds.                                                      *)
Fairness ==
    /\ WF_vars(PhyStart) /\ WF_vars(PhyCommand)
    /\ \A n \in Node :
          /\ WF_vars(NetStart(n)) /\ WF_vars(MacStart(n))
          /\ WF_vars(NetSend(n)) /\ WF_vars(NetRecv(n)) /\ WF_vars(PhyRecv(n))
          /\ WF_vars(MacPasses(n, "NET_TO_MAC", "MAC_TO_PHY"))
          /\ WF_vars(MacPasses(n, "PHY_TO_MAC", "MAC_TO_NET"))

FairSpec == Spec /\ Fairness
-----------------------------------------------------------------------------
(* Queues stay within their limit, and only the one to simphy has anything *)
(* but data: simmac passes a message on without looking at its type.       *)
TypeOK ==
    /\ net \subseteq Node /\ mac \subseteq Node /\ phy \in BOOLEAN
    /\ alive \subseteq Node /\ los \subseteq Pair /\ asked \subseteq Pair
    /\ mq \in [Key -> [Node -> Seq(Message)]]
    /\ command \in Seq([pair : Pair, los : BOOLEAN])
    /\ Len(command) <= CommandCap
    /\ \A k \in Key, n \in Node :
          /\ Len(mq[k][n]) <= QCap
          /\ k # "MAC_TO_PHY" => \A i \in DOMAIN mq[k][n] : mq[k][n][i].type = "DATA"

(* One of the two processes of a queue of node n is initialised. *)
Opened(k, n) ==
    \/ n \in mac
    \/ n \in net /\ k \in {"NET_TO_MAC", "MAC_TO_NET"}
    \/ phy /\ k \in {"MAC_TO_PHY", "PHY_TO_MAC"}

(* A process never meets a frame of a simulation that has been killed: a   *)
(* queue holds none as soon as one of its two processes is initialised, in *)
(* whatever order they are.                                                *)
NoOldFrames ==
    \A k \in Key, n \in Node : Opened(k, n) => \A i \in DOMAIN mq[k][n] : ~mq[k][n][i].old

(* What simphy is asked while it runs it does: with no command left, the   *)
(* links are the ones asked for, in both directions.                       *)
LinksAsAsked == phy /\ command = <<>> => los = asked

(* A simulation that is not restarted gets going: simphy comes to know     *)
(* every node although initialising processes flush heartbeats, and frames *)
(* keep arriving over a link that stays up.                                *)
GetsGoing ==
    <>[](phy /\ net = Node /\ mac = Node) =>
       /\ <>[](alive = Node)
       /\ \A p \in Pair : <>[](p \in los) =>
             []<>(\E i \in DOMAIN mq["MAC_TO_NET"][p[2]] :
                    mq["MAC_TO_NET"][p[2]][i].src = p[1])
=============================================================================
