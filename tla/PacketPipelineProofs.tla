------------------------ MODULE PacketPipelineProofs ------------------------
(***************************************************************************)
(* For any number of nodes and any queue size: no process meets a message  *)
(* of a simulation that has been killed, and simphy ends up with the links *)
(* that it is asked for.                                                   *)
(***************************************************************************)
EXTENDS PacketPipeline, TLAPS

(* What TypeOK says of one queue. *)
QueueOK(k, q) ==
    /\ q \in Seq(Message)
    /\ Len(q) <= QCap
    /\ k # "MAC_TO_PHY" => \A i \in DOMAIN q : q[i].type = "DATA"

Fresh(q) == \A i \in DOMAIN q : ~q[i].old

(* The parts of TypeOK about simphy and the sets of processes. *)
Rest ==
    /\ net \subseteq Node /\ mac \subseteq Node /\ phy \in BOOLEAN
    /\ alive \subseteq Node /\ los \subseteq Pair /\ asked \subseteq Pair
    /\ command \in Seq([pair : Pair, los : BOOLEAN])
    /\ Len(command) <= CommandCap

IInv == TypeOK /\ NoOldFrames
-----------------------------------------------------------------------------
(* mq_flush leaves an empty queue. *)
LEMMA EmptyQueue == \A k : QueueOK(k, <<>>) /\ Fresh(<<>>)
BY PipelineAssumption DEF QueueOK, Fresh

(* send_mq adds the message at the end, or loses it. *)
LEMMA SentQueue ==
    ASSUME NEW k, NEW q, QueueOK(k, q), NEW m \in Message, k # "MAC_TO_PHY" => m.type = "DATA"
    PROVE  /\ QueueOK(k, Sent(q, m))
           /\ Fresh(q) /\ ~m.old => Fresh(Sent(q, m))
<1>1. CASE Len(q) < QCap
  <2>1. Sent(q, m) = Append(q, m)
    BY <1>1 DEF Sent, Enqueued
  <2>2. /\ Append(q, m) \in Seq(Message) /\ Len(Append(q, m)) = Len(q) + 1
        /\ \A i \in DOMAIN Append(q, m) :
              (i \in DOMAIN q /\ Append(q, m)[i] = q[i]) \/ Append(q, m)[i] = m
    BY DEF QueueOK
  <2>3. Len(q) + 1 <= QCap
    BY <1>1, PipelineAssumption DEF QueueOK
  <2> QED
    BY <2>1, <2>2, <2>3 DEF QueueOK, Fresh
<1>2. CASE ~(Len(q) < QCap)
  BY <1>2 DEF Sent, Enqueued
<1> QED
  BY <1>1, <1>2

(* recv_mq takes the first message. *)
LEMMA TailQueue ==
    ASSUME NEW k, NEW q, QueueOK(k, q), q # <<>>
    PROVE  /\ QueueOK(k, Tail(q)) /\ (Fresh(q) => Fresh(Tail(q)))
           /\ Head(q) \in Message
           /\ k # "MAC_TO_PHY" => Head(q).type = "DATA"
           /\ Fresh(q) => ~Head(q).old
<1>1. /\ Tail(q) \in Seq(Message) /\ Len(Tail(q)) = Len(q) - 1 /\ Len(q) \in Nat
      /\ \A i \in DOMAIN Tail(q) : i + 1 \in DOMAIN q /\ Tail(q)[i] = q[i + 1]
  BY DEF QueueOK
<1>2. Head(q) = q[1] /\ 1 \in DOMAIN q /\ q[1] \in Message
  BY DEF QueueOK
<1>3. Len(Tail(q)) <= QCap
  BY <1>1, PipelineAssumption DEF QueueOK
<1> QED
  BY <1>1, <1>2, <1>3 DEF QueueOK, Fresh

(* The end of a simulation makes its messages old and changes nothing else *)
(* about them.                                                             *)
LEMMA OldQueue ==
    ASSUME NEW k, NEW q, QueueOK(k, q)
    PROVE  QueueOK(k, [i \in DOMAIN q |-> [q[i] EXCEPT !.old = TRUE]])
<1> DEFINE r == [i \in DOMAIN q |-> [q[i] EXCEPT !.old = TRUE]]
<1>1. \A m \in Message : [m EXCEPT !.old = TRUE] \in Message /\ [m EXCEPT !.old = TRUE].type = m.type
  BY DEF Message
<1>2. DOMAIN q = 1..Len(q) /\ Len(q) \in Nat /\ \A i \in DOMAIN q : q[i] \in Message
  BY DEF QueueOK
<1>3. r \in [1..Len(q) -> Message]
  BY <1>1, <1>2
<1>4. r \in Seq(Message) /\ Len(r) = Len(q)
  BY <1>2, <1>3
<1> QED
  BY <1>1, <1>2, <1>4 DEF QueueOK

(* The invariant, queue by queue. *)
LEMMA ByQueue ==
    IInv <=> /\ Rest
             /\ mq = [k \in Key |-> [n \in Node |-> mq[k][n]]]
             /\ \A k \in Key, n \in Node :
                   QueueOK(k, mq[k][n]) /\ (Opened(k, n) => Fresh(mq[k][n]))
<1>1. ASSUME IInv
      PROVE  /\ Rest
             /\ mq = [k \in Key |-> [n \in Node |-> mq[k][n]]]
             /\ \A k \in Key, n \in Node :
                   QueueOK(k, mq[k][n]) /\ (Opened(k, n) => Fresh(mq[k][n]))
  BY <1>1 DEF IInv, TypeOK, NoOldFrames, Rest, QueueOK, Fresh
<1>2. ASSUME Rest, mq = [k \in Key |-> [n \in Node |-> mq[k][n]]],
             \A k \in Key, n \in Node :
                QueueOK(k, mq[k][n]) /\ (Opened(k, n) => Fresh(mq[k][n]))
      PROVE  IInv
  <2>1. \A k \in Key, n \in Node : mq[k][n] \in Seq(Message)
    BY <1>2 DEF QueueOK
  <2>2. mq \in [Key -> [Node -> Seq(Message)]]
    BY <2>1, <1>2
  <2> QED
    BY <1>2, <2>2 DEF IInv, TypeOK, NoOldFrames, Rest, QueueOK, Fresh
<1> QED
  BY <1>1, <1>2
-----------------------------------------------------------------------------
(* What has to be shown of a step. *)
LEMMA ByQueueNext ==
    ASSUME Rest', mq' = [k \in Key |-> [n \in Node |-> mq'[k][n]]],
           \A k \in Key, n \in Node :
              QueueOK(k, mq'[k][n]) /\ (Opened(k, n)' => Fresh(mq'[k][n]))
    PROVE  IInv'
<1>1. (\A k \in Key, n \in Node : QueueOK(k, mq[k][n]) /\ (Opened(k, n) => Fresh(mq[k][n])))'
  OBVIOUS
<1>2. (mq = [k \in Key |-> [n \in Node |-> mq[k][n]]])'
  OBVIOUS
<1> QED
  BY <1>1, <1>2, ByQueue, PTL

(* The messages that processes send are of the present simulation. *)
LEMMA MsgFacts ==
    ASSUME NEW n \in Node, NEW type \in {"DATA", "HEARTBEAT"}
    PROVE  Msg(type, n) \in Message /\ Msg(type, n).type = type /\ ~Msg(type, n).old
BY DEF Msg, Message

(* Nothing runs yet and the queues are empty. *)
LEMMA InitInv == Init => IInv
<1> SUFFICES ASSUME Init PROVE IInv
  OBVIOUS
<1>1. Rest
  <2>1. <<>> \in Seq([pair : Pair, los : BOOLEAN]) /\ Len(<<>>) <= CommandCap
    BY PipelineAssumption
  <2> QED
    BY <2>1 DEF Init, Rest
<1>2. \A k \in Key, n \in Node : mq[k][n] = <<>>
  BY DEF Init
<1> QED
  BY <1>1, <1>2, EmptyQueue, ByQueue DEF Init

(* Killing the simulation: all frames are old, but no queue is opened. *)
LEMMA StartSimulationStep == ASSUME IInv, StartSimulation PROVE IInv'
<1>1. Rest'
  BY ByQueue DEF StartSimulation, Rest
<1>2. ASSUME NEW k \in Key, NEW n \in Node
      PROVE  QueueOK(k, mq'[k][n]) /\ (Opened(k, n)' => Fresh(mq'[k][n]))
  <2>1. mq'[k][n] = [i \in DOMAIN mq[k][n] |-> [mq[k][n][i] EXCEPT !.old = TRUE]]
    BY DEF StartSimulation
  <2>2. QueueOK(k, mq'[k][n])
    BY <2>1, OldQueue, ByQueue
  <2>3. ~Opened(k, n)'
    BY DEF StartSimulation, Opened
  <2> QED
    BY <2>2, <2>3
<1>3. mq' = [k \in Key |-> [n \in Node |-> mq'[k][n]]]
  BY DEF StartSimulation
<1> QED
  BY <1>1, <1>2, <1>3, ByQueueNext

(* simnet flushes the queues that its start opens. *)
LEMMA NetStartStep == ASSUME IInv, NEW n \in Node, NetStart(n) PROVE IInv'
<1>1. Rest'
  BY ByQueue DEF NetStart, Rest
<1>2. ASSUME NEW k \in Key, NEW m \in Node
      PROVE  QueueOK(k, mq'[k][m]) /\ (Opened(k, m)' => Fresh(mq'[k][m]))
  <2>1. mq'[k][m] = IF k \in NetKeys /\ m = n THEN <<>> ELSE mq[k][m]
    BY DEF NetStart, Flushed
  <2>2. CASE k \in NetKeys /\ m = n
    BY <2>1, <2>2, EmptyQueue
  <2>3. CASE ~(k \in NetKeys /\ m = n)
    <3>1. Opened(k, m)' => Opened(k, m)
      BY <2>3 DEF NetStart, Opened, NetKeys
    <3> QED
      BY <2>1, <2>3, <3>1, ByQueue
  <2> QED
    BY <2>2, <2>3
<1>3. mq' = [k \in Key |-> [m \in Node |-> mq'[k][m]]]
  BY DEF NetStart, Flushed
<1> QED
  BY <1>1, <1>2, <1>3, ByQueueNext

(* simmac flushes all queues of its node and sends a heartbeat. *)
LEMMA MacStartStep == ASSUME IInv, NEW n \in Node, MacStart(n) PROVE IInv'
<1> DEFINE hb == Sent(<<>>, Msg("HEARTBEAT", n))
<1>1. Rest'
  BY ByQueue DEF MacStart, Rest
<1>2. QueueOK("MAC_TO_PHY", hb) /\ Fresh(hb)
  BY EmptyQueue, MsgFacts, SentQueue
<1>3. ASSUME NEW k \in Key, NEW m \in Node
      PROVE  QueueOK(k, mq'[k][m]) /\ (Opened(k, m)' => Fresh(mq'[k][m]))
  <2>1. mq'[k][m] = IF m # n THEN mq[k][m] ELSE IF k = "MAC_TO_PHY" THEN hb ELSE <<>>
    BY DEF MacStart, Flushed, Key
  <2>2. CASE m = n
    BY <2>1, <2>2, <1>2, EmptyQueue
  <2>3. CASE m # n
    <3>1. Opened(k, m)' => Opened(k, m)
      BY <2>3 DEF MacStart, Opened
    <3> QED
      BY <2>1, <2>3, <3>1, ByQueue
  <2> QED
    BY <2>2, <2>3
<1>4. mq' = [k \in Key |-> [m \in Node |-> mq'[k][m]]]
  BY DEF MacStart, Flushed
<1> QED
  BY <1>1, <1>3, <1>4, ByQueueNext

(* simphy flushes both of its queues of every node. *)
LEMMA PhyStartStep == ASSUME IInv, PhyStart PROVE IInv'
<1>1. Rest'
  <2>1. <<>> \in Seq([pair : Pair, los : BOOLEAN]) /\ Len(<<>>) <= CommandCap
    BY PipelineAssumption
  <2> QED
    BY <2>1, ByQueue DEF PhyStart, Rest
<1>2. ASSUME NEW k \in Key, NEW m \in Node
      PROVE  QueueOK(k, mq'[k][m]) /\ (Opened(k, m)' => Fresh(mq'[k][m]))
  <2>1. mq'[k][m] = IF k \in {"MAC_TO_PHY", "PHY_TO_MAC"} THEN <<>> ELSE mq[k][m]
    BY DEF PhyStart
  <2>2. CASE k \in {"MAC_TO_PHY", "PHY_TO_MAC"}
    BY <2>1, <2>2, EmptyQueue
  <2>3. CASE k \notin {"MAC_TO_PHY", "PHY_TO_MAC"}
    <3>1. Opened(k, m)' => Opened(k, m)
      BY <2>3 DEF PhyStart, Opened
    <3> QED
      BY <2>1, <2>3, <3>1, ByQueue
  <2> QED
    BY <2>2, <2>3
<1>3. mq' = [k \in Key |-> [m \in Node |-> mq'[k][m]]]
  BY DEF PhyStart
<1> QED
  BY <1>1, <1>2, <1>3, ByQueueNext
-----------------------------------------------------------------------------
(* Steps of processes that run: no queue is opened by them. *)
LEMMA RunningStep ==
    ASSUME UNCHANGED <<net, mac, phy>>, Rest',
           mq' = [k \in Key |-> [n \in Node |-> mq'[k][n]]],
           \A k \in Key, n \in Node :
              QueueOK(k, mq'[k][n]) /\ (Opened(k, n) => Fresh(mq'[k][n]))
    PROVE  IInv'
<1>1. \A k \in Key, n \in Node : Opened(k, n)' => Opened(k, n)
  BY DEF Opened
<1> QED
  BY <1>1, ByQueueNext

(* remote_send: a fresh frame. *)
LEMMA NetSendStep == ASSUME IInv, NEW n \in Node, NetSend(n) PROVE IInv'
<1> DEFINE sent == Sent(mq["NET_TO_MAC"][n], Msg("DATA", n))
<1>1. Rest' /\ UNCHANGED <<net, mac, phy>>
  BY ByQueue DEF NetSend, Rest
<1>2. mq' = [mq EXCEPT !["NET_TO_MAC"][n] = sent] /\ mq = [k \in Key |-> [m \in Node |-> mq[k][m]]]
  BY ByQueue DEF NetSend
<1>3. QueueOK("NET_TO_MAC", sent) /\ (Fresh(mq["NET_TO_MAC"][n]) => Fresh(sent))
  BY ByQueue, MsgFacts, SentQueue DEF Key
<1>4. ASSUME NEW k \in Key, NEW m \in Node
      PROVE  QueueOK(k, mq'[k][m]) /\ (Opened(k, m) => Fresh(mq'[k][m]))
  <2>1. mq'[k][m] = IF k = "NET_TO_MAC" /\ m = n THEN sent ELSE mq[k][m]
    BY <1>2
  <2> QED
    BY <2>1, <1>3, ByQueue
<1>5. mq' = [k \in Key |-> [m \in Node |-> mq'[k][m]]]
  BY <1>2
<1> QED
  BY <1>1, <1>4, <1>5, RunningStep

(* poll_mq: simmac has both queues open, so what it passes on is fresh. *)
LEMMA MacPassesStep ==
    ASSUME IInv, NEW n \in Node, NEW from \in Key \ {"MAC_TO_PHY"}, NEW to \in Key,
           from # to, MacPasses(n, from, to)
    PROVE  IInv'
<1> DEFINE f == mq[from][n]
           msg == [Head(f) EXCEPT !.type = "DATA"]
           sent == Sent(mq[to][n], msg)
<1>1. Rest' /\ UNCHANGED <<net, mac, phy>>
  BY ByQueue DEF MacPasses, Rest
<1>2. /\ mq' = [mq EXCEPT ![from][n] = Tail(f), ![to][n] = sent]
      /\ mq = [k \in Key |-> [m \in Node |-> mq[k][m]]]
      /\ f # <<>>
  BY ByQueue DEF MacPasses
<1>3. QueueOK(from, f) /\ Fresh(f) /\ QueueOK(to, mq[to][n]) /\ Fresh(mq[to][n])
  BY ByQueue DEF MacPasses, Opened
<1>4. QueueOK(from, Tail(f)) /\ Fresh(Tail(f)) /\ Head(f) \in Message /\ ~Head(f).old
  BY <1>2, <1>3, TailQueue
<1>5. msg \in Message /\ msg.type = "DATA" /\ ~msg.old
  BY <1>4 DEF Message
<1>6. QueueOK(to, sent) /\ Fresh(sent)
  BY <1>3, <1>5, SentQueue
<1> HIDE DEF sent, f
<1>7. ASSUME NEW k \in Key, NEW m \in Node
      PROVE  QueueOK(k, mq'[k][m]) /\ (Opened(k, m) => Fresh(mq'[k][m]))
  <2>1. mq'[k][m] = IF k = from /\ m = n THEN Tail(f)
                    ELSE IF k = to /\ m = n THEN sent ELSE mq[k][m]
    BY <1>2
  <2> QED
    BY <2>1, <1>4, <1>6, ByQueue
<1>8. mq' = [k \in Key |-> [m \in Node |-> mq'[k][m]]]
  BY <1>2
<1> QED
  BY <1>1, <1>7, <1>8, RunningStep

(* recv_from_mac: what simphy sends on is data and fresh. *)
LEMMA PhyRecvStep == ASSUME IInv, NEW n \in Node, PhyRecv(n) PROVE IInv'
<1> DEFINE f == mq["MAC_TO_PHY"][n]
           msg == Head(f)
           R == Receivers(n, NowAlive(n, msg))
<1>1. QueueOK("MAC_TO_PHY", f) /\ Fresh(f) /\ f # <<>>
  BY ByQueue DEF PhyRecv, Opened, Key
<1>2. QueueOK("MAC_TO_PHY", Tail(f)) /\ Fresh(Tail(f)) /\ msg \in Message /\ ~msg.old
  BY <1>1, TailQueue
<1>3. mq' = [k \in Key |-> [r \in Node |->
               IF k = "MAC_TO_PHY" /\ r = n THEN Tail(mq[k][r])
               ELSE IF k = "PHY_TO_MAC" /\ Forwards(msg) /\ r \in R THEN Sent(mq[k][r], msg)
               ELSE mq[k][r]]]
  BY DEF PhyRecv
<1>4. Rest' /\ UNCHANGED <<net, mac, phy>>
  BY ByQueue DEF PhyRecv, Rest, NowAlive
<1>5. ASSUME NEW k \in Key, NEW r \in Node
      PROVE  QueueOK(k, mq'[k][r]) /\ (Opened(k, r) => Fresh(mq'[k][r]))
  <2>1. CASE k = "MAC_TO_PHY" /\ r = n
    BY <2>1, <1>2, <1>3
  <2>2. CASE k = "PHY_TO_MAC" /\ Forwards(msg) /\ r \in R
    <3>1. mq'[k][r] = Sent(mq[k][r], msg)
      BY <2>2, <1>3
    <3>2. msg.type = "DATA"
      BY <2>2 DEF Forwards
    <3> QED
      BY <3>1, <3>2, <1>2, SentQueue, ByQueue
  <2>3. CASE ~(k = "MAC_TO_PHY" /\ r = n) /\ ~(k = "PHY_TO_MAC" /\ Forwards(msg) /\ r \in R)
    BY <2>3, <1>3, ByQueue
  <2> QED
    BY <2>1, <2>2, <2>3
<1>6. mq' = [k \in Key |-> [r \in Node |-> mq'[k][r]]]
  BY <1>3
<1> QED
  BY <1>4, <1>5, <1>6, RunningStep

(* recvfrom_mac takes a frame from the queue. *)
LEMMA NetRecvStep == ASSUME IInv, NEW n \in Node, NetRecv(n) PROVE IInv'
<1> DEFINE f == mq["MAC_TO_NET"][n]
<1>1. Rest' /\ UNCHANGED <<net, mac, phy>>
  BY ByQueue DEF NetRecv, Rest
<1>2. /\ mq' = [mq EXCEPT !["MAC_TO_NET"][n] = Tail(f)] /\ f # <<>>
      /\ mq = [k \in Key |-> [m \in Node |-> mq[k][m]]]
  BY ByQueue DEF NetRecv
<1>3. QueueOK("MAC_TO_NET", Tail(f)) /\ (Fresh(f) => Fresh(Tail(f)))
  BY <1>2, ByQueue, TailQueue DEF Key
<1>4. ASSUME NEW k \in Key, NEW m \in Node
      PROVE  QueueOK(k, mq'[k][m]) /\ (Opened(k, m) => Fresh(mq'[k][m]))
  <2>1. mq'[k][m] = IF k = "MAC_TO_NET" /\ m = n THEN Tail(f) ELSE mq[k][m]
    BY <1>2
  <2> QED
    BY <2>1, <1>3, ByQueue
<1>5. mq' = [k \in Key |-> [m \in Node |-> mq'[k][m]]]
  BY <1>2
<1> QED
  BY <1>1, <1>4, <1>5, RunningStep

(* A PhyLinkConfig is about a pair of nodes, in both directions. *)
LEMMA BothFacts == \A p \in Pair : Both(p) \subseteq Pair
BY DEF Both, Pair

(* send_mq and recv_mq on a queue of any kind of message. *)
LEMMA AnyQueue ==
    ASSUME NEW S, NEW q \in Seq(S), Len(q) <= CommandCap
    PROVE  /\ \A c \in S : /\ Enqueued(q, CommandCap, c) \in Seq(S)
                          /\ Len(Enqueued(q, CommandCap, c)) <= CommandCap
           /\ q # <<>> => Tail(q) \in Seq(S) /\ Len(Tail(q)) <= CommandCap /\ Head(q) \in S
<1>1. ASSUME NEW c \in S
      PROVE  /\ Enqueued(q, CommandCap, c) \in Seq(S)
             /\ Len(Enqueued(q, CommandCap, c)) <= CommandCap
  <2>1. CASE Len(q) < CommandCap
    <3>1. Enqueued(q, CommandCap, c) = Append(q, c)
      BY <2>1 DEF Enqueued
    <3>2. Append(q, c) \in Seq(S) /\ Len(Append(q, c)) = Len(q) + 1 /\ Len(q) \in Nat
      OBVIOUS
    <3> QED
      BY <2>1, <3>1, <3>2, PipelineAssumption
  <2>2. CASE ~(Len(q) < CommandCap)
    BY <2>2 DEF Enqueued
  <2> QED
    BY <2>1, <2>2
<1>2. ASSUME q # <<>> PROVE Tail(q) \in Seq(S) /\ Len(Tail(q)) <= CommandCap /\ Head(q) \in S
  <2>1. Tail(q) \in Seq(S) /\ Len(Tail(q)) = Len(q) - 1 /\ Len(q) \in Nat
    BY <1>2
  <2>2. Head(q) \in S
    BY <1>2
  <2> QED
    BY <2>1, <2>2, PipelineAssumption
<1> QED
  BY <1>1, <1>2

(* handle_link_info_msg and recv_command leave the queues of frames alone. *)
LEMMA CommandStep ==
    ASSUME IInv, PhyCommand \/ \E p \in Pair, on \in BOOLEAN : SendLinkConfig(p, on)
    PROVE  IInv'
<1> DEFINE C == [pair : Pair, los : BOOLEAN]
<1>1. UNCHANGED <<net, mac, phy, mq, alive>>
  BY DEF PhyCommand, SendLinkConfig
<1>2. Rest'
  <2>1. CASE PhyCommand
    <3>1. command \in Seq(C) /\ command # <<>> /\ Len(command) <= CommandCap
      BY <2>1, ByQueue DEF PhyCommand, Rest
    <3>2. Tail(command) \in Seq(C) /\ Len(Tail(command)) <= CommandCap /\ Head(command) \in C
      BY <3>1, AnyQueue
    <3>3. los' \subseteq Pair
      BY <2>1, <3>2, BothFacts, ByQueue DEF PhyCommand, Configured, Rest
    <3> QED
      BY <2>1, <3>2, <3>3, ByQueue DEF PhyCommand, Rest
  <2>2. ASSUME NEW p \in Pair, NEW on \in BOOLEAN, SendLinkConfig(p, on) PROVE Rest'
    <3>1. command \in Seq(C) /\ Len(command) <= CommandCap /\ [pair |-> p, los |-> on] \in C
      BY ByQueue DEF Rest
    <3> HIDE DEF C
    <3>4. command' = Enqueued(command, CommandCap, [pair |-> p, los |-> on])
      BY <2>2 DEF SendLinkConfig
    <3>2. command' \in Seq(C) /\ Len(command') <= CommandCap
      BY <3>1, <3>4, AnyQueue
    <3> USE DEF C
    <3>3. asked' \subseteq Pair
      BY <2>2, BothFacts, ByQueue DEF SendLinkConfig, Rest
    <3> QED
      BY <2>2, <3>2, <3>3, ByQueue DEF SendLinkConfig, Rest
  <2> QED
    BY <2>1, <2>2
<1>3. /\ mq' = [k \in Key |-> [n \in Node |-> mq'[k][n]]]
      /\ \A k \in Key, n \in Node : QueueOK(k, mq'[k][n]) /\ (Opened(k, n) => Fresh(mq'[k][n]))
  BY <1>1, ByQueue
<1> QED
  BY <1>1, <1>2, <1>3, RunningStep

(* Every step keeps the invariant: one case per action. *)
LEMMA NextInv == IInv /\ [Next]_vars => IInv'
<1> SUFFICES ASSUME IInv, [Next]_vars PROVE IInv'
  OBVIOUS
<1>1. CASE StartSimulation
  BY <1>1, StartSimulationStep
<1>2. CASE PhyStart
  BY <1>2, PhyStartStep
<1>3. ASSUME NEW n \in Node, NetStart(n) PROVE IInv'
  BY <1>3, NetStartStep
<1>4. ASSUME NEW n \in Node, MacStart(n) PROVE IInv'
  BY <1>4, MacStartStep
<1>5. ASSUME NEW n \in Node, NetSend(n) PROVE IInv'
  BY <1>5, NetSendStep
<1>6. ASSUME NEW n \in Node, PhyRecv(n) PROVE IInv'
  BY <1>6, PhyRecvStep
<1>7. ASSUME NEW n \in Node, NetRecv(n) PROVE IInv'
  BY <1>7, NetRecvStep
<1>8. ASSUME NEW n \in Node, MacPasses(n, "NET_TO_MAC", "MAC_TO_PHY") PROVE IInv'
  BY <1>8, MacPassesStep DEF Key
<1>9. ASSUME NEW n \in Node, MacPasses(n, "PHY_TO_MAC", "MAC_TO_NET") PROVE IInv'
  BY <1>9, MacPassesStep DEF Key
<1>10. CASE PhyCommand \/ \E p \in Pair, on \in BOOLEAN : SendLinkConfig(p, on)
  BY <1>10, CommandStep
<1>11. CASE UNCHANGED vars
  BY <1>11 DEF vars, IInv, TypeOK, NoOldFrames, Opened
<1> QED
  BY <1>1, <1>2, <1>3, <1>4, <1>5, <1>6, <1>7, <1>8, <1>9, <1>10, <1>11 DEF Next
-----------------------------------------------------------------------------
(* Queues never hold more than fits and only data where only data belongs. *)
THEOREM QueuesTyped == Spec => []TypeOK
<1>1. IInv => TypeOK
  BY DEF IInv
<1> QED
  BY InitInv, NextInv, <1>1, PTL DEF Spec

(* In whatever order simnet, simmac and simphy initialise after a restart, *)
(* and whatever they send meanwhile, none of them meets a message of the   *)
(* simulation before.                                                      *)
THEOREM RestartIsClean == Spec => []NoOldFrames
<1>1. IInv => NoOldFrames
  BY DEF IInv
<1> QED
  BY InitInv, NextInv, <1>1, PTL DEF Spec
-----------------------------------------------------------------------------
(* The links once the commands of q are carried out, one after the other:  *)
(* the last command about a link decides, or else the link is as it was.   *)
Resulting(links, q) ==
    {p \in Pair :
        \/ \E i \in 1..Len(q) : /\ p \in Both(q[i].pair) /\ q[i].los
                                /\ \A j \in (i + 1)..Len(q) : p \notin Both(q[j].pair)
        \/ p \in links /\ \A i \in 1..Len(q) : p \notin Both(q[i].pair)}

(* What simphy is asked for is what the waiting commands will make of its  *)
(* links.                                                                  *)
LinksInv == phy => asked = Resulting(los, command)

Command == [pair : Pair, los : BOOLEAN]

(* With no command waiting the links stay. *)
LEMMA NoCommand == ASSUME NEW links \in SUBSET Pair PROVE Resulting(links, <<>>) = links
BY DEF Resulting

(* A command at the end of the queue takes effect after the others. *)
LEMMA LastCommand ==
    ASSUME NEW links \in SUBSET Pair, NEW q \in Seq(Command), NEW c \in Command
    PROVE  Resulting(links, Append(q, c)) = Configured(Resulting(links, q), c)
<1> DEFINE r == Append(q, c)
           n == Len(q)
<1>1. n \in Nat /\ Len(r) = n + 1 /\ r[n + 1] = c /\ \A i \in 1..n : r[i] = q[i]
  OBVIOUS
<1> HIDE DEF r
<1>2. SUFFICES ASSUME NEW p \in Pair
               PROVE  p \in Resulting(links, r) <=> p \in Configured(Resulting(links, q), c)
  <2>1. Resulting(links, r) \subseteq Pair
    BY DEF Resulting
  <2>2. Configured(Resulting(links, q), c) \subseteq Pair
    BY BothFacts DEF Resulting, Configured, Command
  <2> QED BY <1>2, <2>1, <2>2 DEF r
<1>3. CASE p \in Both(c.pair)
  <2>1. p \in Configured(Resulting(links, q), c) <=> c.los
    BY <1>3 DEF Configured
  <2>2. n + 1 \in 1..Len(r) /\ (\A i \in 1..n : n + 1 \in (i + 1)..Len(r))
    BY <1>1
  <2>3. ASSUME c.los PROVE p \in Resulting(links, r)
    BY <1>1, <1>3, <2>2, <2>3 DEF Resulting
  <2>4. ASSUME p \in Resulting(links, r) PROVE c.los
    <3>1. PICK i \in 1..Len(r) : /\ r[i].los
                                 /\ \A j \in (i + 1)..Len(r) : p \notin Both(r[j].pair)
      BY <1>1, <1>3, <2>2, <2>4 DEF Resulting
    <3>2. i \notin 1..n
      BY <1>1, <1>3, <2>2, <3>1
    <3>3. i = n + 1
      BY <1>1, <3>2
    <3> QED BY <1>1, <3>1, <3>3
  <2> QED BY <2>1, <2>3, <2>4
<1>4. CASE p \notin Both(c.pair)
  <2>1. p \in Configured(Resulting(links, q), c) <=> p \in Resulting(links, q)
    BY <1>4 DEF Configured
  <2>2. \A i \in 1..Len(r) : p \in Both(r[i].pair) => i \in 1..n
    BY <1>1, <1>4
  <2>3. 1..n \subseteq 1..Len(r)
    BY <1>1
  <2>4. \A i \in 1..n : (\A j \in (i + 1)..Len(r) : p \notin Both(r[j].pair))
                           <=> (\A j \in (i + 1)..n : p \notin Both(q[j].pair))
    <3>1. \A i \in 1..n : \A j \in (i + 1)..n : j \in (i + 1)..Len(r) /\ j \in 1..n
      BY <1>1
    <3>2. \A i \in 1..n : \A j \in (i + 1)..Len(r) : j \in 1..Len(r)
      BY <1>1
    <3>3. \A i \in 1..n : \A j \in (i + 1)..Len(r) : j \in 1..n => j \in (i + 1)..n
      BY <1>1
    <3> QED BY <1>1, <2>2, <3>1, <3>2, <3>3
  <2>5. (\A i \in 1..Len(r) : p \notin Both(r[i].pair))
            <=> (\A i \in 1..n : p \notin Both(q[i].pair))
    BY <1>1, <2>2, <2>3
  <2>6. (\E i \in 1..Len(r) : /\ p \in Both(r[i].pair) /\ r[i].los
                              /\ \A j \in (i + 1)..Len(r) : p \notin Both(r[j].pair))
            <=> (\E i \in 1..n : /\ p \in Both(q[i].pair) /\ q[i].los
                                 /\ \A j \in (i + 1)..n : p \notin Both(q[j].pair))
    BY <1>1, <2>2, <2>3, <2>4
  <2>7. p \in Resulting(links, r) <=> p \in Resulting(links, q)
    BY <2>5, <2>6 DEF Resulting
  <2> QED BY <2>1, <2>7
<1> QED BY <1>3, <1>4

(* Carrying out the first command changes nothing about the outcome. *)
LEMMA FirstCommand ==
    ASSUME NEW links \in SUBSET Pair, NEW q \in Seq(Command), q # <<>>
    PROVE  Resulting(Configured(links, Head(q)), Tail(q)) = Resulting(links, q)
<1> DEFINE r == Tail(q)
           n == Len(r)
           c == Head(q)
           after == Configured(links, c)
<1>1. /\ n \in Nat /\ Len(q) = n + 1 /\ q[1] = c /\ c \in Command
      /\ \A i \in 1..n : r[i] = q[i + 1]
  OBVIOUS
<1> HIDE DEF r, n, c
<1>2. SUFFICES ASSUME NEW p \in Pair
               PROVE  p \in Resulting(after, r) <=> p \in Resulting(links, q)
  BY <1>2 DEF r, c, Resulting
<1>3. n = Len(r)
  BY DEF n
<1>4. \A i \in 1..n : (\A j \in (i + 1)..n : p \notin Both(r[j].pair))
                         <=> (\A j \in (i + 2)..Len(q) : p \notin Both(q[j].pair))
  <2>1. \A i \in 1..n : \A j \in (i + 1)..n : j \in 1..n /\ j + 1 \in (i + 2)..Len(q)
    BY <1>1
  <2>2. \A i \in 1..n : \A j \in (i + 2)..Len(q) : j - 1 \in (i + 1)..n /\ r[j - 1] = q[j]
    BY <1>1
  <2> QED BY <1>1, <2>1, <2>2
<1>5. ASSUME p \in Resulting(after, r) PROVE p \in Resulting(links, q)
  <2>1. CASE \E i \in 1..n : /\ p \in Both(r[i].pair) /\ r[i].los
                             /\ \A j \in (i + 1)..n : p \notin Both(r[j].pair)
    <3>1. PICK i \in 1..n : /\ p \in Both(r[i].pair) /\ r[i].los
                            /\ \A j \in (i + 1)..n : p \notin Both(r[j].pair)
      BY <2>1
    <3>2. i + 1 \in 1..Len(q) /\ (i + 1) + 1 = i + 2 /\ r[i] = q[i + 1]
      BY <1>1
    <3>3. \A j \in ((i + 1) + 1)..Len(q) : p \notin Both(q[j].pair)
      BY <1>4, <3>1, <3>2
    <3> QED BY <3>1, <3>2, <3>3 DEF Resulting
  <2>2. CASE p \in after /\ \A i \in 1..n : p \notin Both(r[i].pair)
    <3>1. \A j \in 2..Len(q) : j - 1 \in 1..n /\ r[j - 1] = q[j]
      BY <1>1
    <3>2. \A j \in 2..Len(q) : p \notin Both(q[j].pair)
      BY <2>2, <3>1
    <3>3. 1 \in 1..Len(q) /\ 1 + 1 = 2 /\ \A i \in 1..Len(q) : i = 1 \/ i \in 2..Len(q)
      BY <1>1
    <3>4. CASE p \in Both(c.pair)
      BY <1>1, <2>2, <3>2, <3>3, <3>4 DEF Configured, Resulting
    <3>5. CASE p \notin Both(c.pair)
      BY <1>1, <2>2, <3>2, <3>3, <3>5 DEF Configured, Resulting
    <3> QED BY <3>4, <3>5
  <2> QED BY <1>3, <1>5, <2>1, <2>2 DEF Resulting
<1>6. ASSUME p \in Resulting(links, q) PROVE p \in Resulting(after, r)
  <2>1. CASE \E i \in 1..Len(q) : /\ p \in Both(q[i].pair) /\ q[i].los
                                  /\ \A j \in (i + 1)..Len(q) : p \notin Both(q[j].pair)
    <3>1. PICK i \in 1..Len(q) : /\ p \in Both(q[i].pair) /\ q[i].los
                                 /\ \A j \in (i + 1)..Len(q) : p \notin Both(q[j].pair)
      BY <2>1
    <3>2. CASE i = 1
      <4>1. \A k \in 1..n : k + 1 \in (i + 1)..Len(q) /\ r[k] = q[k + 1]
        BY <1>1, <3>2
      <4>2. \A k \in 1..n : p \notin Both(r[k].pair)
        BY <3>1, <4>1
      <4>3. p \in after
        BY <1>1, <3>1, <3>2 DEF Configured
      <4> QED BY <1>3, <4>2, <4>3 DEF Resulting
    <3>3. CASE i # 1
      <4>1. i - 1 \in 1..n /\ (i - 1) + 2 = i + 1 /\ r[i - 1] = q[i]
        BY <1>1, <3>3
      <4>2. \A j \in ((i - 1) + 1)..n : p \notin Both(r[j].pair)
        BY <1>4, <3>1, <4>1
      <4> QED BY <1>3, <3>1, <4>1, <4>2 DEF Resulting
    <3> QED BY <3>2, <3>3
  <2>2. CASE p \in links /\ \A i \in 1..Len(q) : p \notin Both(q[i].pair)
    <3>1. \A k \in 1..n : k + 1 \in 1..Len(q) /\ r[k] = q[k + 1]
      BY <1>1
    <3>2. 1 \in 1..Len(q)
      BY <1>1
    <3>3. p \in after /\ \A k \in 1..n : p \notin Both(r[k].pair)
      BY <1>1, <2>2, <3>1, <3>2 DEF Configured
    <3> QED BY <1>3, <3>3 DEF Resulting
  <2> QED BY <1>6, <2>1, <2>2 DEF Resulting
<1> QED BY <1>5, <1>6

(* A step keeps the links on their way to what is asked for. *)
LEMMA NextLinks == ASSUME TypeOK, LinksInv, [Next]_vars PROVE LinksInv'
<1>1. command \in Seq(Command) /\ los \in SUBSET Pair
  BY DEF TypeOK, Command
<1>2. CASE StartSimulation
  BY <1>2 DEF StartSimulation, LinksInv
<1>3. CASE PhyStart
  <2>1. asked' = Pair /\ los' = Pair /\ command' = <<>>
    BY <1>3 DEF PhyStart
  <2> QED BY <2>1, NoCommand DEF LinksInv
<1>4. ASSUME NEW p \in Pair, NEW on \in BOOLEAN, SendLinkConfig(p, on) PROVE LinksInv'
  <2> DEFINE c == [pair |-> p, los |-> on]
  <2>1. /\ command' = Enqueued(command, CommandCap, c) /\ los' = los /\ phy' = phy /\ c \in Command
        /\ asked' = IF ~phy \/ command' = command THEN asked
                    ELSE IF on THEN asked \cup Both(p) ELSE asked \ Both(p)
    BY <1>4 DEF SendLinkConfig, Command
  <2>2. SUFFICES ASSUME phy PROVE asked' = Resulting(los, command')
    BY <2>1, <2>2 DEF LinksInv
  <2>3. asked = Resulting(los, command)
    BY <2>2 DEF LinksInv
  <2>4. CASE command' = command
    BY <2>1, <2>3, <2>4
  <2>5. CASE command' # command
    <3>1. command' = Append(command, c)
      BY <2>1, <2>5 DEF Enqueued
    <3>2. asked' = Configured(asked, c)
      BY <2>1, <2>2, <2>5 DEF Configured
    <3> QED BY <1>1, <2>1, <2>3, <3>1, <3>2, LastCommand
  <2> QED BY <2>4, <2>5
<1>5. CASE PhyCommand
  <2>1. /\ phy /\ command # <<>> /\ los' = Configured(los, Head(command))
        /\ command' = Tail(command) /\ asked' = asked /\ phy' = phy
    BY <1>5 DEF PhyCommand
  <2> QED BY <1>1, <2>1, FirstCommand DEF LinksInv
<1>6. CASE UNCHANGED <<phy, asked, los, command>>
  BY <1>6 DEF LinksInv
<1>7. ASSUME NEW n \in Node,
             NetStart(n) \/ MacStart(n) \/ NetSend(n) \/ PhyRecv(n) \/ NetRecv(n)
      PROVE  UNCHANGED <<phy, asked, los, command>>
  BY <1>7 DEF NetStart, MacStart, NetSend, PhyRecv, NetRecv
<1>8. ASSUME NEW n \in Node, NEW from, NEW to, MacPasses(n, from, to)
      PROVE  UNCHANGED <<phy, asked, los, command>>
  BY <1>8 DEF MacPasses
<1>9. CASE UNCHANGED vars
  BY <1>6, <1>9 DEF vars
<1> QED BY <1>2, <1>3, <1>4, <1>5, <1>6, <1>7, <1>8, <1>9 DEF Next

(* Whatever the order in which LinkInfo is sent, commands are carried out  *)
(* and simphy is restarted: with no command left, the links of simphy are  *)
(* the ones it was asked for.                                              *)
THEOREM LinksFollowCommands == Spec => []LinksAsAsked
<1>1. Init => LinksInv
  BY DEF Init, LinksInv
<1>2. TypeOK /\ LinksInv /\ [Next]_vars => LinksInv'
  BY NextLinks
<1>3. TypeOK /\ LinksInv => LinksAsAsked
  BY NoCommand DEF TypeOK, LinksInv, LinksAsAsked
<1> QED BY <1>1, <1>2, <1>3, QueuesTyped, PTL DEF Spec
=============================================================================
