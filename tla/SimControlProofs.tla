-------------------------- MODULE SimControlProofs --------------------------
(***************************************************************************)
(* Commands for traffic streams, for any number of nodes and streams and   *)
(* any queue size: a stream ends up with the node that was asked, and only *)
(* known ways start one that runs.  What a node runs is compared with what *)
(* was asked through the commands that still wait for it.                  *)
(***************************************************************************)
EXTENDS SimControl, TLAPS

(* Whether stream c runs after the first k commands of q at a node that    *)
(* runs the streams of run before them: the last command about it decides. *)
RunsAfter(q, run, c, k) ==
    \/ \E i \in 1..k : /\ q[i].conf = c /\ q[i].type # "UNSET"
                       /\ \A j \in (i + 1)..k : q[j].conf # c
    \/ c \in run /\ \A i \in 1..k : q[i].conf # c

(* A node n in state p that runs the streams of run agrees, by the time    *)
(* the commands of q have been executed, with the node a that is asked for *)
(* stream c: it runs the stream only if it is a, it does if it is and no   *)
(* command was or is going to be flushed, and no SET meets a stream that   *)
(* runs unless it is one of ag, started while they were asked for.  lo is  *)
(* what became of the commands so far.                                     *)
Agrees(p, q, run, a, lo, ag, n, c) ==
    /\ p = "up" /\ RunsAfter(q, run, c, Len(q)) => a = n
    /\ lo = "no" /\ a = n =>
          /\ p = "up" => RunsAfter(q, run, c, Len(q))
          /\ p # "up" => c \in Confs(q)
    /\ p = "up" /\ c \notin ag => \A k \in 1..Len(q) :
          q[k].conf = c /\ q[k].type = "SET" => ~RunsAfter(q, run, c, k - 1)

StreamTypes ==
    /\ proc \in [Node -> {"none", "forked", "up"}]
    /\ src_id \in [Conf -> Node]
    /\ command \in [Node -> Seq(Command)]
    /\ running \in [Node -> SUBSET Conf]
    /\ asked \in [Conf -> Node \cup {None}]
    /\ lost \in [Conf -> {"no", "flushed", "full"}]
    /\ moved \subseteq Conf /\ again \subseteq Conf /\ twice \subseteq Conf

(* A process that does not run sends nothing, and what is asked for is     *)
(* asked of the node the simulator has noted, unless that was changed.     *)
NotedInv ==
    /\ \A n \in Node : proc[n] # "up" => running[n] = {}
    /\ \A c \in Conf : c \notin moved => asked[c] \in {None, src_id[c]}

StreamInv ==
    \A c \in Conf, n \in Node :
       lost[c] # "full" /\ c \notin moved =>
          Agrees(proc[n], command[n], running[n], asked[c], lost[c], again, n, c)

IInv == StreamTypes /\ NotedInv /\ StreamInv /\ NoDoubleStart
-----------------------------------------------------------------------------
(* Before any command a node runs what it runs. *)
LEMMA RunsNow == \A q, run, c : RunsAfter(q, run, c, 0) <=> c \in run
BY DEF RunsAfter

(* A command at the end of the queue decides about its own stream. *)
LEMMA RunsAppend ==
    ASSUME NEW q \in Seq(Command), NEW m \in Command, NEW run, NEW c
    PROVE  /\ \A k \in 0..Len(q) : RunsAfter(Append(q, m), run, c, k) <=> RunsAfter(q, run, c, k)
           /\ m.conf = c => (RunsAfter(Append(q, m), run, c, Len(q) + 1) <=> m.type # "UNSET")
           /\ m.conf # c => (RunsAfter(Append(q, m), run, c, Len(q) + 1)
                                <=> RunsAfter(q, run, c, Len(q)))
<1> DEFINE r == Append(q, m)
           n == Len(q)
<1>1. n \in Nat /\ Len(r) = n + 1 /\ r[n + 1] = m /\ \A i \in 1..n : r[i] = q[i]
  OBVIOUS
<1> HIDE DEF r, n
<1>2. ASSUME NEW k \in 0..n PROVE RunsAfter(r, run, c, k) <=> RunsAfter(q, run, c, k)
  <2>1. \A i \in 1..k : i \in 1..n /\ (\A j \in (i + 1)..k : j \in 1..n)
    BY <1>1
  <2> QED BY <1>1, <2>1 DEF RunsAfter
<1>3. ASSUME m.conf = c PROVE RunsAfter(r, run, c, n + 1) <=> m.type # "UNSET"
  <2>1. n + 1 \in 1..(n + 1) /\ (\A i \in 1..n : n + 1 \in (i + 1)..(n + 1))
    BY <1>1
  <2>2. \A i \in 1..(n + 1) : i \in 1..n \/ i = n + 1
    BY <1>1
  <2>3. \A j \in ((n + 1) + 1)..(n + 1) : FALSE
    BY <1>1
  <2> QED BY <1>1, <1>3, <2>1, <2>2, <2>3 DEF RunsAfter
<1>4. ASSUME m.conf # c PROVE RunsAfter(r, run, c, n + 1) <=> RunsAfter(r, run, c, n)
  <2>1. \A i \in 1..(n + 1) : r[i].conf = c => i \in 1..n
    BY <1>1, <1>4
  <2>2. \A i \in 1..n : i \in 1..(n + 1)
    BY <1>1
  <2>3. \A i \in 1..n : \A j \in (i + 1)..(n + 1) : j \in (i + 1)..n \/ j = n + 1
    BY <1>1
  <2>4. \A i \in 1..n : \A j \in (i + 1)..n : j \in (i + 1)..(n + 1)
    BY <1>1
  <2> QED BY <1>1, <1>4, <2>1, <2>2, <2>3, <2>4 DEF RunsAfter
<1>5. n \in 0..n
  BY <1>1
<1> QED BY <1>2, <1>3, <1>4, <1>5 DEF r, n

(* Executing the first command changes nothing about the outcome. *)
LEMMA RunsTail ==
    ASSUME NEW q \in Seq(Command), q # <<>>, NEW run, NEW after, NEW c,
           Head(q).conf = c => (c \in after <=> Head(q).type # "UNSET"),
           Head(q).conf # c => (c \in after <=> c \in run),
           NEW k \in 0..(Len(q) - 1)
    PROVE  RunsAfter(Tail(q), after, c, k) <=> RunsAfter(q, run, c, k + 1)
<1> DEFINE r == Tail(q)
           n == Len(q)
           m == Head(q)
<1>1. n \in Nat /\ k \in Nat /\ k < n /\ q[1] = m /\ \A i \in 1..k : r[i] = q[i + 1]
  OBVIOUS
<1> HIDE DEF r, n, m
<1>2. \A i \in 1..(k + 1) : i = 1 \/ (i - 1 \in 1..k /\ r[i - 1] = q[i])
  BY <1>1
<1>3. \A i \in 1..k : i + 1 \in 1..(k + 1) /\ i + 1 \in (1 + 1)..(k + 1)
  BY <1>1
<1>4. \A i \in 1..k : (\A j \in (i + 1)..k : r[j].conf # c)
                         <=> (\A j \in ((i + 1) + 1)..(k + 1) : q[j].conf # c)
  <2>1. \A i \in 1..k : \A j \in (i + 1)..k : j \in 1..k /\ j + 1 \in ((i + 1) + 1)..(k + 1)
    BY <1>1
  <2>2. \A i \in 1..k : \A j \in ((i + 1) + 1)..(k + 1) : j - 1 \in (i + 1)..k /\ r[j - 1] = q[j]
    BY <1>1
  <2> QED BY <1>1, <2>1, <2>2
<1>5. (\A i \in 1..k : r[i].conf # c) <=> (\A j \in (1 + 1)..(k + 1) : q[j].conf # c)
  <2>1. \A j \in (1 + 1)..(k + 1) : j - 1 \in 1..k /\ r[j - 1] = q[j]
    BY <1>1
  <2> QED BY <1>1, <1>3, <2>1
<1>6. 1 \in 1..(k + 1)
  BY <1>1
<1>7. ASSUME RunsAfter(r, after, c, k) PROVE RunsAfter(q, run, c, k + 1)
  <2>1. CASE \E i \in 1..k : /\ r[i].conf = c /\ r[i].type # "UNSET"
                             /\ \A j \in (i + 1)..k : r[j].conf # c
    BY <1>1, <1>3, <1>4, <2>1 DEF RunsAfter
  <2>2. CASE c \in after /\ \A i \in 1..k : r[i].conf # c
    <3>1. \A j \in (1 + 1)..(k + 1) : q[j].conf # c
      BY <1>5, <2>2
    <3>2. CASE m.conf = c
      <4>1. q[1].conf = c /\ q[1].type # "UNSET"
        BY <1>1, <2>2, <3>2 DEF m
      <4> QED BY <1>6, <3>1, <4>1 DEF RunsAfter
    <3>3. CASE m.conf # c
      <4>1. \A i \in 1..(k + 1) : i = 1 \/ i \in (1 + 1)..(k + 1)
        BY <1>1
      <4>2. c \in run
        BY <2>2, <3>3 DEF m
      <4> QED BY <1>1, <3>1, <3>3, <4>1, <4>2 DEF RunsAfter
    <3> QED BY <3>2, <3>3
  <2> QED BY <1>7, <2>1, <2>2 DEF RunsAfter
<1>8. ASSUME RunsAfter(q, run, c, k + 1) PROVE RunsAfter(r, after, c, k)
  <2>1. CASE \E i \in 1..(k + 1) : /\ q[i].conf = c /\ q[i].type # "UNSET"
                                   /\ \A j \in (i + 1)..(k + 1) : q[j].conf # c
    <3>1. PICK i \in 1..(k + 1) : /\ q[i].conf = c /\ q[i].type # "UNSET"
                                  /\ \A j \in (i + 1)..(k + 1) : q[j].conf # c
      BY <2>1
    <3>2. CASE i = 1
      <4>1. c \in after
        BY <1>1, <3>1, <3>2 DEF m
      <4>2. \A j \in 1..k : r[j].conf # c
        BY <1>5, <3>1, <3>2
      <4> QED BY <4>1, <4>2 DEF RunsAfter
    <3>3. CASE i # 1
      <4>1. i - 1 \in 1..k /\ r[i - 1] = q[i] /\ (i - 1) + 1 = i
        BY <1>1, <1>2, <3>3
      <4>2. \A j \in ((i - 1) + 1)..k : r[j].conf # c
        BY <1>4, <3>1, <4>1
      <4> QED BY <3>1, <4>1, <4>2 DEF RunsAfter
    <3> QED BY <3>2, <3>3
  <2>2. CASE c \in run /\ \A i \in 1..(k + 1) : q[i].conf # c
    <3>1. m.conf # c
      BY <1>1, <1>6, <2>2
    <3>2. c \in after
      BY <2>2, <3>1 DEF m
    <3>3. \A i \in 1..k : r[i].conf # c
      BY <1>1, <1>3, <2>2
    <3> QED BY <3>2, <3>3 DEF RunsAfter
  <2> QED BY <1>8, <2>1, <2>2 DEF RunsAfter
<1> QED BY <1>7, <1>8 DEF r
-----------------------------------------------------------------------------
(* The streams of a queue, as it grows. *)
LEMMA ConfsAppend ==
    ASSUME NEW q \in Seq(Command), NEW m \in Command
    PROVE  Confs(Append(q, m)) = Confs(q) \cup {m.conf}
<1>1. /\ DOMAIN q = 1..Len(q) /\ DOMAIN Append(q, m) = 1..(Len(q) + 1) /\ Len(q) \in Nat
      /\ Append(q, m)[Len(q) + 1] = m /\ \A i \in 1..Len(q) : Append(q, m)[i] = q[i]
  OBVIOUS
<1>2. 1..(Len(q) + 1) = 1..Len(q) \cup {Len(q) + 1}
  BY <1>1
<1> QED BY <1>1, <1>2 DEF Confs

(* A node that is not asked before or after goes on agreeing. *)
LEMMA AgreesElsewhere ==
    ASSUME NEW p, NEW q, NEW run, NEW a, NEW b, NEW lo, NEW lo2, NEW ag, NEW n, NEW c,
           NEW ag2, ag \subseteq ag2, Agrees(p, q, run, a, lo, ag, n, c), a # n, b # n
    PROVE  Agrees(p, q, run, b, lo2, ag2, n, c)
BY DEF Agrees

(* The more streams are started while asked for, the less is promised. *)
LEMMA AgreesWider ==
    ASSUME NEW p, NEW q, NEW run, NEW a, NEW lo, NEW ag, NEW n, NEW c,
           NEW ag2, ag \subseteq ag2, Agrees(p, q, run, a, lo, ag, n, c)
    PROVE  Agrees(p, q, run, a, lo, ag2, n, c)
BY DEF Agrees

(* A command about another stream. *)
LEMMA AgreesOther ==
    ASSUME NEW p, NEW q \in Seq(Command), NEW run, NEW a, NEW lo, NEW ag, NEW n, NEW c,
           NEW m \in Command, m.conf # c, Agrees(p, q, run, a, lo, ag, n, c)
    PROVE  Agrees(p, Append(q, m), run, a, lo, ag, n, c)
<1> DEFINE r == Append(q, m)
<1>1. Len(q) \in Nat /\ Len(r) = Len(q) + 1 /\ r[Len(q) + 1] = m
      /\ \A i \in 1..Len(q) : r[i] = q[i]
  OBVIOUS
<1> HIDE DEF r
<1>2. RunsAfter(r, run, c, Len(r)) <=> RunsAfter(q, run, c, Len(q))
  BY <1>1, RunsAppend DEF r
<1>3. \A k \in 1..Len(q) : RunsAfter(r, run, c, k - 1) <=> RunsAfter(q, run, c, k - 1)
  <2>1. \A k \in 1..Len(q) : k - 1 \in 0..Len(q)
    BY <1>1
  <2> QED BY <2>1, RunsAppend DEF r
<1>4. \A k \in 1..Len(r) : r[k].conf = c => k \in 1..Len(q)
  BY <1>1
<1>5. c \in Confs(q) => c \in Confs(r)
  BY ConfsAppend DEF r
<1>6. Agrees(p, r, run, a, lo, ag, n, c)
  BY <1>1, <1>2, <1>3, <1>4, <1>5 DEF Agrees
<1> QED BY <1>6 DEF r

(* A start or an update for the node: it is the one to send now. *)
LEMMA AgreesStart ==
    ASSUME NEW p, NEW q \in Seq(Command), NEW run, NEW a, NEW lo, NEW ag, NEW n, NEW c,
           NEW m \in Command, m.conf = c, m.type # "UNSET",
           NEW ag2, ag \subseteq ag2, m.type = "SET" /\ c \notin ag2 => a # n,
           Agrees(p, q, run, a, lo, ag, n, c)
    PROVE  Agrees(p, Append(q, m), run, n, "no", ag2, n, c)
<1> DEFINE r == Append(q, m)
<1>1. Len(q) \in Nat /\ Len(r) = Len(q) + 1 /\ r[Len(q) + 1] = m
      /\ \A i \in 1..Len(q) : r[i] = q[i]
  OBVIOUS
<1> HIDE DEF r
<1>2. RunsAfter(r, run, c, Len(r))
  <2>1. RunsAfter(r, run, c, Len(q) + 1) <=> m.type # "UNSET"
    BY RunsAppend DEF r
  <2> QED BY <1>1, <2>1
<1>3. \A k \in 1..(Len(q) + 1) : RunsAfter(r, run, c, k - 1) <=> RunsAfter(q, run, c, k - 1)
  <2>1. \A k \in 1..(Len(q) + 1) : k - 1 \in 0..Len(q)
    BY <1>1
  <2> QED BY <2>1, RunsAppend DEF r
<1>4. \A k \in 1..Len(r) : k \in 1..Len(q) \/ (k = Len(q) + 1 /\ k - 1 = Len(q))
  BY <1>1
<1>5. ASSUME p = "up", c \notin ag2, NEW k \in 1..Len(r), r[k].conf = c, r[k].type = "SET"
      PROVE  ~RunsAfter(r, run, c, k - 1)
  <2>1. CASE k \in 1..Len(q)
    BY <1>1, <1>3, <1>5, <2>1 DEF Agrees
  <2>2. CASE k = Len(q) + 1 /\ k - 1 = Len(q)
    <3>1. a # n
      BY <1>1, <1>5, <2>2
    <3>2. ~RunsAfter(q, run, c, k - 1)
      BY <1>5, <2>2, <3>1 DEF Agrees
    <3> QED BY <1>1, <1>3, <3>2
  <2> QED BY <1>4, <2>1, <2>2
<1>6. c \in Confs(r)
  BY ConfsAppend DEF r
<1>7. Agrees(p, r, run, n, "no", ag2, n, c)
  BY <1>2, <1>5, <1>6 DEF Agrees
<1> QED BY <1>7 DEF r

(* A stop for the node: it is not to send any more. *)
LEMMA AgreesStop ==
    ASSUME NEW p, NEW q \in Seq(Command), NEW run, NEW a, NEW b,
           NEW lo, NEW lo2, NEW ag, NEW n, NEW c,
           NEW m \in Command, m.conf = c, m.type = "UNSET", b # n,
           Agrees(p, q, run, a, lo, ag, n, c)
    PROVE  Agrees(p, Append(q, m), run, b, lo2, ag, n, c)
<1> DEFINE r == Append(q, m)
<1>1. Len(q) \in Nat /\ Len(r) = Len(q) + 1 /\ r[Len(q) + 1] = m
      /\ \A i \in 1..Len(q) : r[i] = q[i]
  OBVIOUS
<1> HIDE DEF r
<1>2. ~RunsAfter(r, run, c, Len(r))
  <2>1. RunsAfter(r, run, c, Len(q) + 1) <=> m.type # "UNSET"
    BY RunsAppend DEF r
  <2> QED BY <1>1, <2>1
<1>3. \A k \in 1..Len(q) : RunsAfter(r, run, c, k - 1) <=> RunsAfter(q, run, c, k - 1)
  <2>1. \A k \in 1..Len(q) : k - 1 \in 0..Len(q)
    BY <1>1
  <2> QED BY <2>1, RunsAppend DEF r
<1>4. \A k \in 1..Len(r) : r[k].type = "SET" => k \in 1..Len(q)
  BY <1>1
<1>5. Agrees(p, r, run, b, lo2, ag, n, c)
  BY <1>1, <1>2, <1>3, <1>4 DEF Agrees
<1> QED BY <1>5 DEF r

(* The node executes its first command. *)
LEMMA AgreesTail ==
    ASSUME NEW q \in Seq(Command), q # <<>>, NEW run, NEW after,
           NEW a, NEW lo, NEW ag, NEW n, NEW c,
           Head(q).conf = c => (c \in after <=> Head(q).type # "UNSET"),
           Head(q).conf # c => (c \in after <=> c \in run),
           Agrees("up", q, run, a, lo, ag, n, c)
    PROVE  Agrees("up", Tail(q), after, a, lo, ag, n, c)
<1> DEFINE r == Tail(q)
<1>1. Len(q) \in Nat /\ Len(r) = Len(q) - 1 /\ Len(r) \in Nat
      /\ \A i \in 1..Len(r) : r[i] = q[i + 1]
  OBVIOUS
<1>2. \A k \in 0..Len(r) : RunsAfter(r, after, c, k) <=> RunsAfter(q, run, c, k + 1)
  BY <1>1, RunsTail
<1> HIDE DEF r
<1>3. RunsAfter(r, after, c, Len(r)) <=> RunsAfter(q, run, c, Len(q))
  BY <1>1, <1>2
<1>4. ASSUME c \notin ag, NEW k \in 1..Len(r), r[k].conf = c, r[k].type = "SET"
      PROVE  ~RunsAfter(r, after, c, k - 1)
  <2>1. k + 1 \in 1..Len(q) /\ k - 1 \in 0..Len(r) /\ (k + 1) - 1 = (k - 1) + 1
    BY <1>1
  <2>2. ~RunsAfter(q, run, c, (k + 1) - 1)
    BY <1>1, <1>4, <2>1 DEF Agrees
  <2> QED BY <1>2, <2>1, <2>2
<1>5. Agrees("up", r, after, a, lo, ag, n, c)
  BY <1>3, <1>4 DEF Agrees
<1> QED BY <1>5 DEF r

(* The node starts and flushes its queue. *)
LEMMA AgreesInit ==
    ASSUME NEW p, p # "up", NEW q, NEW a, NEW lo, NEW ag, NEW n, NEW c,
           Agrees(p, q, {}, a, lo, ag, n, c),
           NEW lo2, lo2 = "no" => lo = "no" /\ c \notin Confs(q)
    PROVE  Agrees("up", <<>>, {}, a, lo2, ag, n, c)
<1>1. ~RunsAfter(<<>>, {}, c, Len(<<>>))
  BY RunsNow
<1> QED BY <1>1 DEF Agrees
-----------------------------------------------------------------------------
(* send_mq adds the command at the end, or loses it; recv_mq takes the     *)
(* first.                                                                  *)
LEMMA CommandQueue ==
    ASSUME NEW q \in Seq(Command)
    PROVE  /\ \A m \in Command : Sent(q, m) \in Seq(Command)
           /\ \A m \in Command : ~Full(q) => Sent(q, m) = Append(q, m)
           /\ \A m \in Command : Full(q) => Sent(q, m) = q
           /\ q # <<>> => Head(q) \in Command /\ Tail(q) \in Seq(Command)
<1>1. \A m \in Command : Append(q, m) \in Seq(Command)
  OBVIOUS
<1>2. q # <<>> => Head(q) \in Command /\ Tail(q) \in Seq(Command)
  OBVIOUS
<1> QED BY <1>1, <1>2 DEF Sent

(* A command for another stream, sent or lost. *)
LEMMA AgreesSent ==
    ASSUME NEW p, NEW q \in Seq(Command), NEW run, NEW a, NEW lo, NEW ag, NEW n, NEW c,
           NEW m \in Command, m.conf # c, Agrees(p, q, run, a, lo, ag, n, c)
    PROVE  Agrees(p, Sent(q, m), run, a, lo, ag, n, c)
<1>1. CASE Full(q)
  <2>1. Sent(q, m) = q
    BY <1>1 DEF Sent
  <2> QED BY <2>1
<1>2. CASE ~Full(q)
  <2>1. Sent(q, m) = Append(q, m)
    BY <1>2 DEF Sent
  <2>2. Agrees(p, Append(q, m), run, a, lo, ag, n, c)
    BY AgreesOther
  <2> QED BY <2>1, <2>2
<1> QED BY <1>1, <1>2

(* The simulator has no stream to send yet. *)
LEMMA InitInv == Init => IInv
<1> SUFFICES ASSUME Init PROVE IInv
  OBVIOUS
<1>1. 0 \in Node /\ None \notin Node
  BY ControlAssumption DEF Node, None
<1>2. StreamTypes
  BY <1>1 DEF Init, StreamTypes
<1>3. NotedInv
  BY DEF Init, NotedInv
<1>4. ASSUME NEW c \in Conf, NEW n \in Node
      PROVE  Agrees(proc[n], command[n], running[n], asked[c], lost[c], again, n, c)
  <2>1. /\ command[n] = <<>> /\ running[n] = {} /\ asked[c] = None /\ proc[n] # "up"
    BY DEF Init
  <2> QED BY <1>1, <2>1 DEF Agrees
<1>5. NoDoubleStart
  BY DEF Init, NoDoubleStart
<1> QED BY <1>2, <1>3, <1>4, <1>5 DEF IInv, StreamInv

(* A new simulation: no process is up, no stream asked for. *)
LEMMA StartStep == ASSUME IInv, NEW k \in 0..N, Start(k) PROVE IInv'
<1>1. /\ proc' = [n \in Node |-> IF n < k THEN "forked" ELSE "none"]
      /\ running' = [n \in Node |-> {}]
      /\ asked' = [c \in Conf |-> None] /\ lost' = [c \in Conf |-> "no"]
      /\ moved' = {} /\ again' = {} /\ twice' = {} /\ src_id' = src_id /\ command' = command
  BY DEF Start
<1>2. None \notin Node
  BY ControlAssumption DEF Node, None
<1>3. StreamTypes'
  BY <1>1 DEF IInv, StreamTypes
<1>4. NotedInv' /\ NoDoubleStart'
  BY <1>1 DEF NotedInv, NoDoubleStart
<1>5. ASSUME NEW c \in Conf, NEW n \in Node
      PROVE  Agrees(proc'[n], command'[n], running'[n], asked'[c], lost'[c], again', n, c)
  BY <1>1, <1>2 DEF Agrees
<1> QED BY <1>3, <1>4, <1>5 DEF IInv, StreamInv

(* simnet_init_mq of a node: it runs nothing yet. *)
LEMMA NodeInitStep == ASSUME IInv, NEW n \in Node, NodeInit(n) PROVE IInv'
<1>1. /\ proc[n] = "forked" /\ proc' = [proc EXCEPT ![n] = "up"]
      /\ lost' = [c \in Conf |-> IF lost[c] = "no" /\ c \in Confs(command[n])
                                 THEN "flushed" ELSE lost[c]]
      /\ command' = [command EXCEPT ![n] = <<>>]
      /\ UNCHANGED <<src_id, running, asked, moved, again, twice>>
  BY DEF NodeInit
<1>2. running[n] = {}
  BY <1>1 DEF IInv, NotedInv
<1>3. StreamTypes'
  BY <1>1 DEF IInv, StreamTypes
<1>4. NotedInv'
  BY <1>1 DEF IInv, NotedInv, StreamTypes
<1>5. NoDoubleStart'
  BY <1>1 DEF IInv, NoDoubleStart, StreamTypes
<1>6. ASSUME NEW c \in Conf, NEW m \in Node, lost'[c] # "full", c \notin moved'
      PROVE  Agrees(proc'[m], command'[m], running'[m], asked'[c], lost'[c], again', m, c)
  <2>1. Agrees(proc[m], command[m], running[m], asked[c], lost[c], again, m, c)
    BY <1>1, <1>6 DEF IInv, StreamInv
  <2>2. CASE m = n
    <3>1. proc'[m] = "up" /\ command'[m] = <<>> /\ running'[m] = {} /\ asked'[c] = asked[c]
      BY <1>1, <1>2, <2>2 DEF IInv, StreamTypes
    <3>2. lost'[c] = "no" => lost[c] = "no" /\ c \notin Confs(command[m])
      BY <1>1, <2>2
    <3>3. proc[m] # "up" /\ Agrees(proc[m], command[m], {}, asked[c], lost[c], again, m, c)
      BY <1>1, <1>2, <2>1, <2>2
    <3>4. Agrees("up", <<>>, {}, asked[c], lost'[c], again', m, c)
      BY <1>1, <3>2, <3>3, AgreesInit
    <3> QED BY <3>1, <3>4
  <2>3. CASE m # n
    <3>1. proc'[m] = proc[m] /\ command'[m] = command[m] /\ running'[m] = running[m]
          /\ asked'[c] = asked[c]
      BY <1>1, <2>3 DEF IInv, StreamTypes
    <3>2. lost'[c] = lost[c] \/ lost'[c] = "flushed"
      BY <1>1
    <3>3. Agrees(proc[m], command[m], running[m], asked[c], lost'[c], again', m, c)
      BY <1>1, <2>1, <3>2 DEF Agrees
    <3> QED BY <3>1, <3>3
  <2> QED BY <2>2, <2>3
<1> QED BY <1>3, <1>4, <1>5, <1>6 DEF IInv, StreamInv

(* process_command: the first command of an agreeing queue. *)
LEMMA RecvCommandStep == ASSUME IInv, NEW n \in Node, RecvCommand(n) PROVE IInv'
<1> DEFINE m == Head(command[n])
           after == IF m.type = "UNSET" THEN running[n] \ {m.conf} ELSE running[n] \cup {m.conf}
<1>1. /\ proc[n] = "up" /\ command[n] # <<>>
      /\ running' = [running EXCEPT ![n] = after]
      /\ twice' = IF m.type = "SET" /\ m.conf \in running[n] THEN twice \cup {m.conf} ELSE twice
      /\ command' = [command EXCEPT ![n] = Tail(command[n])]
      /\ UNCHANGED <<proc, src_id, asked, lost, moved, again>>
  BY DEF RecvCommand, ProcessCommand
<1>2. command[n] \in Seq(Command)
  BY DEF IInv, StreamTypes
<1>3. m \in Command /\ Tail(command[n]) \in Seq(Command) /\ m.conf \in Conf
  BY <1>1, <1>2, CommandQueue DEF Command
<1> HIDE DEF m
<1>4. StreamTypes'
  BY <1>1, <1>3 DEF IInv, StreamTypes
<1>5. NotedInv'
  BY <1>1 DEF IInv, NotedInv, StreamTypes
<1>6. ASSUME m.type = "SET", m.conf \in running[n]
      PROVE  m.conf \in again \/ lost[m.conf] = "full" \/ m.conf \in moved
  <2>1. SUFFICES ASSUME m.conf \notin again, lost[m.conf] # "full", m.conf \notin moved PROVE FALSE
    OBVIOUS
  <2>2. Agrees(proc[n], command[n], running[n], asked[m.conf], lost[m.conf], again, n, m.conf)
    BY <1>3, <2>1 DEF IInv, StreamInv
  <2>3. 1 \in 1..Len(command[n]) /\ command[n][1] = m
    BY <1>1, <1>2 DEF m
  <2>4. ~RunsAfter(command[n], running[n], m.conf, 1 - 1)
    BY <1>1, <1>6, <2>1, <2>2, <2>3 DEF Agrees
  <2> QED BY <1>6, <2>4, RunsNow
<1>7. NoDoubleStart'
  BY <1>1, <1>6 DEF IInv, NoDoubleStart
<1>8. ASSUME NEW c \in Conf, NEW k \in Node, lost'[c] # "full", c \notin moved'
      PROVE  Agrees(proc'[k], command'[k], running'[k], asked'[c], lost'[c], again', k, c)
  <2>1. Agrees(proc[k], command[k], running[k], asked[c], lost[c], again, k, c)
    BY <1>1, <1>8 DEF IInv, StreamInv
  <2>2. CASE k = n
    <3>1. proc'[k] = "up" /\ command'[k] = Tail(command[k]) /\ running'[k] = after
      BY <1>1, <2>2 DEF IInv, StreamTypes
    <3>2. /\ Head(command[k]).conf = c => (c \in after <=> Head(command[k]).type # "UNSET")
          /\ Head(command[k]).conf # c => (c \in after <=> c \in running[k])
      BY <2>2 DEF m
    <3> HIDE DEF after
    <3>3. Agrees("up", Tail(command[k]), after, asked[c], lost[c], again, k, c)
      BY <1>1, <1>2, <2>1, <2>2, <3>2, AgreesTail
    <3> QED BY <1>1, <3>1, <3>3
  <2>3. CASE k # n
    <3>1. command'[k] = command[k] /\ running'[k] = running[k]
      BY <1>1, <2>3 DEF IInv, StreamTypes
    <3> QED BY <1>1, <2>1, <3>1
  <2> QED BY <2>2, <2>3
<1> QED BY <1>4, <1>5, <1>7, <1>8 DEF IInv, StreamInv

(* What the three senders of commands have in common: one command about    *)
(* one stream goes to one node, or is lost.                                *)
LEMMA SenderStep ==
    ASSUME IInv, NEW c \in Conf, NEW n \in Node, NEW m \in Command, m.conf = c,
           NEW a \in Node \cup {None}, a \in {None, n},
           command' = [command EXCEPT ![n] = Sent(command[n], m)],
           asked' = [asked EXCEPT ![c] = a],
           lost' = [lost EXCEPT ![c] = Lost(c, n)],
           src_id' = [src_id EXCEPT ![c] = n],
           moved \subseteq moved', moved' \subseteq moved \cup {c},
           again \subseteq again', again' \subseteq again \cup {c},
           UNCHANGED <<proc, running, twice>>,
           c \notin moved' /\ lost[c] # "full" => asked[c] \in {None, n},
           lost[c] # "full" /\ ~Full(command[n]) /\ c \notin moved' =>
              Agrees(proc[n], Append(command[n], m), running[n], a, "no", again', n, c)
    PROVE  IInv'
<1>1. command[n] \in Seq(Command) /\ None \notin Node
  BY ControlAssumption DEF IInv, StreamTypes, Node, None
<1>2. Sent(command[n], m) \in Seq(Command)
  BY <1>1, CommandQueue
<1>3. StreamTypes'
  BY <1>2 DEF IInv, StreamTypes, Lost
<1>4. NotedInv'
  BY DEF IInv, NotedInv, StreamTypes
<1>5. lost'[c] = Lost(c, n) /\ (\A d \in Conf \ {c} : lost'[d] = lost[d] /\ asked'[d] = asked[d])
  BY DEF IInv, StreamTypes
<1>6. NoDoubleStart'
  BY <1>5 DEF IInv, NoDoubleStart, StreamTypes, Lost
<1>7. ASSUME NEW d \in Conf, NEW k \in Node, lost'[d] # "full", d \notin moved'
      PROVE  Agrees(proc'[k], command'[k], running'[k], asked'[d], lost'[d], again', k, d)
  <2>1. lost[d] # "full" /\ d \notin moved
    BY <1>5, <1>7 DEF Lost
  <2>2. Agrees(proc[k], command[k], running[k], asked[d], lost[d], again, k, d)
    BY <2>1 DEF IInv, StreamInv
  <2>3. CASE d # c
    <3>1. asked'[d] = asked[d] /\ lost'[d] = lost[d]
      BY <1>5, <2>3
    <3>2. CASE k = n
      <4>1. command'[k] = Sent(command[k], m)
        BY <3>2 DEF IInv, StreamTypes
      <4>2. Agrees(proc[k], Sent(command[k], m), running[k], asked[d], lost[d], again, k, d)
        BY <1>1, <2>2, <2>3, <3>2, AgreesSent
      <4>3. Agrees(proc[k], Sent(command[k], m), running[k], asked[d], lost[d], again', k, d)
        BY <4>2, AgreesWider
      <4> QED BY <3>1, <4>1, <4>3
    <3>3. CASE k # n
      <4>1. command'[k] = command[k]
        BY <3>3 DEF IInv, StreamTypes
      <4>2. Agrees(proc[k], command[k], running[k], asked[d], lost[d], again', k, d)
        BY <2>2, AgreesWider
      <4> QED BY <3>1, <4>1, <4>2
    <3> QED BY <3>2, <3>3
  <2>4. CASE d = c
    <3>1. lost'[c] = "no" /\ ~Full(command[n]) /\ asked'[c] = a
      BY <1>5, <1>7, <2>4 DEF Lost, IInv, StreamTypes
    <3>2. CASE k = n
      <4>1. command'[k] = Append(command[k], m)
        BY <1>1, <3>1, <3>2, CommandQueue DEF IInv, StreamTypes
      <4>2. Agrees(proc[k], Append(command[k], m), running[k], a, "no", again', k, c)
        BY <1>7, <2>1, <2>4, <3>1, <3>2
      <4> QED BY <2>4, <3>1, <4>1, <4>2
    <3>3. CASE k # n
      <4>1. command'[k] = command[k]
        BY <3>3 DEF IInv, StreamTypes
      <4>2. asked[c] # k /\ a # k
        BY <1>1, <1>7, <2>1, <2>4, <3>3
      <4>3. Agrees(proc[k], command[k], running[k], a, "no", again', k, c)
        BY <2>2, <2>4, <4>2, AgreesElsewhere
      <4> QED BY <2>4, <3>1, <4>1, <4>3
    <3> QED BY <3>2, <3>3
  <2> QED BY <2>3, <2>4
<1> QED BY <1>3, <1>4, <1>6, <1>7 DEF IInv, StreamInv

(* handle_start_dummy_traffic: a start of a stream that is asked for is    *)
(* noted; either message stays with its node or moves the stream.          *)
LEMMA HandleStartStep ==
    ASSUME IInv, NEW c \in Conf, NEW n \in Node, NEW is_update \in BOOLEAN,
           HandleStartDummyTraffic(c, n, is_update)
    PROVE  IInv'
<1> DEFINE m == [type |-> IF is_update THEN "UPDATE" ELSE "SET", conf |-> c]
<1>1. m \in Command /\ m.conf = c /\ m.type # "UNSET" /\ (m.type = "SET" => ~is_update)
  BY DEF Command
<1>2. /\ again' = IF ~is_update /\ asked[c] # None THEN again \cup {c} ELSE again
      /\ command' = [command EXCEPT ![n] = Sent(command[n], m)]
      /\ asked' = [asked EXCEPT ![c] = n]
      /\ lost' = [lost EXCEPT ![c] = Lost(c, n)]
      /\ src_id' = [src_id EXCEPT ![c] = n]
      /\ moved' = IF n # src_id[c] /\ (asked[c] # None \/ lost[c] = "full")
                  THEN moved \cup {c} ELSE moved
      /\ UNCHANGED <<proc, running, twice>>
  BY DEF HandleStartDummyTraffic, NoteSource, NoteStart, SendTraffic
<1> HIDE DEF m
<1>3. None \notin Node
  BY ControlAssumption DEF Node, None
<1>4. c \notin moved' => asked[c] \in {None, n}
  BY <1>2 DEF IInv, NotedInv
<1>5. /\ moved \subseteq moved' /\ moved' \subseteq moved \cup {c}
      /\ again \subseteq again' /\ again' \subseteq again \cup {c}
  BY <1>2
<1>6. ASSUME lost[c] # "full", c \notin moved'
      PROVE  Agrees(proc[n], Append(command[n], m), running[n], n, "no", again', n, c)
  <2>1. Agrees(proc[n], command[n], running[n], asked[c], lost[c], again, n, c)
    BY <1>5, <1>6 DEF IInv, StreamInv
  <2>2. m.type = "SET" /\ c \notin again' => asked[c] # n
    BY <1>1, <1>2, <1>3
  <2>3. command[n] \in Seq(Command)
    BY DEF IInv, StreamTypes
  <2> QED BY <1>1, <1>5, <2>1, <2>2, <2>3, AgreesStart
<1> QED BY <1>1, <1>2, <1>4, <1>5, <1>6, SenderStep

(* The same, returning before anything is sent: no node is asked for a     *)
(* stream that still agrees, or its source has not changed.                *)
LEMMA HandleIncompleteStep ==
    ASSUME IInv, NEW c \in Conf, NEW n \in Node, HandleIncompleteTraffic(c, n)
    PROVE  IInv'
<1>1. /\ src_id' = [src_id EXCEPT ![c] = n]
      /\ moved' = IF n # src_id[c] /\ (asked[c] # None \/ lost[c] = "full")
                  THEN moved \cup {c} ELSE moved
      /\ UNCHANGED <<proc, command, running, asked, lost, again, twice>>
  BY DEF HandleIncompleteTraffic, NoteSource
<1>2. moved \subseteq moved'
  BY <1>1
<1>3. StreamTypes'
  BY <1>1 DEF IInv, StreamTypes
<1>4. NotedInv'
  <2>1. ASSUME NEW d \in Conf, d \notin moved' PROVE asked'[d] \in {None, src_id'[d]}
    <3>1. asked[d] \in {None, src_id[d]}
      BY <1>2, <2>1 DEF IInv, NotedInv
    <3>2. CASE d = c
      BY <1>1, <2>1, <3>1, <3>2 DEF IInv, StreamTypes
    <3>3. CASE d # c
      BY <1>1, <3>1, <3>3 DEF IInv, StreamTypes
    <3> QED BY <3>2, <3>3
  <2> QED BY <1>1, <2>1 DEF IInv, NotedInv
<1>5. StreamInv'
  BY <1>1, <1>2 DEF IInv, StreamInv
<1>6. NoDoubleStart'
  BY <1>1, <1>2 DEF IInv, NoDoubleStart
<1> QED BY <1>3, <1>4, <1>5, <1>6 DEF IInv

(* send_dummystream_config_msgs: every stream of the file is started once. *)
LEMMA SendConfigStep ==
    ASSUME IInv, NEW c \in Conf, NEW n \in Node, SendConfig(c, n)
    PROVE  IInv'
<1> DEFINE m == [type |-> "SET", conf |-> c]
<1>1. /\ asked[c] = None
      /\ command' = [command EXCEPT ![n] = Sent(command[n], m)]
      /\ asked' = [asked EXCEPT ![c] = n]
      /\ lost' = [lost EXCEPT ![c] = Lost(c, n)]
      /\ src_id' = [src_id EXCEPT ![c] = n]
      /\ UNCHANGED <<proc, running, twice, moved, again>>
  BY DEF SendConfig, SendTraffic
<1>2. m \in Command /\ m.conf = c /\ m.type # "UNSET"
  BY DEF Command
<1> HIDE DEF m
<1>3. None \notin Node
  BY ControlAssumption DEF Node, None
<1>4. ASSUME lost[c] # "full", c \notin moved'
      PROVE  Agrees(proc[n], Append(command[n], m), running[n], n, "no", again', n, c)
  <2>1. Agrees(proc[n], command[n], running[n], asked[c], lost[c], again, n, c)
    BY <1>1, <1>4 DEF IInv, StreamInv
  <2>2. asked[c] # n
    BY <1>1, <1>3
  <2>3. command[n] \in Seq(Command)
    BY DEF IInv, StreamTypes
  <2> QED BY <1>1, <1>2, <2>1, <2>2, <2>3, AgreesStart
<1> QED BY <1>1, <1>2, <1>4, SenderStep

(* handle_stop_dummy_traffic tells the node that was noted. *)
LEMMA HandleStopStep ==
    ASSUME IInv, NEW c \in Conf, HandleStopDummyTraffic(c)
    PROVE  IInv'
<1> DEFINE m == [type |-> "UNSET", conf |-> c]
<1>1. PICK n \in Node : n = src_id[c]
  BY DEF IInv, StreamTypes
<1>2. /\ command' = [command EXCEPT ![n] = Sent(command[n], m)]
      /\ asked' = [asked EXCEPT ![c] = None]
      /\ lost' = [lost EXCEPT ![c] = Lost(c, n)]
      /\ UNCHANGED <<proc, src_id, running, twice, moved, again>>
  BY <1>1 DEF HandleStopDummyTraffic, SendTraffic
<1>3. m \in Command /\ m.conf = c /\ m.type = "UNSET"
  BY DEF Command
<1> HIDE DEF m
<1>4. None \notin Node /\ (c \notin moved => asked[c] \in {None, n})
  BY <1>1, ControlAssumption DEF Node, None, IInv, NotedInv
<1>5. ASSUME lost[c] # "full", c \notin moved'
      PROVE  Agrees(proc[n], Append(command[n], m), running[n], None, "no", again', n, c)
  <2>1. Agrees(proc[n], command[n], running[n], asked[c], lost[c], again, n, c)
    BY <1>2, <1>5 DEF IInv, StreamInv
  <2>2. None # n /\ command[n] \in Seq(Command)
    BY <1>4 DEF IInv, StreamTypes
  <2> QED BY <1>2, <1>3, <2>1, <2>2, AgreesStop
<1>6. src_id' = [src_id EXCEPT ![c] = n]
  BY <1>1, <1>2 DEF IInv, StreamTypes
<1> QED BY <1>2, <1>3, <1>4, <1>5, <1>6, SenderStep

(* Every step keeps the invariant: one case per action. *)
LEMMA NextInv == IInv /\ [Next]_vars => IInv'
<1> SUFFICES ASSUME IInv, [Next]_vars PROVE IInv'
  OBVIOUS
<1>1. ASSUME NEW k \in 0..N, Start(k) PROVE IInv'
  BY <1>1, StartStep
<1>2. ASSUME NEW n \in Node, NodeInit(n) PROVE IInv'
  BY <1>2, NodeInitStep
<1>3. ASSUME NEW n \in Node, RecvCommand(n) PROVE IInv'
  BY <1>3, RecvCommandStep
<1>4. ASSUME NEW c \in Conf, NEW n \in Node, NEW is_update \in BOOLEAN,
             HandleStartDummyTraffic(c, n, is_update)
      PROVE  IInv'
  BY <1>4, HandleStartStep
<1>5. ASSUME NEW c \in Conf, NEW n \in Node, SendConfig(c, n) PROVE IInv'
  BY <1>5, SendConfigStep
<1>6. ASSUME NEW c \in Conf, HandleStopDummyTraffic(c) PROVE IInv'
  BY <1>6, HandleStopStep
<1>10. ASSUME NEW c \in Conf, NEW n \in Node, HandleIncompleteTraffic(c, n) PROVE IInv'
  BY <1>10, HandleIncompleteStep
<1>7. CASE UNCHANGED <<proc, streams>>
  BY <1>7 DEF streams, IInv, StreamTypes, NotedInv, StreamInv, NoDoubleStart
<1>8. ASSUME NEW n \in Node, Count(n) \/ SendNetReport(n) \/ RecvReport(n) PROVE IInv'
  BY <1>7, <1>8 DEF Count, SendNetReport, RecvReport
<1>9. CASE UNCHANGED vars
  BY <1>7, <1>9 DEF vars
<1> QED BY <1>1, <1>2, <1>3, <1>4, <1>5, <1>6, <1>8, <1>9, <1>10 DEF Next
-----------------------------------------------------------------------------
(* However starts, stops, updates, incomplete messages, restarts and       *)
(* flushes are ordered, a node registers the timer of a running stream     *)
(* again only if the stream was started while it was asked for already, a  *)
(* command was lost to a full queue or the stream was moved.               *)
THEOREM NoSecondStart == Spec => []NoDoubleStart
<1>1. IInv => NoDoubleStart
  BY DEF IInv
<1> QED BY InitInv, NextInv, <1>1, PTL DEF Spec

(* Once no command about a stream waits at a node that runs, the node that *)
(* was last asked for sends it and no other does, with the exceptions that *)
(* the property names.                                                     *)
THEOREM StreamsSettle == Spec => []StreamsAsAsked
<1>1. ASSUME IInv PROVE StreamsAsAsked
  <2> SUFFICES ASSUME NEW c \in Conf, twice = {}, Settled(c), lost[c] = "no", c \notin moved
               PROVE  {n \in Node : c \in running[n]} = {asked[c]} \ {None}
    BY DEF StreamsAsAsked
  <2>1. asked[c] \in Node \cup {None} /\ asked[c] \in {None, src_id[c]} /\ None \notin Node
    BY <1>1, ControlAssumption DEF IInv, StreamTypes, NotedInv, Node, None
  <2>2. ASSUME NEW n \in Node, proc[n] = "up" PROVE c \in running[n] <=> asked[c] = n
    <3>1. Agrees(proc[n], command[n], running[n], asked[c], lost[c], again, n, c)
      BY <1>1 DEF IInv, StreamInv
    <3>2. command[n] \in Seq(Command)
      BY <1>1 DEF IInv, StreamTypes
    <3>3. \A i \in 1..Len(command[n]) : command[n][i].conf # c
      BY <2>2, <3>2 DEF Settled, Confs
    <3>4. RunsAfter(command[n], running[n], c, Len(command[n])) <=> c \in running[n]
      BY <3>3 DEF RunsAfter
    <3> QED BY <2>2, <3>1, <3>4 DEF Agrees
  <2>3. \A n \in Node : proc[n] # "up" => c \notin running[n]
    BY <1>1 DEF IInv, NotedInv
  <2>4. asked[c] # None => asked[c] \in Node /\ proc[asked[c]] = "up"
    BY <2>1 DEF Settled
  <2> QED BY <2>1, <2>2, <2>3, <2>4
<1> QED BY InitInv, NextInv, <1>1, PTL DEF Spec
=============================================================================
