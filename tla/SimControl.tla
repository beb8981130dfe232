----------------------------- MODULE SimControl -----------------------------
(***************************************************************************)
(* What the simulator tells the network layers and what they tell it:      *)
(* commands for traffic streams one way (sim_remote_conf.c, simulator.c,   *)
(* net_command.c), reports of statistics the other (net_report.c,          *)
(* sim_hdlreport.c).  Both go over System V queues, one of each per node,  *)
(* which outlive the processes, hold a limited number of messages and are  *)
(* flushed by a simnet that starts.                                        *)
(*                                                                         *)
(* A behaviour is about one of three parts, which do not depend on each    *)
(* other: streams under a frontend, streams of a configuration file, and   *)
(* reports.                                                                *)
(***************************************************************************)
EXTENDS Naturals, Sequences

CONSTANTS
    N,          \* nodes; their ids are 0..N-1
    Conf,       \* conf_ids of traffic streams
    QCap,       \* messages that fit into a queue
    MaxStat     \* bound on the changes of a statistic in one simulation

ASSUME ControlAssumption == /\ N \in Nat \ {0} /\ QCap \in Nat \ {0} /\ MaxStat \in Nat
                         /\ Conf \subseteq Nat

Node == 0..(N - 1)
None == N       \* no node

VARIABLES
    part,       \* "frontend", "file" or "reports"
    proc,       \* the simnet of a node: "none", "forked" or "up"
    src_id,     \* the simulator's dummy_stream_info[c].src_id
    command,    \* contents of the queue MQ_KEY_NET_COMMAND of each node
    running,    \* streams with a timer in dummy_traffic_timers, per node
    asked,      \* the node that is to send a stream, as last asked for
    lost,       \* what became of commands: "no", "flushed" or "full"
    moved,      \* streams given a new source while the old one was to send
    again,      \* streams started while they were asked for already
    twice,      \* streams that a node has started while they were running
    stat,       \* a statistic of each node
    dirty,      \* nodes with its dirty flag set
    report,     \* contents of the queue MQ_KEY_NET_REPORT of each node
    shown,      \* the statistic as last sent to the frontend
    missed      \* nodes whose last change could not be told

streams == <<src_id, command, running, asked, lost, moved, again, twice>>
reports == <<stat, dirty, report, shown, missed>>
vars == <<part, proc, streams, reports>>

Command == [type : {"SET", "UNSET", "UPDATE"}, conf : Conf]

(* get_simulator_context: everything is zero, the queues are flushed.  In  *)
(* local mode the nodes have just been forked.                             *)
Init ==
    /\ part \in {"frontend", "file", "reports"}
    /\ proc = [n \in Node |-> IF part = "file" THEN "forked" ELSE "none"]
    /\ src_id = [c \in Conf |-> 0]
    /\ command = [n \in Node |-> <<>>] /\ running = [n \in Node |-> {}]
    /\ asked = [c \in Conf |-> None] /\ lost = [c \in Conf |-> "no"]
    /\ moved = {} /\ again = {} /\ twice = {}
    /\ stat = [n \in Node |-> 0] /\ dirty = {} /\ report = [n \in Node |-> <<>>]
    /\ shown = [n \in Node |-> 0] /\ missed = {}
-----------------------------------------------------------------------------
(* handle_start_simulation_msg: all processes are killed and the first     *)
(* nodenum nodes forked.  No stream is asked for in a new simulation.      *)
Start(nodenum) ==
    /\ part # "file"
    /\ proc' = [n \in Node |-> IF n < nodenum THEN "forked" ELSE "none"]
    /\ running' = [n \in Node |-> {}]
    /\ asked' = [c \in Conf |-> None] /\ lost' = [c \in Conf |-> "no"]
    /\ moved' = {} /\ again' = {} /\ twice' = {}
    /\ UNCHANGED <<part, src_id, command, reports>>

Confs(q) == {q[i].conf : i \in DOMAIN q}

(* Mutant: the queue of commands is not flushed. *)
NodeInitKeepsCommands(n) ==
    /\ proc[n] = "forked"
    /\ proc' = [proc EXCEPT ![n] = "up"]
    /\ report' = [report EXCEPT ![n] = <<>>]
    /\ stat' = [stat EXCEPT ![n] = 0]
    /\ dirty' = dirty \ {n}
    /\ missed' = IF shown[n] = 0 THEN missed \ {n} ELSE missed \cup {n}
    /\ UNCHANGED <<part, src_id, command, running, asked, lost, moved, again, twice,
                   shown>>

(* simnet_init_mq flushes both queues; the statistics start from nothing. *)
NodeInit(n) ==
    /\ proc[n] = "forked"
    /\ proc' = [proc EXCEPT ![n] = "up"]
    /\ lost' = [c \in Conf |-> IF lost[c] = "no" /\ c \in Confs(command[n])
                               THEN "flushed" ELSE lost[c]]
    /\ command' = [command EXCEPT ![n] = <<>>]
    /\ report' = [report EXCEPT ![n] = <<>>]
    /\ stat' = [stat EXCEPT ![n] = 0]
    /\ dirty' = dirty \ {n}
    /\ missed' = IF shown[n] = 0 THEN missed \ {n} ELSE missed \cup {n}
    /\ UNCHANGED <<part, src_id, running, asked, moved, again, twice, shown>>
-----------------------------------------------------------------------------
(* send_mq returns 0 when the queue is full; the callers look for less. *)
Full(q) == Len(q) >= QCap
Sent(q, m) == IF Full(q) THEN q ELSE Append(q, m)
Lost(c, n) == IF lost[c] = "full" \/ Full(command[n]) THEN "full" ELSE "no"


(* A command of this type about stream c goes to node n, or is lost. *)
SendTraffic(c, n, type) ==
    /\ command' = [command EXCEPT ![n] = Sent(@, [type |-> type, conf |-> c])]
    /\ asked' = [asked EXCEPT ![c] = IF type = "UNSET" THEN None ELSE n]
    /\ lost' = [lost EXCEPT ![c] = Lost(c, n)]

(* The new source is stored as soon as it is read; the old one hears       *)
(* nothing.                                                                *)
NoteSource(c, n) ==
    /\ src_id' = [src_id EXCEPT ![c] = n]
    /\ moved' = IF n # src_id[c] /\ (asked[c] # None \/ lost[c] = "full")
                THEN moved \cup {c} ELSE moved

NoteStart(c, is_update) ==
    again' = IF ~is_update /\ asked[c] # None THEN again \cup {c} ELSE again

(* Mutant: an update is a start. *)
HandleStartDummyTrafficSame(c, n, is_update) ==
    /\ part = "frontend"
    /\ NoteSource(c, n)
    /\ SendTraffic(c, n, "SET")
    /\ NoteStart(c, is_update)
    /\ UNCHANGED <<part, proc, running, twice, reports>>

(* handle_start_dummy_traffic, for StartDummyTraffic and                   *)
(* UpdateDummyTrafficConf.  Neither asks whether the stream runs.          *)
HandleStartDummyTraffic(c, n, is_update) ==
    /\ part = "frontend"
    /\ NoteSource(c, n)
    /\ SendTraffic(c, n, IF is_update THEN "UPDATE" ELSE "SET")
    /\ NoteStart(c, is_update)
    /\ UNCHANGED <<part, proc, running, twice, reports>>

(* The same handler when the message lacks its destination, size or        *)
(* interval: it returns with the source stored and nothing sent.  Without  *)
(* a confId or a source it would have done nothing at all.                 *)
HandleIncompleteTraffic(c, n) ==
    /\ part = "frontend"
    /\ NoteSource(c, n)
    /\ UNCHANGED <<part, proc, command, running, asked, lost, again, twice, reports>>

(* handle_stop_dummy_traffic, for StopDummyTraffic and                     *)
(* DeleteDummyTrafficConf: to the source that was stored last.             *)
HandleStopDummyTraffic(c) ==
    /\ part = "frontend"
    /\ SendTraffic(c, src_id[c], "UNSET")
    /\ UNCHANGED <<part, proc, src_id, running, moved, again, twice, reports>>

(* simulator_start_local waits for a second, by which the children are     *)
(* expected to be ready.                                                   *)
Ready == \A m \in Node : proc[m] = "up"

(* send_dummystream_config_msgs, stream by stream, with the sources that   *)
(* parse_config has read.                                                  *)
SendConfig(c, n) ==
    /\ part = "file"
    /\ Ready
    /\ asked[c] = None /\ \A d \in Conf : d < c => asked[d] # None
    /\ src_id' = [src_id EXCEPT ![c] = n]
    /\ SendTraffic(c, n, "SET")
    /\ UNCHANGED <<part, proc, running, moved, again, twice, reports>>

(* process_command.  An update unregisters first; to register the timer of *)
(* a stream that runs inserts it into a tree it is in.                     *)
ProcessCommand(n, m) ==
    /\ running' = [running EXCEPT ![n] = IF m.type = "UNSET" THEN @ \ {m.conf} ELSE @ \cup {m.conf}]
    /\ twice' = IF m.type = "SET" /\ m.conf \in running[n] THEN twice \cup {m.conf} ELSE twice

RecvCommand(n) ==
    /\ proc[n] = "up" /\ command[n] # <<>>
    /\ ProcessCommand(n, Head(command[n]))
    /\ command' = [command EXCEPT ![n] = Tail(@)]
    /\ UNCHANGED <<part, proc, src_id, asked, lost, moved, again, reports>>
-----------------------------------------------------------------------------
(* Mutant: only a new statistic is marked. *)
CountNewOnly(n) ==
    /\ part = "reports" /\ proc[n] = "up" /\ stat[n] < MaxStat
    /\ stat' = [stat EXCEPT ![n] = @ + 1]
    /\ dirty' = IF stat[n] = 0 THEN dirty \cup {n} ELSE dirty
    /\ UNCHANGED <<part, proc, streams, report, shown, missed>>

(* statistics_update, or a route that changes. *)
Count(n) ==
    /\ part = "reports" /\ proc[n] = "up" /\ stat[n] < MaxStat
    /\ stat' = [stat EXCEPT ![n] = @ + 1]
    /\ dirty' = dirty \cup {n}
    /\ UNCHANGED <<part, proc, streams, report, shown, missed>>

(* send_net_report_cb, every 100 ms: the flag is cleared whether or not    *)
(* the report fits into the queue.                                         *)
SendNetReport(n) ==
    /\ proc[n] = "up" /\ n \in dirty
    /\ report' = [report EXCEPT ![n] = Sent(@, stat[n])]
    /\ dirty' = dirty \ {n}
    /\ missed' = IF Full(report[n]) THEN missed \cup {n} ELSE missed \ {n}
    /\ UNCHANGED <<part, proc, streams, stat, shown>>

(* recv_net_report: the simulator empties the queues of all nodes, running *)
(* or not, and sends each report on to the frontend.                       *)
RecvReport(n) ==
    /\ report[n] # <<>>
    /\ shown' = [shown EXCEPT ![n] = Head(report[n])]
    /\ report' = [report EXCEPT ![n] = Tail(@)]
    /\ UNCHANGED <<part, proc, streams, stat, dirty, missed>>

Next ==
    \/ \E k \in 0..N : Start(k)
    \/ \E n \in Node : NodeInit(n) \/ RecvCommand(n)
    \/ \E c \in Conf, n \in Node :
          \/ \E is_update \in BOOLEAN : HandleStartDummyTraffic(c, n, is_update)
          \/ HandleIncompleteTraffic(c, n) \/ SendConfig(c, n)
    \/ \E c \in Conf : HandleStopDummyTraffic(c)
    \/ \E n \in Node : Count(n) \/ SendNetReport(n) \/ RecvReport(n)

Spec == Init /\ [][Next]_vars

(* The loop of simnet takes commands and fires the report job, the loop of *)
(* the simulator takes reports, and a process that is forked gets to run.  *)
Fairness ==
    \A n \in Node : /\ WF_vars(NodeInit(n)) /\ WF_vars(RecvCommand(n))
                    /\ WF_vars(SendNetReport(n)) /\ WF_vars(RecvReport(n))

FairSpec == Spec /\ Fairness
-----------------------------------------------------------------------------
(* No command for c is waiting at a node that runs, and its source does. *)
Settled(c) ==
    /\ proc[src_id[c]] = "up"
    /\ \A n \in Node : proc[n] = "up" => c \notin Confs(command[n])

(* A stream is sent by the node that the frontend or the configuration     *)
(* last asked for, and by no other, once the commands have been executed - *)
(* unless a command met a full queue, the last one was flushed by a node   *)
(* that had yet to start, or a message, complete or not, named another     *)
(* source under way: the old one then goes on sending for good.  All this  *)
(* while no timer has been registered twice, which breaks the tree of      *)
(* timers of a node.                                                       *)
StreamsAsAsked ==
    \A c \in Conf : twice = {} /\ Settled(c) /\ lost[c] = "no" /\ c \notin moved =>
       {n \in Node : c \in running[n]} = {asked[c]} \ {None}

(* A node registers the timer of a running stream again only if the        *)
(* frontend starts a stream that it has started, or updated, since it last *)
(* stopped it, if a stop was lost to a full queue, or if the source was    *)
(* changed under way - however commands, restarts and flushes are ordered. *)
(* An update of a running stream never does.                               *)
NoDoubleStart == \A c \in twice : c \in again \/ lost[c] = "full" \/ c \in moved

(* The frontend comes to see the last value of a statistic of a node that  *)
(* goes on running, reports of killed simulations notwithstanding, unless  *)
(* the last report met a full queue or nothing has changed since a start.  *)
ReportsArrive ==
    \A n \in Node : <>[](proc[n] = "up") => <>[](n \in missed \/ shown[n] = stat[n])
=============================================================================
