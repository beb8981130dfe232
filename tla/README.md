# A TLA+ model of sy-netsim

sy-netsim simulates an ad-hoc radio network with ordinary processes. Every
simulated node runs a `simnet` (network layer, with OLSR as routing protocol)
and a `simmac`; one `simphy` stands for the air; the `simulator` starts and
kills them, configures them and relays their reports to a front end over TCP.
The processes talk over System V message queues.

This directory holds TLA+ modules of the parts that carry the program's logic,
TLC configurations for small instances, and TLAPS proofs for instances of any
size. `PROJECT.json` says which source lines every definition stands for.

- [Inventory](#inventory)
- [Modules and how they correspond to the code](#modules-and-how-they-correspond-to-the-code)
- [Runs](#runs)
- [Disagreements found](#disagreements-found)
- [Fairness](#fairness)
- [Proofs](#proofs)
- [Not modelled](#not-modelled)
- [Plan](#plan)

Check a run with `tlc -config X.cfg M` and the proofs with `tlapm M.tla`, in
this directory.

## Inventory

| Component | State | Operations | What makes it correct |
|---|---|---|---|
| Link sensing (`olsr_hello.c`, `olsr_link.c`, `olsr_neighbor.c`) | link, neighbour, two-hop and MPR selector sets, four kinds of timers | build and process a HELLO, expire | sets agree with each other; no link outlives the other end's silence; the network converges when losses end |
| MPR selection (`olsr_mpr.c`) | `mpr_tree`, statuses, `ansn` | two-phase selection after every HELLO | relays cover the two-hop neighbours; the call returns |
| Flooding (`olsr_route.c`, `olsr_forwarding.c`) | tx buffer, `msg_seq`, duplicate set | originate, send, receive, process, forward, forget | a TC reaches everybody, is processed and passed on once |
| Topology set (`olsr_tc.c`) | one `TopologyInfoElem` per originator | build and process a TC, expire | an old TC never undoes a newer one; the view catches up |
| Route calculation (`olsr_spf.c`) | routing table, statistics | breadth-first search, comparison with the old table | shortest simple routes; statistics follow the table; the call returns |
| Data plane (`olsr_route.c`, `olsr_route_iface.c`, `netutil.c`) | none of its own | send, forward hop by hop, deliver | one copy of a packet, taken by its destination; a packet in a circle is delivered once tables agree |
| Time encoding (`olsr_mantissa.c`) | none | encode, decode | decode undoes encode up to the precision |
| Timer queue (`ext/timerqueue/timerqueue.c`) and its users | tree of elements, flags, owners' pointers | new, register, reactivate, free, work | the tree holds no freed element, callbacks have live arguments, nothing leaks |
| Traffic streams (`dummy.c`, `net_command.c`) | `dummy_traffic_timers` | start, stop, update | one sender per stream |
| `simnet` main loop and reports (`main.c`, `simnet.c`, `net_report.c`) | dirty flags | poll, report | the last change is reported |
| `simmac` | none | pass frames up and down | passes frames, never old ones |
| `simphy` | alive nodes, links | forward over links with line of sight, link commands | links as configured |
| Message queues (`util/mq.c`) | bounded queues that outlive processes | send, receive, flush | no message of a killed simulation is met by a new one |
| Ring buffer (`util/ringbuffer.c`) | cells, `head`, `tail` | push, read, pop, drop | a bounded FIFO of bytes |
| Red-black tree (`ext/timerqueue/rbtree.c`) | links and colours in callers' nodes, a shared null node | insert, delete, search, walk | an ordered set; balanced; the null node is never written |
| Simulator control (`simulator.c`, `sim_remote_conf.c`, `sim_childproc.c`) | pids, link and stream configuration | start, kill, configure | what is asked is what happens |
| TCP server and reports (`sim_server.c`, `sim_hdlreport.c`) | two ring buffers shared by two threads | frame, parse, drop on disconnection | messages arrive whole |

How they interact: `timerqueue_work`, `recvfrom_mac` and `recv_command` are
called in turn by the single thread of `simnet`, so its handlers do not
interleave with each other, but messages and expirations come in every order.
HELLO reception changes the link and neighbour sets and ends with a call of
`populate_mpr_set`; a change of a symmetric neighbour or of the topology set
ends with a call of `calc_routing_table`. Processes interleave at the message
queues; only the simulator has two threads.

What is hard here: messages lost, delayed and received in every order relative
to timers; sets that expire independently and describe each other; 16-bit
sequence numbers; memory freed by callbacks while a tree holds it; processes
killed at any time whose queues survive them; threads that share buffers
without a lock. `PROJECT.json` lists these hazards line by line with the
properties that watch them.

## Modules and how they correspond to the code

Variables and actions have the names of the C fields and functions where TLA+
permits. An action stands for one whole handler, except that the two long
computations, MPR selection and route calculation, are one action per loop turn,
so that their invariants can be stated (nothing interleaves with them), and that
the ring buffer shared by two threads is one action per access.

**`AddrOrder`**: the order of `rbtree_compare_by_inetaddr`. Addresses are
naturals, a tree of addresses is a set, `RBTREE_FOR` takes its least element first.

**`MprSelection`**: `olsr_mpr.c` as operators on one node's tables: `CalcN1`,
`CalcN2`, `AddUniqueBridge`, `GreedyStep`, `StatusAfter`. `OlsrMpr` runs them
step by step, `OlsrHello` and `OlsrFlooding` use the final result
(`PopulateMprSet`). The first phase selects only its first unique bridge, as the
code does, see [below](#disagreements-found).

**`OlsrMpr`**: one node. `RecvHello`, `LinkExpire` and `Neigh2Expire` change the
tables, `UniqueStep`, `ReachabilityStep` and `FinishSelection` are
`populate_mpr_set`. A HELLO can come from any node that the radio graph `Los`
ever connects, with any content that node may have. **`MprPromise`** is the
abstract specification: relays are only ever replaced by symmetric neighbours
that together reach every strict two-hop neighbour. `OlsrMpr` implements it with
`mpr_tree` visible between calls and `old_set` during one.

**`OlsrSpf`**: one node. `SetNeighborStatus`, `ProcessTc` and `TopologyExpire`
change what the calculation reads and call it under the conditions of the code;
`AddOneHop`, `Visit`, `AddRoute`, `ScanDone` and `FinishCalc` are the loops of
`calc_routing_table`; `UpdatedStat` is `update_route_info`. An entry that does
not exist is `NoEntry`. An advertisement works in both directions once both ends
are known originators (`duplicate_neigh_info`).

**`OlsrHello`**: several nodes. Time is counted in HELLO intervals; in each
interval every node sends one HELLO, and what is due at the end of a timer can
happen before or after the HELLO that would renew it arrives. Of a link's three
timers, `expire_timer` and `asym_timer` are always set together with the same
callback and share one variable. `silence` is a history variable.

**`OlsrFlooding`**: several nodes, links and MPRs of a settled network (`Mprs`
evaluates the selection of `MprSelection`), except that a neighbour may lose its
symmetric status. `SendFromQueue` empties the tx buffer into one broadcast packet
and moves `msg_seq` on once; a receiver handles the messages of a packet one by
one (`HandleMsg`: duplicate test, processing, forwarding). `nr`, `issued`,
`processed`, `dropped`, `relays` and `refused` are history. Two guards stand for the
relation of intervals in the code: a duplicate entry is held for 10 s, longer than
copies of its message are under way (`DupExpire`), and a sequence number is not used
again while anybody remembers it (`IsUnused`), since 2^16 packets at least 50 ms
apart take 54 minutes.

**`OlsrTopology`**: one originator and one receiver. Time is counted in TC
intervals. The ANSN moves on with every TC, and with every change of the MPR set
(`MprChange`), of which `MaxBumps` happen between two TCs at most. The ages of TCs
are history; the code sees the ANSN only.

**`TimerQueue`**: one queue, that of the OLSR context or that of `SimNetCtx`
(`queue`), with the records that own its timers. `ptr` are the records' pointers;
a record that does not exist has null pointers. `timer[e]` are the fields of a
`TimerqueueElem`, `Free` is unallocated memory. `Work(e)` is one turn of the loop
of `timerqueue_work`, callback and detachment included. `slot` names the pointer
an element was made for and so stands for `callback` and `arg`. A stream is
assumed to be started only when it does not run, which the code does not check; when
it can happen all the same is the subject of `NoDoubleStart`. Intervals are assumed
positive.

**`PacketPipeline`**: `simnet`, `simmac` and `simphy` between their queues, and
the simulator that kills and starts them (`StartSimulation`). `NetStart`,
`MacStart` and `PhyStart` are the initialisations with their flushes. An action
takes one message from one queue; a message may arrive behind the poll of its
queue, so any queue of a process may be the next. `old` marks messages of killed
simulations and is not seen by the program. A killed process is assumed to do
nothing any more once its successor has been executed. `asked` is what the
simulator has put into the queue of a running `simphy`.

**`RingBuffer`** and **`ByteQueue`**: the ring buffer used from one thread, and
the bounded byte FIFO that it implements.

**`SimServer`**: extends `RingBuffer` with the simulator's use of it, two threads
without a lock. A behaviour is about one buffer (`use`): `sendq`, into which the
main thread pushes reports (`SendHeader`, `SendBody`) and out of which the TCP
thread pops what it sends; `recvq`, into which the TCP thread pushes what `recv`
returned (`RecvChunk`, from what `FrontSends` has put into the stream) and out of
which the main thread reads frames; or the
single-threaded `olsr_tx_msgbuf`, where the actions of `RingBuffer` are taken
whole. `WMeasure` to `WWrap` and `RMeasure` to `RWrap` are the accesses to `head`
and `tail` inside one push and one read or pop, in the order of the source: the
build is not optimised, so each is a load or store of its own. `Drop` and
`Dropped` are the two stores of `RingBuffer_drop_buffer`. The socket does not block,
and the result of `send` is ignored: any number of the popped bytes, the rest of which
are gone, reaches the frontend (`Returned`). `expect`, `intact`, `refused`, `unsent`
and `raced` are history: what the receiver of frames has seen (`AfterBytes`), and what
could excuse it.

**`SimControl`**: the simulator and the `simnet`s between their command and report
queues. A behaviour is about one `part`: streams under a frontend, streams of a
configuration file, or reports. `Start` kills and forks, `NodeInit` is the
start-up with its flush, `HandleStartDummyTraffic`, `HandleStopDummyTraffic` and
`SendConfig` send commands, `HandleIncompleteTraffic` is the first of them with a
message that lacks a field: it stores the new source and returns. A frontend may send
any of them at any time. `RecvCommand` executes the commands; `Count`, `SendNetReport`
and `RecvReport` are a changing statistic, the periodic report and its relay. The
second that `simulator_start_local` sleeps is taken to be enough (`Ready`);
nothing is assumed about time in the other mode, where the code does not wait.
`asked`, `lost`, `moved`, `again`, `twice` and `missed` are history.

**`OlsrData`**: several nodes with a routing table entry for one destination each
(`route`, the next hop). `handle_local_data_pkt` and `handle_remote_data_pkt` are
the handlers with `ip_route` and the minimal encapsulation; a frame is put into
the queue of everyone who hears the sender. Tables and links change at any time
(`Recalculate`, `Move`). Addresses are 192.168.*node*.1, for which
`IP_C_CLASS_MATCH` is equality.

**`RbTree`** and **`OrderedSet`**: the red-black tree pointer by pointer, one
operator per function, with the side as a parameter where the code has mirrored
halves; and the ordered set it implements. The other modules take trees for
sets, which this justifies. `RbTree` recurses as the loops of the code do and is
checked by TLC only.

`...Proofs` modules hold the theorems, `MC...` modules the instances.

## Runs

| Run | Shows | Bounds, and why they are enough |
|---|---|---|
| `mpr_selection` | coverage by relays that each reach some two-hop neighbour, statuses agree with the MPR set, `MprPromise` is implemented, the call returns | node 1 with three possible neighbours and two nodes behind them: shared and exclusive bridges, a neighbour that also is two-hop, ties. `AnsnMod` 2 so that the ANSN wraps |
| `spf_routes` | simple shortest routes for exactly the reachable nodes, the comparison of routes stays within its lists, statistics follow the table, the table lacks a reachable node only behind an empty advertisement, the call returns | a ring of five nodes: each is reachable both ways round by routes of different length, and one lost link turns routes around. `MaxObsolete` 1 so that obsolete advertisements stay behind |
| `link_sensing` | neighbours follow links, a symmetric link is at most two hold times behind the other end's silence, a selector has a link, convergence | a chain of three with losses in one direction, and a lossy pair beside a node that only hears. The hold time is the code's: three HELLO intervals |
| `flooding` | a TC is relayed once per node, is remembered once taken, and reaches every node unless it met a full tx buffer itself | all 728 connected labelled graphs of five nodes without loss; a line and a star with two originators and room for one message in each tx buffer; HELLOs and TCs that share packets, without loss; diamond, kite and line with packet loss, lost neighbours and HELLOs in between |
| `flooding_hello_dropped` | violation, see below | two nodes |
| `topology_set` | a TC is taken exactly when it is newer, until the ANSN wraps; the view catches up after every wrap | two addresses, one TC overtaking, one MPR change per TC interval, ANSN modulo 11: more than the ANSN can move in the time a TC is under way or held, as 2^16 is in the code (`WrapAssumption`) |
| `timers` | `TreeSound`, `ArgLive`, `NoLeak` | six elements: the job, what remains of an expired link and selector, and a new link; two streams with two intervals. Elements are symmetric |
| `pipeline` | no frame of a killed simulation is met, links are as asked, a simulation that is left alone delivers | two nodes, one frame per queue, so that every queue can be full, and two commands, so that contrary ones about a pair wait one behind the other; any number of restarts in any order |
| `rb_tree` | after every call a red-black tree whose searches and walks are right, no dangling pointers, `OrderedSet` is implemented | nine nodes, two with one key: eight in a tree meet every case of both fixups, with a second turn of each loop |
| `server` | no `memcpy` leaves the buffer; every call that is served acts as one step of a `ByteQueue`; frames arrive whole unless a call was refused, the socket took less than it was given or a drop was untimely | four bytes and frames of three: every wrap, refusals of headers and of bodies; `recv` returns one or two bytes, so that it cuts a frame anywhere and joins the end of one with the start of the next; `send` takes any part of what it is given; a connection may end and begin at any time. TLC does not go on behind a loss of the framing, an incomplete `send`, or a refusal after a race, since any bytes may follow; the proofs do |
| `data_plane` | one copy of a packet, taken by its destination; delivery once tables agree | three nodes, any links, any tables: circles the destination is not on. Queues of two, so that they fill up |
| `control` | streams run where they were last asked for; no stream is started while it runs; the last value of a statistic is shown; each with the exact exceptions | two nodes, one stream, queues of three messages and four changes of a statistic, so that commands and reports meet full queues; any number of restarts |

Every property has a mutant in `PROJECT.json`: a plausible bug in a definition
that makes TLC refute the property in that run. The mutated forms are next to the
definitions they replace, marked `Mutant`.

Deadlock is checked except in the flooding runs, whose messages are limited and
in which the network may become silent, and in `control`, where a simulation of a
configuration file has nothing left to do once its streams run.

Type invariants are conjuncts of the first invariant of a run (`NeighborFollowsLink`,
`TakenIsRemembered`, `NeverOlder`, `OneCopy`, `NoOverrun`) or part of a proved
inductive invariant (`OlsrMpr`, `OlsrSpf`, `TimerQueue`, `PacketPipeline`,
`RingBuffer`, `SimControl`).

Some things the runs made visible:

- With a hold time of two HELLO intervals in place of three, the chain flaps for
  ever: a link whose HELLO and expiry fall together can be dropped on one side
  while the other renews it.
- A node stays symmetric for up to two hold times after the other end has ceased
  to hear it, one more than a single hold time suggests.
- A TC first handed over by a neighbour that is not (or no longer) symmetric
  enters the duplicate set unprocessed, and later copies of it are dropped. This
  is why `TcReachesAll` speaks of networks whose neighbours are not lost.
- In `pipeline`, the heartbeat that `simmac` sends at its start can be flushed by
  `simphy`. The node becomes alive all the same with its first HELLO; were it not
  for traffic, it would stay unknown. `GetsGoing` also says that frames keep
  arriving; with more than two nodes, a full queue could starve one sender.
- `RingBuffer_get_remain_bufsize` loads `head` and `tail` several times. A call of
  the other thread in between can make it answer for no state the buffer ever had,
  and a push or pop that fits is then refused (`refused = "race"`). It errs on the
  safe side: what is served is served right.
- There is one exception to that. `tail` is stored before and after its modulus
  (`ringbuffer.c:93-94`); a pop between the two stores that empties the buffer and
  wraps `head` makes the next measurement take the empty buffer for a full one, and
  old bytes are delivered. `raced` counts it with the untimely drops.
- A refusal is enough to lose the framing for the rest of a connection: header
  and body are pushed one by one, a refused body leaves its header behind, and the
  bytes of a pop that was refused are sent or parsed all the same. So is a `send` that
  takes only a part of its bytes, or none while the frontend does not read: they have
  left the buffer (`sim_server.c:127`), and `unsent` is an exception of
  `FramesUnlessRefused`.
- A dummy stream whose source is changed while it runs has two senders from then on
  (`moved` in `SimControl`), and a command that meets a full queue is lost without
  a message (`lost = "full"`); both are the exceptions of `StreamsAsAsked`. A message
  that is rejected for a missing field is enough to move a stream: its source is stored
  first (`sim_remote_conf.c:119`), so that the next stop goes to the wrong node.
- An update starts a stream that is not running (`net_command.c:17-18`). The frontend's
  first `StartDummyTraffic` behind an `UpdateDummyTrafficConf` then registers a running
  timer again (`again`), as a second start would.
- `Convergence` takes it that HELLOs are not dropped any more. A TC of the same packet
  can be the reason of a drop as well, see the next section.
- A packet can be delivered although its route was a circle, however long ago it
  was sent: no TTL is counted down.

## Disagreements found

One run shows that the code does not do what a log line of it says:

- `flooding_hello_dropped`, `OnlyDuplicatesDropped` (`olsr_route.c:43`). Messages
  of one packet share a sequence number; a HELLO behind a TC is dropped as its
  duplicate ("Drop Duplicated Msg"), though it has never been seen.

Three more have been found while modelling. The modules do what the code does, and
the properties of the passing runs say what is left of the promise:

- `olsr_mpr.c:114`. The comment at lines 85-86 promises all neighbours that are the
  only bridge to some node. The loop inserts the element it stands on into another
  intrusive tree and ends there: one is selected in this phase (`AddUniqueBridge`).
  Coverage is not lost, since the reachability loop goes on until everything is
  covered (`MprCoversTwoHop`), but the MPR set may be larger.
- `olsr_tc.c:183`. "If any change detected, Recalculate routing table": a TC of a
  new originator that advertises nobody changes the usable topology, because
  another node's advertisement now works in both directions, without a
  recalculation. `TableFollowsTopology` bounds what can be missing.
- `olsr_tc.c:132`. "Ignore TC (old seqno)": 16-bit numbers are compared without
  wrap-around, so after ANSN 65535 new TCs are ignored until the element has
  expired. `NeverOlder` holds up to a wrap, `CatchesUp` across it.

## Fairness

- `OlsrMpr`, `OlsrSpf`: weak fairness of the steps of the running call. The
  process is single threaded; nothing can take the processor from the call for good.
- `OlsrHello`: weak fairness of `Progress`, that is of time, timers and pending
  receptions together: each `simnet` polls every millisecond. `Settle`, the end of
  losses, is not fair; `Convergence` says what follows once it happens.
- `OlsrTopology`: weak fairness of building, receiving and expiring. Losses end
  with `Settle`, as above.
- `PacketPipeline`: weak fairness of every process's steps, each an endless
  loop, and of `NetSend`, because HELLOs are periodic. Restarts are not fair;
  `GetsGoing` speaks of simulations that are not restarted for ever.
- `OlsrData`: weak fairness of every node's reception, as `simnet` polls its queue
  every millisecond. Changes of tables and links are not fair.
- `SimControl`: weak fairness of start-up, command reception and the report job of
  every node, and of the simulator's reception of reports, all of them polled in
  endless loops. Starts, commands and changes of statistics are not fair;
  `ReportsArrive` speaks of nodes that are killed finitely often.

## Proofs

Each proof module establishes, for every value of the constants that satisfies
the named assumptions:

| Module | Assumptions | Theorems |
|---|---|---|
| `OlsrMprProofs` | `AddrAssumption`, `AnsnAssumption`: addresses are finitely many naturals | `SelectionInvariant`, `MprCoverage`, `StatusAgreement`, `MprRefinement` |
| `OlsrSpfProofs` (routes, and the data plane that uses them) | `AddrAssumption`: addresses are finitely many naturals, `MaxObsolete` positive; `DataAssumption` | `RouteInvariant`, `RouteComparison`, `StatisticsFollowTable`, `BreadthFirst`, `TableCoversTopology`, `RoutesAreShortest`; `DeliveredOnce` |
| `OlsrHelloProofs` | `HelloAssumption`: nodes are finitely many naturals, `VTime` positive | `NeighborsFollowLinks`, `SymmetricIsRecent`, `SelectorsHaveLinks` |
| `OlsrFloodingProofs` (flooding, and the topology set TCs end up in) | `FloodAssumption`: nodes are finitely many naturals, `TcTtl` and `SeqMod` positive; `TtlAssumption`: no more nodes than the TTL of a TC; `TopologyAssumption`, `WrapAssumption`: the ANSN does not come round within a hold time | `RelaysOnce`, `TakenRemembered`, `TcsReachAll`; `NewerTcsOnly` |
| `RingBufferProofs` (the buffer, and the server's threads that share it) | `SizeAssumption`; for two threads also `ServerAssumption` | `OffsetsInBounds`, `RingBufferIsByteQueue`; `CopiesStayInside`, `TwoThreadsServeAQueue`, `WholeFramesOnly` |
| `TimerQueueProofs` | `TimerAssumption`: distinct slots, positive times | `TimersSound`, `CallbacksSafe`, `NoTimerLost` |
| `PacketPipelineProofs` | `PipelineAssumption`: `QCap` and `CommandCap` positive | `QueuesTyped`, `RestartIsClean`, `LinksFollowCommands` |
| `SimControlProofs` | `ControlAssumption`: some node, `QCap` positive | `NoSecondStart`, `StreamsSettle` |

Two of them limit the system. `TtlAssumption`: a TC starts with TTL 64
(`olsr_route.c`), and the statistics of a node have room for 50 others
(`MAX_NODE_COUNT`). `WrapAssumption`: the ANSN has 2^16 values and moves on once
per TC and once per change of the MPR set, and an entry is held for three TC
intervals (`DEF_TOP_HOLD_TIME_MS`), so only tens of thousands of MPR changes within
one hold time could bring it round.

Along which argument:

- **MPR selection.** Coverage at the end of a call is not inductive. `SelectionInv`
  is: during a call, selected neighbours and candidates partition the symmetric
  ones, and `n2_set` is exactly what no selected one bridges. When the greedy loop
  ends, either `n2_set` is empty or no candidate reaches any of it; the second
  contradicts the partition. The refinement follows from coverage at the step that
  ends the call. That a neighbour of greatest reachability exists is proved from
  the finiteness of the set.
- **Route calculation.** `RouteInv` says that a route passes only through
  destinations that have entries already. Hence a new entry, whose destination has
  none, extends a route that does not contain it: routes stay simple. Two simple
  routes to one destination cannot be proper prefixes of one another, which bounds
  the comparison. `StatMatchesTable` needs the statistics to agree with the *old*
  table during a calculation, and the previous fact. For the length of routes,
  `BfsInv` describes the search: hop counts in the queue ascend and no entry is
  more than one hop beyond its head (`LayerInv`), and what is one hop behind a
  destination that has left the queue has an entry at most one hop longer
  (`ClosedInv`). At the end nothing waits. Given any route to `d`, consider the
  first position at which its node has no entry or one that is too long: it cannot
  be the first, a symmetric neighbour, nor come behind a node that is in order.
  `TableFollowsTopology` between calls needs, besides, that a node without a
  `TopologyInfoElem` advertises nobody: the TC that only creates one opens hops from
  its originator, whose own advertisement is empty, and none to it.
- **Link sensing.** That a symmetric link is at most two hold times old is shown by
  following the news of a reception (`RecentInv`): a link's timer and the silence
  of its other end add up to one hold time at most; a HELLO under way that lists
  its receiver was sent by someone who has heard it within one; and `sym_timer`
  plus the silence at the other end add up to two. `SelectorInv` says that no timer
  of a link runs out before that of a selector, since a HELLO that selects sets all
  of them. `NeighborFollowsLink` needs to know that MPR selection gives MPR status
  to symmetric neighbours only. `PopulateMprSet` runs the greedy loop as a recursive
  function, so the proof first shows that the function exists and is unique
  (`RunExists`, `RunUnique`), by way of a least counterexample in place of induction.
- **Flooding.** Copies of a message share a key (`KeyInv`) and a node that has passed
  it on has that key marked while copies are left (`MarkInv`), so a second copy is
  not passed on. That a TC which has been processed is remembered is not obvious:
  it is entered into the duplicate set by `olsr_msg_forwarding`, which is called only
  if the TTL exceeds one (`olsr_route.c:214`). `TtlInv` says that every hop less is the doing of another relay. A TC that
  comes to a node for the first time has been relayed neither by that node nor by
  its originator, so the TTL has gone down by the number of the other nodes at most.
- **Flooding reaches everybody.** `ReachInv`, for networks without loss and with
  symmetric links that stay. `DeliveryInv`: for every node `n` that has issued or
  relayed a TC and every neighbour `m`, a copy is in the tx buffer of `n`, in a packet
  from `n` to `m` or in the packet `m` is parsing, or `m` has processed the TC and, if
  `n` has selected it, relayed it. That `m` is not misled by its duplicate set needs
  `NumberInv` and `KnownInv`: a HELLO can have the number of a TC, but with a TTL of 1
  it enters no duplicate set. `CoverInv` is the coverage of `PopulateMprSet`, proved
  for its recursive function as for link sensing, with a bound on the turns of the
  greedy loop. When nothing is under way, let a node that has the TC have a neighbour
  without it. The node cannot have relayed the TC; it got it from a neighbour that did
  (`FromInv`), and the other one is two hops from there, behind a relay that was
  selected and so did hand it over (`NoneWithout`). The nodes that have the TC hence
  are a part with no way out, which in a connected network is all of it.
- **Topology set.** The code compares ANSNs, the property speaks of ages. `Since`
  is how far the ANSN has moved since a TC was built, at most `MaxBumps + 1` per
  interval. What is under way or held is younger than one delay and one hold time,
  so by `WrapAssumption` it is less than one round behind (`NoWrap`), and while no
  wrap lies between two TCs their ages and their ANSNs are ordered alike.
- **Data plane.** A frame goes to everyone who hears the sender, and each copy is
  addressed to one next hop. The copies of one packet therefore differ in their
  receivers but agree in their addressee, and at most one of them is in the queue
  of the node it is addressed to; only that one is delivered or sent on.
- **Ring buffer, one thread.** The abstract queue is read off the cells from `head`
  to `tail` modulo `Size + 1`. The lemmas say that push in one or two pieces writes
  behind it and pop reads from its front; the refinement maps each call to one call.
- **Ring buffer, two threads.** What a thread has measured may be wrong by the time
  it copies, and may even be no state the buffer was ever in. `InCall` is what
  remains true of the offset that the thread itself moves: the request does not go
  round twice (at most `2 * (Size + 1)` less the offset), hence each of its two
  pieces fits. Only a drop by the other thread changes that offset, and it sets it
  to 0, which makes the bound looser. Unlike the run, the theorem follows behaviours
  beyond the loss of the framing as well.
- **A queue served by two threads.** `ApartInv` says what a thread relies on between
  its measurement and its store: the free cells it writes to, or the filled ones it
  reads, are left alone by the other, because the other moves only its own offset,
  and in the direction that leaves more of them. A measured size may hence be too
  small but never too large, unless a drop or the unreduced `tail` came in between
  (`raced`). Each served call then is one step of `ByteQueue` at its last store, and
  every other access a stutter.
- **Frames.** `FramedInv`: the bytes taken already, those in the buffer, those the
  call in progress adds and those still to come - the body of the present report, or
  all that the frontend has sent and `recv` not returned - lead the receiver's state
  machine back to the start of a frame. Bodies have any length: the receiver counts
  down to zero (`CountsDown`), again by a least counterexample. `Reads` states this as a
  path, a function from positions to states; two such functions over the same bytes
  agree, by their least difference in place of induction (`Agree`), and paths are
  extended, split and joined as the buffer grows and shrinks.
- **Timer queue.** The four invariants of the module together are inductive, none is
  alone: that no freed element is in the tree needs `attached` to be right, which
  needs pointers to lead to active elements made for them, so that a callback
  frees the elements of its own record only. The proof takes the invariant apart
  per element and per pointer (`InvByParts`) and has one lemma per action.
- **Packet pipeline.** `TypeOK /\ NoOldFrames`, taken apart per queue (`ByQueue`):
  a queue either is flushed by a step, or keeps its messages, or gets one from
  a queue that is free of old ones because its reader is initialised.
  `LinksAsAsked` speaks of an empty command queue only; `LinksInv` says of any queue
  that carrying out what is in it (`Resulting`: the last command about a link
  decides) leads from the links there are to the ones asked for.
- **Stream control.** The same idea per node and stream: what a node runs after its
  queued commands (`RunsAfter`) agrees with what was asked of it (`Agrees`), where a
  process that has yet to start will flush its queue and one that was killed runs
  nothing. Were a start to meet a running stream, the stream would have been asked for
  already when it was started, or something was lost or moved in between. An incomplete
  message changes only the node that is noted, which is of no consequence while no node
  is asked (`NotedInv`).

Not proved, and checked by TLC on the instances above:

- Liveness, which the prover does not reach: `SelectionReturns`, `CalcReturns`,
  `Convergence`, `CatchesUp`, `GetsGoing`, `LoopsEndInDelivery`, `ReportsArrive`.
- `RedBlack`, `NothingDangles`, `LooksAreRight` and `IsOrderedSet`: `RbTree` follows
  the loops of the code with recursive operators.

`RingBuffer` is the other way round: its theorems hold for every size, and TLC meets
its whole calls in the run `server` only.

## Not modelled

- `cJSON`: third-party code. What it parses is taken as given.
- AODV: stubs.
- `olsr_mantissa.c`: the conversion of hold times to a mantissa and an exponent is
  floating-point arithmetic. Every message carries the same constant, which
  `OlsrHello` and `OlsrTopology` take decoded.
- Header layout, checksums, formatting, logging, `util/bufferpool.c` (unused).
- `olsr_context.c`: creating is `Init`; dumping and finalising are left out. The
  arrays of 50 entries (`node_info`, `duplicates[]` in `olsr_spf.c`) are far above
  what TLC can explore, although `MAX_NODE_ID` (128) allows more nodes than that.
- `pathloss_x100`: stored, never used.
- What a second start of a running stream does: `timerqueue_register_timer` would
  change the key of an element inside the tree, and the rest is a matter of the
  tree's memory. `NoDoubleStart` says when it can come to that.
- Reading the configuration file and the command line, and the simulator's exit on
  a signal.
- In server mode a `LinkInfo` that arrives before `simphy` has flushed its queue
  is lost. `asked` of `PacketPipeline` leaves such commands out, so `LinksAsAsked`
  does not show it; the same loss for stream commands is in `SimControl`.

## Plan

Done: MPR selection, route calculation, ring buffer, link sensing, flooding,
topology set, timer queue and streams, packet pipeline, red-black tree, TCP
server, stream control and reports, data plane.

Every safety property of a passing run is stated by a theorem as well, except those
of `RbTree`. What is left to TLC: liveness and the red-black tree.
