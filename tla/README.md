# TLA+ models of pace-new

pace-new runs gem5's Garnet network model as a standalone program: a
description of a network on chip (JSON) is turned into routers, network
interfaces and links, traffic is injected, and flits move from tick to tick of
an event queue. `src/src/` holds the Garnet components, `src/compat/` the event
queue, topology, message buffers and driver that replace gem5's.

This directory holds the specifications of its core logic, the TLC
configurations that check them on small instances, and proofs for every
instance. `PROJECT.json` maps every definition to the lines it models and lists
runs, mutants, hazards, findings and theorems.

## The system

### Components, their state and operations

| Component | State | Operations | Correct when |
|---|---|---|---|
| Event queue (`compat/include/pace_compat/EventQueue.hh`, `Consumer.hh`) | current tick, ring of 256 buckets for near ticks, map for far ticks, the slot being run | `schedule`, `scheduled`, `setCurTick`, `process` | no wakeup is lost, early, late or repeated in a pass; every tick ends |
| Driver loop (`compat/src/main.cc`) | tick counter | step traffic, `process`, drain | every scheduled wakeup up to the last tick runs |
| Hop: output port, data link, input unit, credit link (`OutputUnit`, `OutVcState`, `NetworkLink`, `InputUnit`, `VirtualChannel`, `flitBuffer`, `CreditLink`) | VC states at both ends, credit counters, flits and credits on the wires | send a flit, link wakeups, buffer write, switch grant, credit return | credits conserved, one packet per VC, flits in order, an idle VC is drained |
| Router (`Router`, `InputUnit`, `OutputUnit`, `SwitchAllocator`, `CrossbarSwitch`) | VC buffers and states, output VC states, round-robin pointers, switch buffers, scheduled wakeups | `wakeup` = input units, output units, switch allocation in two stages, crossbar, rescheduling | one holder per output VC, no flit forgotten, ordered vnets in order, every packet served |
| Network interface (`NetworkInterface`) | output VC queues, VC states, enqueue times, message buffers, incoming flits, credits to return, scheduled wakeups | take messages, split them into packets and flits, pick a VC, arbitrate for the output link, exchange incoming flits for credits, hand messages over, take credits, reschedule | one copy of a message per destination, one packet per VC, order of ordered vnets, a credit for every flit, nothing stuck |
| Message buffers (`MessageBuffer.hh`) | FIFO of messages | enqueue, dequeue, peek | order, consumer woken |
| Topology (`compat/src/Topology.cc`) | link map, weights, distances, routing tables | add links, relax distances, build tables, make links | tables hold the shortest paths and only those |
| Routing unit (`RoutingUnit`) | routing table and weights by port, port directions | table lookup, XY | packets arrive, routes do not wait in a cycle, assertions hold |
| Bridges (`NetworkBridge`) | bytes and flits of the packet passed on, number of narrow flits of each wide one, credits counted | split and join flits and credits between widths | no flit or credit lost, packets whole, nothing kept over the end of a packet |
| Construction (`GarnetNetwork`, `RuntimeNetwork`) | the pointers between units, links and bridges | make links, bridges and ports from the description | flits and credits find their way, and in the width that is expected |
| Traffic drivers (`SyntheticTraffic`, `main`) | injection and delivery counters, latencies | inject by pattern or replay, collect, drain, report | nothing lost in the counts, packets on time, patterns are permutations, drains suffice |

Components call one another directly within a wakeup (an input unit asks the
routing unit, the allocator takes flits from input units and asks output units
for VCs) and across ticks only through flit queues and the event queue: a link
reads its source's queue and schedules its consumer. Nothing runs in parallel;
the hard part is the order of wakeups within and between ticks, each handler
acting on a state that others left some ticks ago.

What is hard here: credits and free signals that travel back while flits travel
on; a wakeup that nobody schedules, after which a flit stays for ever; the reuse
of ring buckets; two arbiters that choose separately; ordered vnets spread over
several VCs; a message that finds no free VC and is tried again; credits split and joined
by another bridge than the flits; tables that are only almost shortest; weights
that let routes wait in a cycle. `hazards` in
`PROJECT.json` lists each at its line.

### Modules

| Module | Models | Abstracts |
|---|---|---|
| `VcFlow` | one hop with either kind of sender (a router's output unit or an interface), every handler an action, interleaved without time | payload and route of a flit, latency |
| `VcLease` | the promise of a hop: a VC is leased to one packet, filled up to its depth, drained and released | everything else |
| `Router` | `Router::wakeup` tick by tick, with neighbours that obey the credit protocol | ticks relative to the present; enqueue times by their order |
| `NetworkInterface` | `NetworkInterface::wakeup` tick by tick: sending, receiving and the credit links it wakes | delays as above; routes |
| `EventQueue` | schedule, process in passes, ring and map, the driver's loop | what a wakeup does besides scheduling |
| `Agenda` | the promise of an event queue: a set of appointments, each kept once per pass in its tick | ring, map, slot |
| `Bridge` | a hop with a pair of bridges between units of different widths: what is split and joined in both directions | latencies, the routers around it |
| `Wiring` | which pointers the constructors of links and bridges and the `add*Port` of the units set, for every kind of link | names, latencies |
| `Topology` | `createLinks`: weights, relaxation row by row, tables, links and ports pair by pair | latencies, which nothing reads |
| `RoutingUnit` | extends `Topology`: a packet's way over the finished network, by table or XY | other packets: routing keeps no state |
| `Traffic` | the loops of `main` with the synthetic and the replay driver, around a network that delivers in bounded time; percentiles | the network; dice of the injection rate are free choices |
| `Wires` | predicates on sequences of flits and credits | |
| `DataTheorems` | lemmas on numbers, least and greatest members, queues, wires | |
| `VcFlowProofs`, `RouterProofs`, `NetworkInterfaceProofs`, `BridgeProofs`, `EventQueueProofs`, `TopologyProofs`, `TrafficProofs` | the theorems of the modules they extend | |

State variables and actions keep the names of the code where it has one
(`vcState`, `credits`, `outBuffer`, `near`, `far`, `rrInport`,
`ScheduleOutputLink`, `SwitchAllocator`). A handler is one action; where the
code's wakeup runs several parts in turn (router, interface), `stage` says which
part is next, so the parts follow in the code's order and nothing comes between
them that the code would not allow.

How they fit: `Router` and `NetworkInterface` are two ends of the hops that
`VcFlow` describes; what they assume of their neighbours (a flit only with a
credit, a free signal only with the last credit of the tail) is what `VcFlow`
shows and proves. Each of them assumes that a wakeup scheduled is a wakeup run:
`EventQueue` shows this. `RoutingUnit` shows that the outport the router is
given leads to the destination, over links that `Wiring` shows to be connected.
`Bridge` shows that a hop with bridges keeps the promise of one without: a
credit for every flit, a VC free only when drained. `Traffic` takes the network
as these modules leave it, as something that delivers every message once.

Definitions headed "Mutant of X" belong to no model. Each is a plausible bug:
with it in place of X, the property named in `PROJECT.json` fails.

## Runs

| Run | Question | Instance |
|---|---|---|
| `vcflow` | Are credits conserved, VCs drained when idle, flits in order, and does the hop implement `VcLease` under every interleaving? | one vnet of two VCs with 2 buffers, packets of 1 to 3 flits, longer than the buffers |
| `event_queue` | Does the ring with the map implement `Agenda`; does every event fire and every tick end? | three objects, window of 2 ticks, delays 1 and 2 (near and beyond the ring) and 0 for the link, 4 ticks: every bucket is reused |
| `router_safety` | One holder per output VC, credits, wakeups and ordered flows when two inports compete; do the scheduled wakeups cover a pipeline? | 2 inports, 1 outport, 3 pipeline stages, an ordered vnet of 2 VCs with 1 buffer, packets of 1 or 2 flits |
| `router_fair` | Is every packet served within one vnet? | 2 inports, 1 outport, 1 vnet of 2 VCs |
| `router_starvation` | (violation) the same with two vnets of one VC | 2 inports, 1 outport |
| `ni` | One copy per destination, one packet per VC, order, wakefulness, everything sent | 1 ordered vnet of 2 VCs, 3 messages to 1 or 2 nodes, 1 or 2 flits, 1 buffer |
| `ni_both` | Does an interface that sends and receives in the same wakeup return a credit for every flit, in order, hand over every message, and never leave a credit with its link asleep? | 2 vnets with an output port each, 2 messages, an input port with 2 arriving flits; links run before or after the interface in a tick |
| `routing` | Are distances least, rounds final, tables complete, routes convergent, XY assertions safe, mesh routes free of cyclic waiting, and are links and bridges connected in both directions with the right widths? | all networks of three routers of widths 1, 2, 3 with 6 possible links of weight 1 or 3, some with two vnets, meshes of 2x2 and 2x3 with the weights of `Mesh_XY.py`, descriptions that are refused; clock crossings and SerDes at some ends |
| `parallel_links` | (violation) Does a packet keep to links that support its vnet? | two routers, two parallel links for a vnet each |
| `serdes_widths` | (violation) Do bridges with SerDes stand between different widths? | a node of width 2 at a router of width 1 and one at a router of width 2, described as the topology scripts do |
| `bridge` | Where the widths differ, do all assertions of `flitisizeAndSend`, `flit::serialize` and `flit::deserialize` hold? Are credits conserved, packets whole at the other width, nothing kept over the end of a packet, and does every packet pass? | eight hops: split 2:1 and 4:1, join 1:2, 2:4 and 1:4, clock crossing only; 2 VCs of 1 to 4 buffers, sizes 1, 4, 5 (last wide flit partly filled) |
| `traffic` | Do the statistics add up, do drains suffice, are replays on time, patterns permutations, percentiles least? | 4 sources, 4 directories, 3 vnets, a network delay of 2; every pattern, random traffic, replays out of order, with missing sizes and an invalid packet |

Distinct states: `vcflow` 14 707, `event_queue` 89 568, `router_safety` 592 648,
`router_fair` 8 144, `ni` 36 126, `ni_both` 1 077 835,
`routing` 91 640, `bridge` 88 886, `traffic` 78 452.

The bounds are the smallest at which the cases happen: a packet longer than its
buffers needs depth below the packet's length; two VCs of a vnet let a later
packet overtake; two inports compete in both arbiters; a flit behind three stages
sees other wakeups between its arrival and its turn; a window of two ticks wraps
in four; three routers give a direct way and a detour, and a mesh of four a cycle
of links. The routers of the runs have one outport, more are left to the theorems.
`Depth`, `PipeStages`, `MaxFlits`, `NumMsgs`, `MaxArrivals`, `LastTick`, `Sizes`,
`Delay` and `Infinite` are the only bounds, and none changes what a handler does.
Widths that divide each other stand for 8, 16 and 32 bytes; four directories are
the least number that is a square and a power of two and has a diagonal. `infinite_latency` is 10000 in the
code and 100 in the runs, above the length of any path there.

Deadlock is checked except in `event_queue` (the driver stops at `LastTick`),
`traffic` (the program ends after the drain), `routing` (the program stops at a
description it refuses; `Arrives` covers packets that stop), `bridge` (a
hop whose VC has fewer buffers than flits make up a wide one does stop;
`PacketsPass` covers all others).

### Fairness

* `VcFlow`: weak fairness of each handler, because a link or unit with work
  schedules its own wakeup; starting a packet is not fair, nobody has to send.
  That a switch serves what may leave (`SwitchGrant`) and what has credit
  (`SendFlit`) is an assumption about the environment of the hop: `router_fair`
  shows it of a router with one vnet, `router_starvation` refutes it for two vnets
  of one VC each. `LeasesEnd` holds as far as the units at both ends serve the hop.
* `Router`, `NetworkInterface`: ticks go on (`TicksGoOn`), as the driver's loop
  calls them, and strong fairness of a neighbour that returns credits or goes on
  with a packet. Wakeups are not fair: they run in the ticks that were scheduled
  and in no other.
* `EventQueue`: weak fairness of the steps of the loop and of the wakeup that is
  running; what a wakeup schedules is not fair.
* `Bridge`: weak fairness of each handler: link, bridge and unit are scheduled
  when something is put into their queue. That a VC with a credit and a flit is
  served, and a buffered flit leaves, is assumed as in `VcFlow`. A new packet is
  not fair.
* `Traffic` states safety only; no fairness.
* `RoutingUnit`: weak fairness of a hop and of the delivery. This is an assumption:
  `Arrives` says that the routes end at the destination if every router serves
  every packet. `PacketsLeave` shows the latter for routers with one vnet only
  (`router_fair`), and `router_starvation` shows a router with two vnets of one VC
  each where it does not hold.

`AllSent` and `PacketsLeave` show that nothing gets stuck in the given instance.
`AllSent` is about a bounded number of messages; it does not show that an endless
stream of one vnet cannot starve another.

### What the runs found

* **A packet can starve** (`router_starvation`, `SwitchAllocator.cc:245`). The
  pointer `m_round_robin_inport` of an outport moves after every grant, whichever
  vnet it served. With two vnets of one VC each, grants to the other vnet bring
  it back to the same inport each time the output VC of the waiting packet is
  free. The comment where the pointers move says "We do it here to keep it fair"
  (`SwitchAllocator.cc:250-251`); between the vnets it is not.
* **Parallel links share their routes** (`parallel_links`, `Topology.cc:169`).
  `createLinks` accepts two links between the same switches if they carry
  different vnets, but `makeLink` gives both the routes of every vnet. A packet
  of vnet 1 then leaves on the link for vnet 0, against the assertion of
  `NetworkLink::wakeup` (`NetworkLink.cc:96`).
* **SerDes between equal widths** (`serdes_widths`, `RuntimeNetwork.cc:249`). The
  bridges at the interface of an external link get the width of the link, and the
  interface that of its bridge. With `ext_serdes`, which the scripts set for a node
  wider than its router (two in `configs/chiplets/example_3d.json`), both sides are
  equally wide, against `assert(target_width != cur_width)` of `flitisizeAndSend`
  (`NetworkBridge.cc:139`). A build with assertions (`make BUILD=debug`) ends at the first flit;
  one without goes on, with the credits and packets that `CreditsConserved`,
  `NothingLeftBehind` and `PacketsStayWhole` speak of. The model rests on three places: the width of the bridge
  (`RuntimeNetwork.cc:249-268`), the width the interface takes
  (`NetworkInterface.hh:107,201`), and the flag (`HeteroChiplet.py:144`).

## Proofs

All proofs hold for every value of the constants, from the assumptions named
beside the constants (`...Assumption`), which TLC evaluates in every run. Each
theorem about a state machine rests on one inductive invariant, shown to hold at
the start and to be preserved by every action, with one lemma per action.

### The hop (`VcFlowProofs`)

For every set of VCs, depth and packet length the invariants of `vcflow` hold of
`Spec`, and `Spec` implements `VcLease`. Nothing is assumed about the order or
number of the handlers' calls. `IInv` is the conjunction of

* `TypeOK`;
* `CreditConservation`: for each VC, the sender's credits, the flits on the way
  and in the buffer and the credits on their way back add up to its depth;
* `InOrder`: flits of a VC lie in increasing order on wire and buffer;
* `IdleInv`: a VC idle at the sender has nothing on the hop in either direction;
* `BoundInv`: all flits of a leased VC on the hop come before the next one to be
  sent, and no free signal is under way while the packet is not sent to its end;
* `HeadInv`: if the receiving VC is idle, what is left on the wires begins with
  the head;
* `FreeInv`: a free signal is the last credit of its VC, and implies that all
  of the packet has left the buffer.

None of the checked invariants is inductive alone: that a head finds its VC idle
at the far side needs `HeadInv`, which needs that a VC is leased again only when
drained (`IdleInv`), which needs that the free signal is last (`FreeInv`).
The sums over a wire and the predicates on it change by one entry when a handler
appends or takes one, which `DataTheorems` states once. `ImplementsLease` maps
every handler to `Open`, `Fill`, `Drain`, `Release` or a stutter.

### The router (`RouterProofs`)

`OneHolderAlways`, `CreditsAlwaysAddUp`, `NoWakeupIsLost` and `FlowsKeepOrder`, for
any number of ports, VCs, buffers and stages. `RouterInv` has three parts: the types; the
packets at the input VCs (`PacketInv`: an idle VC is empty and holds nothing, a
tail is the last flit of its VC, here and upstream); and the output VCs
(`OutInv`: one holder; a packet that is not held has its tail under way; nothing
follows the tail until the free signal is back; an idle VC carries nothing;
credits, crossbar, flits below and returning credits are `Depth`). Two inports
that were promised the same free VC cannot both get it because winners of one
allocation have different outports (`OneWinner`). `AwakeInv` is about wakeups:
each flit in the pipeline has the wakeup of its end scheduled, and while a flit
may take the switch one is scheduled for the next tick; it holds between the
arrivals and after the switch allocator, which is why it depends on `stage`.

`FlowsKeepOrder`, an action property: in an ordered vnet no flit leaves before
those of an earlier packet of its flow for the same outport. `SendAllowed` looks
only at VCs that are ready, so an earlier packet that could not go yet would be
passed. `OrderInv` says that there is none: when the first flit of a packet comes,
the earlier packets of its flow are here as a whole (`AllHere`), their tails still in
their buffers (`RestIsThere`), and their flits have no longer to wait for
the switch than those of the later packet (`WaitsAfter`). This needs what the
environment promises: upstream, the packets of a flow are sent one after the other.
The order of `m_enqueue_time` is kept as the set of VCs that became active before
a VC (`earlier`).

### The network interface (`NetworkInterfaceProofs`)

* `NeverAsleep`: `checkReschedule` after all parts of wakeup leaves no reason to
  wake without a wakeup.
* `OnePacketPerVcAlways`: what is left in a VC is the rest of one packet
  (`Rest`), credits balance (`Balance`), nothing follows a tail (`TailIsLast`)
  and an idle VC is drained (`IdleIsDrained`). The number of flits of a packet
  sets the `Rest` it begins with, and each flit sent leaves a `Rest` of one less.
* `FlitsAreExchanged` and `CreditsKeepMoving` for the receiving side: flits that
  arrived, less the one on the link, are the credits returned and to return, in
  order; the number of messages handed over is that of the tails (`CountInv`); a
  credit link with two credits is scheduled for the present tick (`AwakeWith`).
* `OrderAlwaysKept`, an action property: in an ordered vnet no flit leaves
  before those of an earlier message, whichever VCs are free. The ids of messages
  follow the order of acceptance in every queue (`MsgInv`), no message still in a
  queue is earlier than one in a VC of its vnet, and the enqueue time of a VC,
  which the model keeps as the set of VCs filled before it (`earlier`), puts every
  VC with flits of an earlier message first (`OrderInv`).
* `OneCopyAlways`: for each destination of an accepted message there is exactly
  one copy, in one of three places: sent, in one VC, or still to be made from one
  message of one queue (`CopyInv`); for all others there is none. A multicast that
  finds fewer free VCs than it has destinations serves its first destinations,
  one in each of these VCs, and keeps the rest; this needs that a destination is
  named once in a message (`QueueInv`) and that the VCs taken and the destinations
  served correspond one to one.

### The bridge (`BridgeProofs`)

`CreditsConserved`, `NothingLeftBehind`, `BridgesAssert` and `PacketsStayWhole`,
for every set of VCs, depth and packet size, and all hops with `WidthsDivide`:
one width divides the other, and without SerDes they are equal. Flits are of 8 or
16 bytes in the example chiplets, and all hops of the runs satisfy it.
`BridgesAssert` also needs that no SerDes stands between equal widths
(`WidthsDiffer`), which the code does not ensure (`serdes_widths`); the other three
theorems hold there too. The first
hypothesis is needed: with widths 3 and 2, which `flit.cc:97` rounds to a ratio
of 2, TLC finds an assertion of the credit bridge violated.

The state of the bridges is only small counters, so the invariant (`IInv`) says
that for each VC there are nine numbers that account for all of it
(`NumbersAccount`): the size of the packet, and how many flits were sent, taken by
the net bridge, made by it, entered and left the receiver, and how many credits
were turned by the credit bridge, given by it and came back. The flits and credits
on each wire are the stretch of a stream between two of these numbers
(`CarriesAll`, `OnTheWay`), the counters of the bridges are differences of them
(`InNetBridge`, `InCreditBridge`), and numbers on the narrow and on the wide side
are tied by the multiples of the ratio, the last one cut off at the end of the
packet (`Upto`, `Contain`, `Ladder`). Every handler moves one or two of the numbers
by one step. The sums of flits and credits follow from the numbers; where a sum is
over a sequence, a least counterexample stands for the induction.

### The event queue (`EventQueueProofs`)

`NoEventLeftBehind`: for every window, every set of delays and of objects. A
bucket holds ticks of its own index only, ring and map hold nothing for ticks
that are over, and a tick is left only when nothing is filed for it.

`ImplementsAgenda`: the ring with the map is an `Agenda`, in which an appointment
is a pair of an object and a tick (`Appointments`) and the slot the set of objects
of the pass. A step of the code is one step of the agenda, or none
(`AgendaStep`). An appointment is lost when a bucket is cleared that holds
another, and repeated when an object is filed twice, so the invariant
(`AgendaInv`) adds that no bucket holds a tick beyond the window (`RingIsNear`; with
the above, a bucket that a near tick takes over holds nothing, `NothingCleared`)
and that an object is filed for a tick once, in the ring or in the map but not in
both (`OnceInRing`, `OnceInMap`, `InOnePlace`): an event of the map stays there
when its tick comes near, and one is never filed in the map for a tick with a
bucket (`NoBucketBeyond`). That the sort keeps the objects and orders them by rank
(`SortedPass`) follows from counting those in front of each (`RanksCount`).

### The distances and the routes (`TopologyProofs`)

`TablesAreShortest` and `RoundsAreAlwaysFinal`: `extend_shortest_path` is right
for every network, whatever its size, vnets and weights from 0 to `Infinite`, as
long as no router is linked to itself. The code relaxes in place, so within a
round some rows are of this round and some of the last. The invariant speaks of
the table the round leads to (`Round`), which relaxing a row does not change
(`RowRelaxed`), because the row and column of the switch gone through stay as
they are (`RelaxedAt`). That table is closed for one more switch
(`RoundIsClosed`: no way through it is shorter), and each distance in it still
begins with a link (`RoundIsSound`). Vnets before the present one are finished,
later ones untouched (`RelaxInv`); `PassIs` follows the three nested loops
through the number of the pass.

`PacketsFindTheirWay` (no packet is ever without a route or delivered to the wrong
node) and `XYNeverTurnsBack` (the assertions of `outportComputeXY`) take this to
the packets, for every network of any size that is `Routable` (`AllRoutable`):

* every link weighs more than 0, because one of weight 0 counts in the distances
  but is never made;
* an interface has at most one link for a vnet, because it does not look where
  its links lead to;
* where columns are given, and XY routing may be asked for, the routers fill a
  rectangle and the links between them join all neighbours and nothing else
  (`IsMesh`).

`Mesh_XY.py` writes such descriptions, and so does `HeteroChiplet.py`, without
columns and as long as its input does not set a weight to 0; an assumption of
`MCRoutingUnit` has TLC evaluate that all networks of the runs are of this kind. `BuildInv`
follows the construction: each weight is that of the link that carries the vnet
(`WeightsInv`), each port has the routes of its pair of switches (`PortsInv`),
and each link has a port once its pair is done (`MadeInv`). Shortest distances and
positive weights then give a port that leads on from every switch the node is
reachable from, and a shorter distance behind it (`NextHop`, `PortsLeadOn`,
`LookupFinds`). `RouteInv` says of the packet that the tables lead on from where it
is, or that it is there, or that XY routing has turned only as it may: a packet
that came from the south has its column already, one from the west has not gone
too far (`Turned`, `StepTurns`). That the router XY aims at (`RouterOf`) is the
one the tables deliver from needs that the last link of a shortest path is the
only link of the node (`LastLinkExists`, `InterfacePort`, `HomeLeadsThere`).

`RoutesNeverWaitInACycle`: in every mesh with the weights of `Mesh_XY.py`
(`MeshXY`, beyond `Routable`: links in a row weigh 1, in a column 2, and each node
has a link for each vnet), no set of links between routers has each of them held by
packets that wait for another of the set. The distance between two routers is that
of their columns plus twice that of their rows (`Length`, `NeverFarther`,
`NeverNearer`; both need that distances are shortest), cut off at `Infinite`. Of the
links that lie on shortest paths `lookupRoutingTable` takes one of least weight, so
one in the row while the column is not reached (`TablesLeadTowards`); XY routing
does the same by its rule (`OutportsLeadTowards`). A link in a row is followed by
one further on in the same direction or by one in a column, and a link in a column
by one further on in it. How far ahead a link is (`Ahead`) thus shrinks along
`WaitsFor`, and one of the set with the least of it waits for none (`WaitsAhead`).

`LinksAlwaysConnect` is about `Wiring`: of the pointers that a construction sets,
none replaces another on the same link (`PointersDiffer`, `NoneReplaced`), so
each object wakes the one that was set, and on both wires that is the one
that reads from it, bridges or not (`TargetsAre`, `WireConnects`). The widths fit
because construction refuses those that differ without SerDes; that a port is made
only then is the invariant `FitsInv`.

### The traffic (`TrafficProofs`)

`Total`, the sum of a function, is the size of a set of pairs (`PairsAre`), so sums
need no recursion: they split (`TotalOfParts`), add (`TotalOfSum`), move along a
bijection (`TotalOfImage`), and counting by vnet gives the number of all
(`CountByParts`).

* `NothingIsLost`: a message changes place, from the driver to the network, to
  `from_net`, to the statistics. The sums move with it only if no two messages
  become one: those in `from_net` have a tick of being ready and the others have
  none, new ones are of this cycle while all others are older (`MsgInv`, `Apart`),
  and two that arrive together stay two (`ArrivedApart`). Flits are compared where
  the packets of a replay name as many as their size has (`Consistent`).
* `DrainsSuffice`: `MsgInv` bounds where a message can be at an age; after
  the drain each would be older than that, provided that the driver looks at
  every node messages go to and leaves none that is ready (`WatchedInv`). This
  needs `DestinationsExist`: the code does not check that a pattern on a number of
  directories that is not a square, or fewer directories than sources, stays
  among the directories. All configurations of the run satisfy it.
* `ReplaysOnTime`: `std::stable_sort` puts the packets in order (`StableSorts`,
  `SortedIs`), and the loop of `step`, which stops at the first packet of another
  cycle, then takes exactly those of this one (`DueInCycle`, `NoGaps`).
* `PercentilesAreLeast`: the value at the rank of a percentile in the sorted list
  is the least that suffices (`NearestRankIsLeast`, for any percentile up to 100
  and any list of numbers).
* `PatternsArePermutations`, for as many sources as directories, a square and
  even number of them (`Square`): the patterns on rows and columns are
  injective in either coordinate, the others in the halves of the nodes. For
  `bit_reverse`, a sum over the bits of a number, there is only the run.

### Only model-checked

* Liveness (`LeasesEnd`, `EveryEventFires`, `PacketsLeave`, `AllSent`, `Arrives`,
  `PacketsPass`): fairness and `ENABLED` are out of the prover's reach.
* `PatternsPermute` for `bit_reverse`: powers of two and a fold over bits.

What a recursive function computes is proved only where a least counterexample
can stand for the induction: sums over a sequence, and the links that `addLink`
puts one after the other (`LinksBetween`).

No module uses `RECURSIVE`.

## Not modelled

* Widths that do not divide each other: `flit.cc:97` rounds their ratio up, and
  `Bridge` shows its properties for widths that divide each other only.
* A link of latency 0, which the description may ask for, makes its consumer run
  twice in a tick. `EventQueue` covers the scheduling; `Router` and
  `NetworkInterface` are woken at most once in a tick.
* The stall queue of an interface cannot fill (`areNSlotsAvailable` is always
  true), so `checkStallQueue` changes nothing.
* A message of size 0, whose packet has no flits and never frees its VC; only a
  replay could ask for one.
* The deadlock counter that ends the simulation after 50000 attempts.
* `CUSTOM_` routing, a stub; functional accesses and the fault model, which
  serve a memory system that is not there; statistics, traces, JSON, scripts.

## What could follow

* `Network`: two or three routers with their interfaces as a closed system, with
  hops as in `VcFlow` and routes as in `RoutingUnit`: messages delivered once, in
  order in ordered vnets, without deadlock on a mesh, with links of latency 0. One
  router tick by tick has close to a million states at three stages, so it needs
  routers abstracted to `VcLease` per hop.
