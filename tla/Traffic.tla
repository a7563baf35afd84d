------------------------------ MODULE Traffic ------------------------------
(***************************************************************************)
(* The loops of main and the two traffic drivers around the network.  In   *)
(* every simulated cycle the driver injects messages and collects what was *)
(* delivered, the event queue runs the cycle, and the driver collects      *)
(* again; after sim_cycles it only collects, for drain_cycles.             *)
(*                                                                         *)
(* The network between the MessageBuffers to_net and from_net delivers     *)
(* each message within Delay cycles, in any order except that a flow of    *)
(* the ordered vnet keeps its order; a message put into from_net in one    *)
(* cycle is ready in the next.                                             *)
(***************************************************************************)
EXTENDS Integers, Sequences, FiniteSets, FiniteSetsExt, SequencesExt

CONSTANTS
    RequestNodes,   \* runtime.request_nodes: the sources of synthetic traffic
    DirectoryNodes, \* runtime.directory_nodes: its destinations
    NumVnets,       \* runtime.virtual_networks
    FlitSize,       \* getNiFlitSize
    Delay,          \* cycles the network needs at most (bounds the network)
    Configs         \* the configurations to check

ASSUME NodesAssumption ==
    RequestNodes \in Nat \ {0} /\ DirectoryNodes \in Nat \ {0} /\ NumVnets \in Nat \ {0}
ASSUME FlitSizeAssumption == FlitSize \in Nat \ {0} /\ Delay \in Nat

None     == -1
Optional == Nat \cup {None}

(* A packet of a replay names its size, its flits, or both.                *)
Packets == {p \in [cycle : Nat, src : Int, dst : Int, vnet : Int, size : Int, flits : Int] :
              p.size > 0 \/ p.flits > 0}
ASSUME ConfigsAssumption ==
    \A c \in Configs :
        c \in [synthetic : STRING, sender : Optional, dest : Optional, max : Optional,
               vnet : Optional, sim : Nat, drain : Nat, packets : Seq(Packets)]

Requests    == 0 .. RequestNodes - 1
Directories == 0 .. DirectoryNodes - 1
Nodes       == 0 .. RequestNodes + DirectoryNodes - 1
Vnets       == 0 .. NumVnets - 1

VARIABLES
    config,      \* SyntheticTrafficConfig or ReplayTrafficConfig
    phase,       \* where the loop of main is; done, failed
    cycle,       \* the loop variable and curTick
    sentBySource,\* _sent_by_source
    nextPacket,  \* _next_packet, the next index of config.packets
    network,     \* messages in to_net and in the network
    fromNet,     \* messages in from_net, with the tick of being ready
    injected,    \* injected_by_vnet
    delivered,   \* delivered_by_vnet
    injectedFlits,  \* injected_flits_by_vnet
    deliveredFlits, \* delivered_flits_by_vnet
    latencies    \* packet_latencies

inStats  == <<injected, injectedFlits>>
outStats == <<delivered, deliveredFlits, latencies>>
vars == <<config, phase, cycle, sentBySource, nextPacket, network, fromNet,
          injected, delivered, injectedFlits, deliveredFlits, latencies>>

CeilDiv(a, b) == (a + b - 1) \div b

(* The sum of the values of a function into the natural numbers.           *)
Total(f) == Cardinality(UNION {{x} \X (1 .. f[x]) : x \in DOMAIN f})

(* A sequence by keys, entries of equal keys as they were.                 *)
StableSort(s, key) ==
    LET place(i) == Cardinality({j \in DOMAIN s :
            key[j] < key[i] \/ (key[j] = key[i] /\ j < i)})
    IN  [n \in DOMAIN s |-> s[CHOOSE i \in DOMAIN s : place(i) = n - 1]]

(* Mutant of Sorted: the packets stay in the order of the file.            *)
Unsorted(packets) == packets

(* The stable sort by cycle of loadReplayTrafficConfig.                    *)
Sorted(packets) == StableSort(packets, [i \in DOMAIN packets |-> packets[i].cycle])

(* sim_cycles of a replay defaults to the cycle after the last packet.     *)
SimCycles(c) ==
    IF c.synthetic = "replay" /\ c.sim = 0 /\ c.packets # << >>
    THEN Last(Sorted(c.packets)).cycle + 1 ELSE c.sim

(* Where the loops go on when cycle t begins.                              *)
PhaseAt(t) ==
    CASE t < config.sim -> "step"
      [] t >= config.sim /\ t < config.sim + config.drain -> "process"
      [] OTHER -> "done"

Init ==
    /\ config \in {[c EXCEPT !.packets = Sorted(@), !.sim = SimCycles(c)] : c \in Configs}
    /\ phase = PhaseAt(0)
    /\ cycle = 0
    /\ sentBySource = [s \in Requests |-> 0]
    /\ nextPacket = 1
    /\ network = {}
    /\ fromNet = {}
    /\ injected = [v \in Vnets |-> 0]
    /\ delivered = [v \in Vnets |-> 0]
    /\ injectedFlits = [v \in Vnets |-> 0]
    /\ deliveredFlits = [v \in Vnets |-> 0]
    /\ latencies = << >>

-----------------------------------------------------------------------------
(* chooseDestination                                                       *)

Radix == Max({r \in 0 .. DirectoryNodes : r * r <= DirectoryNodes})
NumBits == Max({b \in 0 .. DirectoryNodes : 2 ^ b <= DirectoryNodes})

(* Mutant of BitReverse: one bit too many.                                 *)
BitReverseLong(s) ==
    MapThenSumSet(LAMBDA i : ((s \div 2 ^ i) % 2) * 2 ^ (NumBits - i), 0 .. NumBits - 1)

(* The lowest NumBits bits of s in reverse, of which the code takes one at *)
(* least.                                                                  *)
BitReverse(s) ==
    LET last == Max({NumBits, 1}) - 1
    IN  MapThenSumSet(LAMBDA i : ((s \div 2 ^ i) % 2) * 2 ^ (last - i), 0 .. last)

Patterns == {"bit_complement", "bit_reverse", "bit_rotation", "neighbor", "shuffle",
             "transpose", "tornado"}

(* The directory a pattern sends source s to.                              *)
PatternDest(s) ==
    LET x == s % Radix
        y == s \div Radix
        half == DirectoryNodes \div 2
    IN  CASE config.synthetic = "bit_complement" -> (Radix - y - 1) * Radix + (Radix - x - 1)
          [] config.synthetic = "bit_reverse"    -> BitReverse(s)
          [] config.synthetic = "bit_rotation"   -> s \div 2 + (s % 2) * half
          [] config.synthetic = "neighbor"       -> y * Radix + ((x + 1) % Radix)
          [] config.synthetic = "shuffle"        ->
                IF s < half THEN s * 2 ELSE s * 2 - DirectoryNodes + 1
          [] config.synthetic = "transpose"      -> x * Radix + y
          [] config.synthetic = "tornado"        ->
                y * Radix + ((x + CeilDiv(Radix, 2) - 1) % Radix)

ChooseDestination(s) ==
    IF config.dest # None THEN {config.dest}
    ELSE IF config.synthetic = "uniform_random" THEN Directories ELSE {PatternDest(s)}

(* chooseVnet: the configured vnet if there is one, else any of 0 .. 2.    *)
ChooseVnet == IF config.vnet \in Vnets THEN {config.vnet} ELSE {v \in Vnets : v <= 2}

MessageSizeForVnet(v) == IF v = 2 THEN 72 ELSE 8

-----------------------------------------------------------------------------
(* step                                                                    *)

(* injectForSource: num_packets_max and single_sender_id; the injection    *)
(* rate decides at random among the sources that may inject.               *)
MayInject(s) ==
    /\ config.max # None => sentBySource[s] < config.max
    /\ config.sender \in {None, s}

(* A message put into to_net; nr tells those of one cycle apart.           *)
Message(nr, src, dst, v, size) ==
    [nr |-> nr, src |-> src, dst |-> dst, vnet |-> v, size |-> size,
     created |-> cycle, ready |-> None]
OfVnet(S, v) == {m \in S : m.vnet = v}

(* The messages sent in one call of step: at most one of each source.      *)
Injections ==
    LET of(s) == {Message(s, s, RequestNodes + d, v, MessageSizeForVnet(v)) :
                    d \in ChooseDestination(s), v \in ChooseVnet}
        all == UNION {of(s) : s \in {r \in Requests : MayInject(r)}}
    IN  {S \in SUBSET all : \A m1, m2 \in S : m1.src = m2.src => m1 = m2}

(* The nodes whose from_net the driver looks at: the directories for       *)
(* synthetic traffic, all nodes for a replay.                              *)
Watched ==
    IF config.synthetic = "replay" THEN Nodes ELSE {RequestNodes + d : d \in Directories}

(* Mutant of IsReady: a message is ready in the cycle after.               *)
IsReadyLate(m) == m.ready < cycle

(* MessageBuffer::isReady; the messages of a buffer become ready in order. *)
IsReady(m) == m.ready <= cycle

Collected == {m \in fromNet : m.dst \in Watched /\ IsReady(m)}
FlitsOf(size) == CeilDiv(size, FlitSize)
NumFlits(messages) == Total([m \in messages |-> FlitsOf(m.size)])

(* Mutant of Rest: the loop ends with an empty buffer.                     *)
RestNothing == {m \in fromNet : m.dst \notin Watched}

Rest == fromNet \ Collected

(* collectDelivered: dequeue and count what is ready at the watched nodes. *)
CollectDelivered ==
    /\ fromNet' = Rest
    /\ delivered' = [v \in Vnets |-> delivered[v] + Cardinality(OfVnet(Collected, v))]
    /\ deliveredFlits' = [v \in Vnets |-> deliveredFlits[v] + NumFlits(OfVnet(Collected, v))]
    /\ LET order == SetToSeq(Collected)
       IN  latencies' = latencies \o [i \in 1 .. Len(order) |-> cycle - order[i].created]

(* SyntheticTraffic::step                                                  *)
SyntheticStep ==
    /\ phase = "step" /\ config.synthetic # "replay"
    /\ \E S \in Injections :
         /\ network' = network \cup S
         /\ sentBySource' = [s \in Requests |->
              sentBySource[s] + Cardinality({m \in S : m.src = s})]
         /\ injected' = [v \in Vnets |-> injected[v] + Cardinality(OfVnet(S, v))]
         /\ injectedFlits' = [v \in Vnets |-> injectedFlits[v] +
              Cardinality(OfVnet(S, v)) * FlitsOf(MessageSizeForVnet(v))]
    /\ CollectDelivered
    /\ phase' = "process"
    /\ UNCHANGED <<config, cycle, nextPacket>>

(* The packets the loop of ReplayTraffic::step comes to in this cycle.     *)
Due == {i \in DOMAIN config.packets :
          i >= nextPacket /\ \A j \in nextPacket .. i : config.packets[j].cycle = cycle}

Invalid(p) == p.src \notin Nodes \/ p.dst \notin Nodes \/ p.vnet \notin Vnets

(* ReplayTraffic::inject: each of size and flits defaults to the other.    *)
SizeOf(p)      == IF p.size > 0 THEN p.size ELSE p.flits * FlitSize
CountedFlits(p) == IF p.flits > 0 THEN p.flits ELSE FlitsOf(SizeOf(p))
MessageOf(i) ==
    LET p == config.packets[i] IN Message(i, p.src, p.dst, p.vnet, SizeOf(p))

(* ReplayTraffic::step                                                     *)
ReplayStep ==
    LET of(v) == {i \in Due : config.packets[i].vnet = v}
    IN
    /\ phase = "step" /\ config.synthetic = "replay"
    /\ \A i \in Due : ~Invalid(config.packets[i])
    /\ network' = network \cup {MessageOf(i) : i \in Due}
    /\ nextPacket' = nextPacket + Cardinality(Due)
    /\ injected' = [v \in Vnets |-> injected[v] + Cardinality(of(v))]
    /\ injectedFlits' = [v \in Vnets |-> injectedFlits[v] +
         Total([i \in of(v) |-> CountedFlits(config.packets[i])])]
    /\ CollectDelivered
    /\ phase' = "process"
    /\ UNCHANGED <<config, cycle, sentBySource>>

(* A packet with an invalid endpoint or vnet: inject throws, main gives up.*)
ReplayFails ==
    /\ phase = "step" /\ config.synthetic = "replay"
    /\ \E i \in Due : Invalid(config.packets[i])
    /\ phase' = "failed"
    /\ UNCHANGED <<config, cycle, sentBySource, nextPacket, network, fromNet,
                   inStats, outStats>>

-----------------------------------------------------------------------------
(* process, drain                                                          *)

(* m was sent before o on the same way, in the ordered vnet.               *)
GoesBefore(m, o) ==
    /\ m.vnet = 0 /\ o.vnet = 0 /\ m.src = o.src /\ m.dst = o.dst
    /\ m.created < o.created \/ (m.created = o.created /\ m.nr < o.nr)

(* What the network may deliver in this cycle: all that is due, and in the *)
(* ordered vnet nothing before an older message of the same flow.          *)
Deliverable(S) ==
    /\ \A m \in network : m.created + Delay <= cycle => m \in S
    /\ \A o \in S, m \in network : GoesBefore(m, o) => m \in S

(* The event queue runs the cycle: messages get to from_net.               *)
Process(S) ==
    /\ phase = "process"
    /\ Deliverable(S)
    /\ fromNet' = fromNet \cup {[m EXCEPT !.ready = cycle + 1] : m \in S}
    /\ network' = network \ S
    /\ phase' = "drain"
    /\ UNCHANGED <<config, cycle, sentBySource, nextPacket, inStats, outStats>>

(* drain collects once more, and the next cycle begins.                    *)
Drain ==
    /\ phase = "drain"
    /\ CollectDelivered
    /\ cycle' = cycle + 1
    /\ phase' = PhaseAt(cycle + 1)
    /\ UNCHANGED <<config, sentBySource, nextPacket, network, inStats>>

Next ==
    \/ SyntheticStep
    \/ ReplayStep
    \/ ReplayFails
    \/ \E S \in SUBSET network : Process(S)
    \/ Drain

Spec == Init /\ [][Next]_vars

-----------------------------------------------------------------------------
(* main.cc                                                                 *)

(* Mutant of PercentileNearestRank: the rank is rounded down.              *)
PercentileDown(values, p) ==
    LET sorted == StableSort(values, values)
    IN  sorted[Max({1, (p * Len(values)) \div 100})]

(* The value at the rank of percentile p, counted from 1.                  *)
PercentileNearestRank(values, p) ==
    LET sorted == StableSort(values, values)
        rank   == (p * Len(values) + 99) \div 100
    IN  sorted[Min({Max({rank, 1}), Len(values)})]

-----------------------------------------------------------------------------
(* Properties                                                              *)

InFlight(v) == OfVnet(network \cup fromNet, v)

(* A replay whose packets name as many flits as their size has.            *)
Consistent ==
    \A i \in DOMAIN config.packets :
        CountedFlits(config.packets[i]) = FlitsOf(SizeOf(config.packets[i]))

(* The statistics lose nothing: in every vnet the packets and flits        *)
(* injected are those delivered and those still in flight, and each        *)
(* delivered packet has one latency.                                       *)
Accounting ==
    /\ \A v \in Vnets :
         /\ injected[v] = delivered[v] + Cardinality(InFlight(v))
         /\ Consistent => injectedFlits[v] = deliveredFlits[v] + NumFlits(InFlight(v))
    /\ Len(latencies) = Total(delivered)

(* Draining one cycle longer than the network takes leaves nothing behind, *)
(* a message injected in the last cycle included.                          *)
DrainSuffices ==
    phase = "done" /\ config.drain >= Delay + 1 => injected = delivered

(* A replayed packet is injected in its own cycle, whatever the order of   *)
(* the file: after the step of a cycle all packets up to it are in.        *)
ReplayOnTime ==
    config.synthetic = "replay" =>
        \A i \in DOMAIN config.packets :
            LET begun == cycle + (IF phase \in {"process", "drain"} THEN 1 ELSE 0)
            IN  phase # "failed" =>
                (i < nextPacket <=> /\ config.packets[i].cycle < begun
                                    /\ config.packets[i].cycle < config.sim)

(* The patterns are permutations of the directories when there are as many *)
(* sources as directories, a square and power of two: every destination    *)
(* exists and no two sources meet at one.                                  *)
PatternsPermute ==
    config.synthetic \in Patterns /\ config.dest = None =>
        \A m1, m2 \in network :
            /\ m1.dst \in {RequestNodes + d : d \in Directories}
            /\ m1.dst = m2.dst => m1.src = m2.src

(* The p99 of the report is the least latency that 99 of 100 packets do    *)
(* not exceed; so for any percentile.                                      *)
PercentileIsLeast ==
    \A p \in {50, 90, 99} : latencies # << >> =>
        LET within(x) == Cardinality({i \in DOMAIN latencies : latencies[i] <= x})
            enough == {x \in ToSet(latencies) : within(x) * 100 >= p * Len(latencies)}
        IN  PercentileNearestRank(latencies, p) = Min(enough)

=============================================================================
