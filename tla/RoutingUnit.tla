---------------------------- MODULE RoutingUnit -----------------------------
(***************************************************************************)
(* The routes packets take over a network that Topology has built: the     *)
(* routing unit of each router (src/RoutingUnit.cc) picks the outport when *)
(* the head of a packet comes in.  Routing keeps no state, so one packet   *)
(* at a time shows all there is; the flow control of a hop is in VcFlow,   *)
(* the router itself in Router.                                            *)
(***************************************************************************)
EXTENDS Topology

CONSTANT OrderedVnets    \* isVNetOrdered

VARIABLES
    algorithm,  \* m_routing_algorithm: "TABLE_" or "XY_"
    pkt         \* the packet under way and the link it came over, or NoPacket

NoPacket == [vnet |-> -1]
routingVars == <<vars, algorithm, pkt>>

InitRouting ==
    /\ Init
    /\ algorithm \in (IF net.cols > 0 THEN {"TABLE_", "XY_"} ELSE {"TABLE_"})
    /\ pkt = NoPacket

-----------------------------------------------------------------------------
(* The routing unit of router switch r                                     *)

(* Ports that lead to node d.                                              *)
PortsTo(r, v, d) == {p \in DOMAIN outports[r] : d \in outports[r][p].routes[v]}

(* Mutants of LeastWeight: the weights ignored, and the least weight taken *)
(* over all ports of the router.                                           *)
AnyWeight(r, ports) == ports
LeastOfAll(r, ports) ==
    {p \in ports : \A q \in DOMAIN outports[r] :
        outports[r][p].link.weight <= outports[r][q].link.weight}

(* The ports of least weight among those that lead there.                  *)
LeastWeight(r, ports) ==
    {p \in ports : \A q \in ports : outports[r][p].link.weight <= outports[r][q].link.weight}

(* lookupRoutingTable: an ordered vnet always takes the first; an empty    *)
(* set is the fatal error that no route exists.                            *)
LookupRoutingTable(r, v, d) ==
    LET candidates == LeastWeight(r, PortsTo(r, v, d))
    IN  IF v \in OrderedVnets THEN {p \in candidates : \A q \in candidates : p <= q} ELSE candidates

(* Mutant of DirectionXY: the columns last.                                *)
DirectionYX(me, dest) ==
    LET dx == (dest % net.cols) - (me % net.cols)
        dy == (dest \div net.cols) - (me \div net.cols)
    IN  IF dy # 0 THEN (IF dy >= 0 THEN "North" ELSE "South")
        ELSE IF dx >= 0 THEN "East" ELSE "West"

(* outportComputeXY: the direction from router me towards router dest.     *)
DirectionXY(me, dest) ==
    LET dx == (dest % net.cols) - (me % net.cols)
        dy == (dest \div net.cols) - (me \div net.cols)
    IN  IF dx # 0 THEN (IF dx >= 0 THEN "East" ELSE "West")
        ELSE IF dy >= 0 THEN "North" ELSE "South"

(* m_outports_dirn2idx: the last port added for a direction, and the       *)
(* first port for a direction no port has.                                 *)
PortOfDirection(r, dirn) ==
    LET ports == {p \in DOMAIN outports[r] : outports[r][p].link.outDirn = dirn}
    IN  IF ports = {} THEN 1 ELSE Max(ports)

(* getOutportForVnet: the first port of interface n that carries vnet v,   *)
(* and the router behind it, which counts as the router of the node.       *)
OutportForVnet(n, v) == Min({p \in DOMAIN outports[n] : Supports(outports[n][p].link, v)})
RouterOf(n, v) == outports[n][OutportForVnet(n, v)].link.dst

OutportCompute(r, v, d) ==
    IF r = RouterOf(d, v) \/ algorithm = "TABLE_"
    THEN LookupRoutingTable(r, v, d)
    ELSE {PortOfDirection(r, DirectionXY(r - 2 * net.nodes, RouterOf(d, v) - 2 * net.nodes))}

-----------------------------------------------------------------------------
(* A packet's way                                                          *)

(* An interface sends a packet for a node it has a path to.                *)
SendPacket(n, v, d) ==
    /\ phase = "route" /\ pkt = NoPacket
    /\ dist[v][n][ReceiverOf(d)] < Infinite
    /\ pkt' = [vnet |-> v, dest |-> d, link |-> outports[n][OutportForVnet(n, v)].link]
    /\ UNCHANGED <<vars, algorithm>>

(* InputUnit::wakeup has the route computed for the head, which leaves     *)
(* over the link of the outport.                                           *)
AtRouter == pkt # NoPacket /\ IsRouter(pkt.link.dst)
Hop ==
    LET r == pkt.link.dst
    IN  /\ AtRouter
        /\ \E p \in OutportCompute(r, pkt.vnet, pkt.dest) :
              pkt' = [pkt EXCEPT !.link = outports[r][p].link]
        /\ UNCHANGED <<vars, algorithm>>

(* The interface at the end of the link hands the packet over.             *)
Deliver ==
    /\ pkt # NoPacket /\ ~IsRouter(pkt.link.dst)
    /\ pkt' = NoPacket
    /\ UNCHANGED <<vars, algorithm>>

Construct == Build /\ UNCHANGED <<algorithm, pkt>>

Next ==
    \/ Construct
    \/ \E n, d \in Nodes, v \in net.vnets : SendPacket(n, v, d)
    \/ Hop
    \/ Deliver

(* Every router forwards what it holds (Router shows when that is so).     *)
Spec == InitRouting /\ [][Next]_routingVars
FairSpec == Spec /\ WF_routingVars(Hop) /\ WF_routingVars(Deliver)

-----------------------------------------------------------------------------
(* Descriptions for which every packet finds its way                       *)

(* A link of weight 0 counts in the distances but is never made.           *)
WeightsCount(d) ==
    /\ \A n \in DOMAIN d.ext : d.ext[n].weight > 0
    /\ \A n \in DOMAIN d.int : d.int[n].weight > 0

(* An interface does not look where its links for a vnet lead to.          *)
OneLinkPerVnet(d) ==
    \A m, n \in DOMAIN d.ext, v \in d.vnets :
        /\ d.ext[m].node = d.ext[n].node
        /\ Supports(d.ext[m], v) /\ Supports(d.ext[n], v)
        => m = n

(* From router r to its neighbour s in a mesh it is one step in direction  *)
(* dirn.                                                                   *)
Offset == [East |-> <<1, 0>>, West |-> <<-1, 0>>, North |-> <<0, 1>>, South |-> <<0, -1>>]
NextTo(d, r, dirn, s) ==
    Offset[dirn] = <<(s % d.cols) - (r % d.cols), (s \div d.cols) - (r \div d.cols)>>

(* What XY routing needs: the routers fill a rectangle, and its links join *)
(* all neighbours and nothing else, for every vnet and at both ends in the *)
(* direction of the neighbour.                                             *)
IsMesh(d) ==
    /\ d.cols \in Nat \ {0} /\ d.routers % d.cols = 0
    /\ \A n \in DOMAIN d.int :
          LET l == d.int[n]
          IN  /\ l.vnets = {} /\ l.weight < Infinite
              /\ l.outDirn \in DOMAIN Offset /\ NextTo(d, l.src, l.outDirn, l.dst)
              /\ l.inDirn \in DOMAIN Offset /\ NextTo(d, l.dst, l.inDirn, l.src)
    /\ \A r, s \in 0 .. d.routers - 1, dirn \in DOMAIN Offset :
          NextTo(d, r, dirn, s) =>
              \E n \in DOMAIN d.int : d.int[n].src = r /\ d.int[n].outDirn = dirn

(* Mesh_XY gives one link per node, weights of 1 and 2 and a mesh;         *)
(* HeteroChiplet no mesh, and weights above 0 unless its input says 0.     *)
Routable(d) == WeightsCount(d) /\ OneLinkPerVnet(d) /\ (d.cols > 0 => IsMesh(d))

(* What Mesh_XY gives beyond that: steps in a row weigh less than steps in *)
(* a column, and every node has a link for every vnet.                     *)
MeshXY(d) ==
    /\ IsMesh(d)
    /\ \A n \in DOMAIN d.int :
          d.int[n].weight = IF d.int[n].outDirn \in {"East", "West"} THEN 1 ELSE 2
    /\ \A node \in 0 .. d.nodes - 1, v \in d.vnets :
          \E n \in DOMAIN d.ext : /\ d.ext[n].node = node /\ Supports(d.ext[n], v)
                                 /\ d.ext[n].weight < Infinite

-----------------------------------------------------------------------------
(* Properties                                                              *)

(* A packet that entered because its node is reachable is never caught at  *)
(* a router without a route, where the simulation ends with "No Route      *)
(* exists", nor delivered to a node it was not for.                        *)
RouteExists ==
    /\ AtRouter => OutportCompute(pkt.link.dst, pkt.vnet, pkt.dest) # {}
    /\ pkt # NoPacket /\ ~IsRouter(pkt.link.dst) => pkt.link.dst = ReceiverOf(pkt.dest)

(* Every packet arrives.                                                   *)
Arrives == (pkt # NoPacket) ~> (pkt = NoPacket)

(* The assertions of outportComputeXY on the direction a packet came from, *)
(* and the direction it leaves in is one the router has a port for.        *)
XYAllows(dirn, from) ==
    CASE dirn = "East"  -> from \in {"Local", "West"}
      [] dirn = "West"  -> from \in {"Local", "East"}
      [] dirn = "North" -> from # "North"
      [] dirn = "South" -> from # "South"
XYAssertsHold ==
    AtRouter /\ algorithm = "XY_" /\ pkt.link.dst # RouterOf(pkt.dest, pkt.vnet) =>
        LET r == pkt.link.dst
            dirn == DirectionXY(r - 2 * net.nodes, RouterOf(pkt.dest, pkt.vnet) - 2 * net.nodes)
        IN  /\ XYAllows(dirn, pkt.link.inDirn)
            /\ \E p \in DOMAIN outports[r] : outports[r][p].link.outDirn = dirn

(* Links between routers that wait for each other: a packet may hold the   *)
(* first while it waits for the second.                                    *)
InnerLinks == {l \in {Links[n] : n \in DOMAIN Links} : IsRouter(l.src) /\ IsRouter(l.dst)}
WaitsFor(a, b, v) ==
    /\ a.dst = b.src
    /\ \E d \in Nodes :
          /\ \E p \in OutportCompute(a.src, v, d) : outports[a.src][p].link = a
          /\ \E p \in OutportCompute(b.src, v, d) : outports[b.src][p].link = b

(* In a mesh with the weights Mesh_XY gives, no set of links wait for one  *)
(* another in a cycle: the routes cannot deadlock, which the comment on    *)
(* lookupRoutingTable makes the task of the weights.                       *)
NoCyclicWait ==
    phase = "route" /\ pkt = NoPacket /\ net.cols > 0 =>
        \A v \in net.vnets : \A S \in SUBSET InnerLinks :
            S # {} => \E a \in S : \A b \in S : ~WaitsFor(a, b, v)

(* NetworkLink::wakeup asserts that a link supports the vnet of every flit *)
(* it sends.                                                               *)
LinkSupportsVnet == pkt # NoPacket => Supports(pkt.link, pkt.vnet)

(* NetworkBridge::flitisizeAndSend asserts that a bridge with SerDes which *)
(* has a flit to convert stands between different widths.                  *)
SerDesConverts ==
    pkt # NoPacket =>
        \A e \in DOMAIN pkt.link.ends :
            pkt.link.ends[e].serdes => BridgeWidth(pkt.link, e) # pkt.link.width
=============================================================================
