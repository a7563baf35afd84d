------------------------------ MODULE Topology ------------------------------
(***************************************************************************)
(* How a description of the network becomes links and routing tables       *)
(* (compat/src/Topology.cc): the weights of the links, the shortest        *)
(* distance between any two switches, and for every link the nodes it      *)
(* leads to on a shortest path.                                            *)
(*                                                                         *)
(* A switch is the sending half of an interface, its receiving half, or a  *)
(* router, numbered in that order.  The latencies and the numbers of       *)
(* switches between, which the relaxation also adds up, are read nowhere   *)
(* and left out.                                                           *)
(***************************************************************************)
EXTENDS Integers, Sequences, FiniteSetsExt, Wiring

CONSTANTS
    Descriptions,   \* the networks that may be described
    Infinite        \* infinite_latency: above the length of every path

(* A description gives the numbers of nodes and routers, the widths of the *)
(* routers, the vnets, the columns of a mesh, and the links to interfaces  *)
(* and between routers, with what is at their ends.  A link that names no  *)
(* vnets supports them all; no router is linked to itself.                 *)
ASSUME InfiniteAssumption == Infinite \in Nat \ {0}
ASSUME DescriptionsAssumption ==
    \A d \in Descriptions :
        /\ d.nodes \in Nat \ {0, 1} /\ d.routers \in Nat \ {0}
        /\ d.widths \in [0 .. d.routers - 1 -> Nat \ {0}]
        /\ d.vnets = 0 .. Cardinality(d.vnets) - 1 /\ Cardinality(d.vnets) \in Nat \ {0}
        /\ Len(d.ext) \in Nat \ {0} /\ DOMAIN d.ext = 1 .. Len(d.ext)
        /\ Len(d.int) \in Nat /\ DOMAIN d.int = 1 .. Len(d.int)
        /\ \A n \in DOMAIN d.ext : /\ d.ext[n].node \in 0 .. d.nodes - 1
                                   /\ d.ext[n].router \in 0 .. d.routers - 1
                                   /\ d.ext[n].weight \in 0 .. Infinite
        /\ \A n \in DOMAIN d.int : /\ d.int[n].src \in 0 .. d.routers - 1
                                   /\ d.int[n].dst \in 0 .. d.routers - 1 \ {d.int[n].src}
                                   /\ d.int[n].weight \in 0 .. Infinite

VARIABLES
    net,        \* the description read
    phase,      \* "links", "relax", "make", "route", or "fatal" once the program gave up
    step,       \* number of the pass of the loop the program is in
    weights,    \* [vnet -> [switch -> [switch -> weight of the link]]]: topology_weights
    dist,       \* the same for the shortest known paths
    outports    \* [switch -> the links out of it, in the order of its ports]

vars == <<net, phase, step, weights, dist, outports>>

Nodes == 0 .. net.nodes - 1
ReceiverOf(n) == n + net.nodes
RouterSwitch(r) == r + 2 * net.nodes
IsRouter(s) == s >= 2 * net.nodes

-----------------------------------------------------------------------------
(* Links as the map holds them: two for an external link, one for an       *)
(* internal one.                                                           *)

EndAt(end, width) == [cdc |-> end.cdc, serdes |-> end.serdes, width |-> width]

ExtIn(e) ==
    [src |-> e.node, dst |-> RouterSwitch(e.router), weight |-> e.weight, vnets |-> e.vnets,
     outDirn |-> "Local", inDirn |-> "Local", kind |-> "EXT_IN_", width |-> e.width,
     ends |-> [ext |-> EndAt(e.extEnd, e.width), int |-> EndAt(e.intEnd, net.widths[e.router])]]
ExtOut(e) ==
    [ExtIn(e) EXCEPT !.src = RouterSwitch(e.router), !.dst = ReceiverOf(e.node), !.kind = "EXT_OUT_"]
Internal(l) ==
    [src |-> RouterSwitch(l.src), dst |-> RouterSwitch(l.dst), weight |-> l.weight,
     vnets |-> l.vnets, outDirn |-> l.outDirn, inDirn |-> l.inDirn, kind |-> "INT_",
     width |-> l.width, ends |-> [src |-> EndAt(l.srcEnd, net.widths[l.src]),
                                  dst |-> EndAt(l.dstEnd, net.widths[l.dst])]]

Links ==
    [n \in DOMAIN net.ext |-> ExtIn(net.ext[n])]
        \o [n \in DOMAIN net.ext |-> ExtOut(net.ext[n])]
        \o [n \in DOMAIN net.int |-> Internal(net.int[n])]

(* The links of a pair of switches in m_link_map, where addLink puts one   *)
(* after the other.                                                        *)
LinksBetween(i, j) ==
    LET links == Links
        added[n \in 0 .. Len(links)] ==
            IF n = 0 THEN << >>
            ELSE IF links[n].src = i /\ links[n].dst = j THEN Append(added[n - 1], links[n])
            ELSE added[n - 1]
    IN  added[Len(links)]

Supports(link, v) == link.vnets = {} \/ v \in link.vnets
CarriersOf(i, j, v) ==
    {n \in DOMAIN Links : Links[n].src = i /\ Links[n].dst = j /\ Supports(Links[n], v)}

Switches == DOMAIN outports
NumSwitches == Cardinality(Switches)

Init ==
    /\ net \in Descriptions
    /\ phase = "links" /\ step = 0
    /\ weights = << >> /\ dist = << >>
    /\ LET links == Links
           last  == Max(UNION {{links[n].src, links[n].dst} : n \in DOMAIN links})
       IN  outports = [s \in 0 .. last |-> << >>]

(* createLinks, its first loops: no link leaves an infinite weight; a link *)
(* for a vnet there is not is fatal, and so are two links of one vnet      *)
(* between the same switches.                                              *)
ReadWeights ==
    /\ phase = "links"
    /\ IF \/ \E n \in DOMAIN Links : ~(Links[n].vnets \subseteq net.vnets)
          \/ \E i, j \in Switches, v \in net.vnets : Cardinality(CarriersOf(i, j, v)) > 1
       THEN phase' = "fatal" /\ UNCHANGED <<weights, dist>>
       ELSE /\ phase' = "relax"
            /\ weights' = [v \in net.vnets |-> [i \in Switches |-> [j \in Switches |->
                   LET carriers == CarriersOf(i, j, v)
                   IN  IF carriers # {} THEN Links[CHOOSE n \in carriers : TRUE].weight
                       ELSE IF i = j THEN 0 ELSE Infinite]]]
            /\ dist' = weights'
    /\ UNCHANGED <<net, step, outports>>

-----------------------------------------------------------------------------
(* extend_shortest_path: vnet by vnet, through k, row i.                   *)

(* Mutant of PassOf: the loops over rows and switches between swapped.     *)
RowsOutside(n) ==
    [vnet |-> n \div (NumSwitches * NumSwitches),
     via |-> n % NumSwitches, row |-> (n \div NumSwitches) % NumSwitches]

(* The vnet, the switch gone through and the row of a pass.                *)
PassOf(n) ==
    [vnet |-> n \div (NumSwitches * NumSwitches),
     via |-> (n \div NumSwitches) % NumSwitches, row |-> n % NumSwitches]

(* Mutant of Relaxed: only what saves more than 1 is taken.                *)
RelaxedBySome(d, i, j, k) ==
    IF d[i][k] < Infinite /\ d[k][j] < Infinite /\ d[i][k] + d[k][j] < d[i][j] - 1
    THEN d[i][k] + d[k][j] ELSE d[i][j]

(* The distance from i to j once paths through k count.                    *)
Relaxed(d, i, j, k) ==
    IF d[i][k] < Infinite /\ d[k][j] < Infinite /\ d[i][k] + d[k][j] < d[i][j]
    THEN d[i][k] + d[k][j] ELSE d[i][j]

NextPass(passes, next) ==
    IF step + 1 = passes THEN step' = 0 /\ phase' = next ELSE step' = step + 1 /\ UNCHANGED phase

ExtendRow ==
    LET p == PassOf(step)
    IN  /\ phase = "relax"
        /\ dist' = [dist EXCEPT ![p.vnet][p.row] =
                       [j \in Switches |-> Relaxed(dist[p.vnet], p.row, j, p.via)]]
        /\ NextPass(Cardinality(net.vnets) * NumSwitches * NumSwitches, "make")
        /\ UNCHANGED <<net, weights, outports>>

-----------------------------------------------------------------------------
(* createLinks, its last loop: the links of a pair of switches.            *)

(* Mutant of LinkIsShortestPathToNode: any way there will do.              *)
LinkLeadsToNode(src, next, final, v) ==
    weights[v][src][next] + dist[v][next][final] >= dist[v][src][final]

LinkIsShortestPathToNode(src, next, final, v) ==
    weights[v][src][next] + dist[v][next][final] = dist[v][src][final]

IsRealLink(i, j, v) == weights[v][i][j] > 0 /\ weights[v][i][j] # Infinite

(* The nodes each vnet reaches by way of j: routing_map.                   *)
RoutesThrough(i, j) ==
    [v \in net.vnets |->
        IF IsRealLink(i, j, v)
        THEN {n \in Nodes : LinkIsShortestPathToNode(i, j, ReceiverOf(n), v)} ELSE {}]

(* makeLink hands every link of the pair the same routes; a router or an   *)
(* interface gives it its next port, unless the widths do not fit.         *)
MakeLinks ==
    LET i == step \div NumSwitches
        j == step % NumSwitches
        between == LinksBetween(i, j)
        ports == [n \in DOMAIN between |-> [link |-> between[n], routes |-> RoutesThrough(i, j)]]
    IN  /\ phase = "make"
        /\ IF ~\E v \in net.vnets : IsRealLink(i, j, v)
           THEN /\ NextPass(NumSwitches * NumSwitches, "route")
                /\ UNCHANGED outports
           ELSE IF \A n \in DOMAIN between : Fits(between[n])
           THEN /\ NextPass(NumSwitches * NumSwitches, "route")
                /\ outports' = [outports EXCEPT ![i] = @ \o ports]
           ELSE /\ phase' = "fatal"
                /\ UNCHANGED <<step, outports>>
        /\ UNCHANGED <<net, weights, dist>>

Build == ReadWeights \/ ExtendRow \/ MakeLinks

-----------------------------------------------------------------------------
(* Properties                                                              *)

(* The distances are those of the shortest paths: a switch is at no        *)
(* distance from itself, and any other is reached best over some link of   *)
(* the first switch, or not at all.  With weights above 0 only the least   *)
(* lengths solve these equations.                                          *)
DistIsLeast ==
    phase = "make" /\ step = 0 =>
        \A v \in net.vnets, i, j \in Switches :
            dist[v][i][j] =
                IF i = j THEN 0
                ELSE Min({Infinite} \cup {weights[v][i][k] + dist[v][k][j] : k \in Switches \ {i}})

(* During the relaxation the distances only have to be right about the     *)
(* switches already gone through, and the row order must not matter: once  *)
(* the present round is done, no path through a switch of this or of an    *)
(* earlier round is shorter than the distance known.                       *)
RoundsAreFinal ==
    phase = "relax" =>
        LET p == PassOf(step)
            done == [i \in Switches |-> [j \in Switches |->
                        Relaxed(dist[p.vnet], i, j, p.via)]]
        IN  \A i, j \in Switches, m \in 0 .. p.via :
                done[i][m] < Infinite /\ done[m][j] < Infinite =>
                    done[i][j] <= done[i][m] + done[m][j]

MadeLinks == UNION {{outports[s][p].link : p \in DOMAIN outports[s]} : s \in Switches}

(* Whatever bridges the ends of a link have, flits get from the sender to  *)
(* the receiver and credits back, each object waking the one that reads    *)
(* from it, and the flits arrive in the width that is expected: where      *)
(* widths differ there is SerDes, or the program gave up (save where a     *)
(* clock crossing without SerDes hides that they differ).                  *)
LinksConnect ==
    phase = "route" /\ step = 0 =>
        \A l \in MadeLinks :
            ConnectsBothWays(l) /\ (CrossingsKeepWidth(l) => WidthKept(l))

=============================================================================
