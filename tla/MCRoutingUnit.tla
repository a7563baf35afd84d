--------------------------- MODULE MCRoutingUnit ---------------------------
(* Small networks of two kinds: all networks of three routers of unequal   *)
(* widths whose links have weight 1 or 3 or are missing, with two nodes,   *)
(* and meshes.  Links have SerDes where widths differ, as the topology     *)
(* scripts give it to them, and some a clock crossing.                     *)
EXTENDS RoutingUnit

End(cdc, serdes) == [cdc |-> cdc, serdes |-> serdes]
Plain == End(FALSE, FALSE)

(* A link of width w to a router of width width.                           *)
ExtOfWidth(n, r, w, width) ==
    [node |-> n, router |-> r, weight |-> 1, vnets |-> {}, width |-> w,
     extEnd |-> End(n = 0, FALSE), intEnd |-> End(FALSE, w # width)]
Ext(n, r) == ExtOfWidth(n, r, 1, 1)

(* A link between routers of widths[s] and widths[d], as wide as the       *)
(* narrower of them.                                                       *)
LinkIn(widths, s, d, w, vs, out, in) ==
    LET width == Min({widths[s], widths[d]})
    IN  [src |-> s, dst |-> d, weight |-> w, vnets |-> vs, outDirn |-> out, inDirn |-> in,
         width |-> width, srcEnd |-> End(s = 0, widths[s] # width),
         dstEnd |-> End(w = 3, widths[d] # width)]
Equal(routers) == [r \in 0 .. routers - 1 |-> 1]
Link(s, d, w, vs, out, in) == LinkIn(Equal(Max({s, d}) + 1), s, d, w, vs, out, in)

Unequal == [r \in 0 .. 2 |-> r + 1]
Pairs == << <<0, 1>>, <<1, 2>>, <<2, 0>>, <<1, 0>>, <<2, 1>>, <<0, 2>> >>

(* A link that is missing has weight 0 here; w[n] = 1 or 3 otherwise.  The *)
(* links from 1 to 2 carry vnet 0 only if there are two vnets.             *)
Triangle(w, vnets) ==
    LET all == [n \in 1 .. 6 |->
                   LinkIn(Unequal, Pairs[n][1], Pairs[n][2], w[n],
                          IF n = 2 /\ Cardinality(vnets) > 1 THEN {0} ELSE {}, "Out", "In")]
    IN  [nodes |-> 2, routers |-> 3, widths |-> Unequal, cols |-> 0, vnets |-> vnets,
         ext |-> <<Ext(0, 0), ExtOfWidth(1, 2, 2, 3)>>,
         int |-> SelectSeq(all, LAMBDA l : l.weight > 0)]

(* Mesh_XY.makeTopology with one node per router.                          *)
MeshLinks(rows, cols) ==
    LET last == rows * cols - 1
        East(r) == Link(r, r + 1, 1, {}, "East", "West")
        North(r) == Link(r, r + cols, 2, {}, "North", "South")
        Back(l) == Link(l.dst, l.src, l.weight, {}, l.inDirn, l.outDirn)
        all == [n \in 1 .. last + 1 |-> East(n - 1)] \o [n \in 1 .. last + 1 |-> North(n - 1)]
        links == SelectSeq(all, LAMBDA l : l.dst <= last /\ (l.outDirn = "East" => l.dst % cols # 0))
    IN  links \o [n \in DOMAIN links |-> Back(links[n])]
Mesh(rows, cols, vnets) ==
    [nodes |-> rows * cols, routers |-> rows * cols, widths |-> Equal(rows * cols),
     cols |-> cols, vnets |-> vnets,
     ext |-> [n \in 1 .. rows * cols |-> Ext(n - 1, n - 1)], int |-> MeshLinks(rows, cols)]

(* Two links for one vnet: refused.                                        *)
Doubled ==
    [nodes |-> 2, routers |-> 2, widths |-> Equal(2), cols |-> 0, vnets |-> {0},
     ext |-> <<Ext(0, 0), Ext(1, 1)>>,
     int |-> <<Link(0, 1, 1, {}, "Out", "In"), Link(0, 1, 2, {0}, "Out", "In")>>]

(* A link for a vnet there is not: refused.                                *)
NoSuchVnet ==
    [nodes |-> 2, routers |-> 2, widths |-> Equal(2), cols |-> 0, vnets |-> {0},
     ext |-> <<Ext(0, 0), Ext(1, 1)>>,
     int |-> <<Link(0, 1, 1, {0, 1}, "Out", "In"), Link(1, 0, 1, {}, "Out", "In")>>]

(* A narrow link between narrow routers and one end of a wide link, where  *)
(* there is nothing or only a clock crossing: the first is refused.        *)
Mismatched(far) ==
    [nodes |-> 2, routers |-> 2, widths |-> Equal(2), cols |-> 0, vnets |-> {0},
     ext |-> <<Ext(0, 0), Ext(1, 1)>>,
     int |-> <<Link(1, 0, 1, {}, "Out", "In"),
               [Link(0, 1, 1, {}, "Out", "In") EXCEPT !.width = 2, !.srcEnd = End(FALSE, TRUE),
                                                      !.dstEnd = far]>>]

Networks ==
    {Triangle(w, {0}) : w \in [1 .. 6 -> {0, 1, 3}]}
        \cup {Triangle(w, {0, 1}) : w \in [1 .. 6 -> {1, 3}]}
        \cup {Mesh(2, 2, {0, 1}), Mesh(2, 3, {0}), Doubled, NoSuchVnet,
              Mismatched(Plain), Mismatched(End(TRUE, FALSE))}

(* Two links from router 0 to router 1, each for a vnet of its own.        *)
Parallel ==
    {[nodes |-> 2, routers |-> 2, widths |-> Equal(2), cols |-> 0, vnets |-> {0, 1},
      ext |-> <<Ext(0, 0), Ext(1, 1)>>,
      int |-> <<Link(0, 1, w[1], {0}, "Out", "In"), Link(0, 1, w[2], {1}, "Out", "In"),
                Link(1, 0, 1, {}, "Out", "In")>>] : w \in [1 .. 2 -> {1, 2}]}

(* A wide and a narrow router with a wide node each (16, 8 and 16 bytes in *)
(* configs/chiplets/example_3d.json): the scripts make the link of a node  *)
(* as wide as the narrower end, with SerDes at an end of another width.    *)
ExtOfScript(n, r, nodeWidth, width) ==
    LET w == Min({nodeWidth, width})
    IN  [ExtOfWidth(n, r, w, width) EXCEPT !.extEnd = End(FALSE, w # nodeWidth)]
WideNodes ==
    LET widths == [r \in {0, 1} |-> 2 - r]
    IN  {[nodes |-> 2, routers |-> 2, widths |-> widths, cols |-> 0, vnets |-> {0},
          ext |-> <<ExtOfScript(0, 0, 2, 2), ExtOfScript(1, 1, 2, 1)>>,
          int |-> <<LinkIn(widths, 0, 1, 1, {}, "Out", "In"),
                    LinkIn(widths, 1, 0, 1, {}, "Out", "In")>>]}

ASSUME NetworksRoutable ==
    \A d \in Networks \cup Parallel \cup WideNodes : Routable(d) /\ (d.cols > 0 => MeshXY(d))
=============================================================================
