------------------------------- MODULE Wiring -------------------------------
(***************************************************************************)
(* How the two ends of a link are connected: the link itself, the credit   *)
(* link against its direction, and at each end with a clock crossing or    *)
(* SerDes a pair of bridges, one per direction.  RuntimeNetwork makes the  *)
(* objects, whose constructors set some of the pointers; GarnetNetwork's   *)
(* make*Link then has the units add their ports.  A link or bridge x takes *)
(* flits from its source and wakes its consumer when it has passed one on. *)
(*                                                                         *)
(* A link l has a kind, a width, and two ends with the flags cdc and       *)
(* serdes and the width of the unit there (of a router; an interface takes *)
(* the width of what it is connected to).                                  *)
(***************************************************************************)
EXTENDS Integers, Sequences, SequencesExt

(* LinkDirection: the names of both ends, the sender's first.              *)
EndsOf(kind) ==
    CASE kind = "EXT_IN_"  -> <<"ext", "int">>
      [] kind = "EXT_OUT_" -> <<"int", "ext">>
      [] kind = "INT_"     -> <<"src", "dst">>
SenderEnd(l)   == EndsOf(l.kind)[1]
ReceiverEnd(l) == EndsOf(l.kind)[2]

LinkOf(wire)      == [at |-> "link", wire |-> wire]
BridgeAt(e, wire) == [at |-> e, wire |-> wire]
UnitAt(e)         == [at |-> e, wire |-> "unit"]

HasBridge(l, e) == l.ends[e].cdc \/ l.ends[e].serdes

(* Mutant of BridgeType: the credits of an external link go with the data. *)
BridgeTypeOneWay(kind, e, wire) ==
    CASE kind = "EXT_IN_"  -> IF e = "ext" THEN "OBJECT_LINK" ELSE "LINK_OBJECT"
      [] kind = "EXT_OUT_" -> IF e = "int" THEN "OBJECT_LINK" ELSE "LINK_OBJECT"
      [] kind = "INT_" -> IF (e = "src") = (wire = "net") THEN "OBJECT_LINK" ELSE "LINK_OBJECT"

(* The types instantiateRuntimeNetwork gives to the bridges.               *)
BridgeType(kind, e, wire) ==
    CASE kind = "EXT_IN_"  -> IF (e = "ext") = (wire = "net") THEN "OBJECT_LINK" ELSE "LINK_OBJECT"
      [] kind = "EXT_OUT_" -> IF (e = "int") = (wire = "net") THEN "OBJECT_LINK" ELSE "LINK_OBJECT"
      [] kind = "INT_"     -> IF (e = "src") = (wire = "net") THEN "OBJECT_LINK" ELSE "LINK_OBJECT"

(* The width of a bridge: towards an interface that of the link.           *)
BridgeWidth(l, e) == IF e = "ext" THEN l.width ELSE l.ends[e].width

Pointer(x, field, y) == [of |-> x, field |-> field, to |-> y]

(* The constructor of a bridge connects it to its link.                    *)
BridgePointers(l, e, wire) ==
    IF ~HasBridge(l, e) THEN {}
    ELSE IF BridgeType(l.kind, e, wire) = "OBJECT_LINK"
    THEN {Pointer(LinkOf(wire), "source", BridgeAt(e, wire)),
          Pointer(BridgeAt(e, wire), "consumer", LinkOf(wire))}
    ELSE {Pointer(LinkOf(wire), "consumer", BridgeAt(e, wire)),
          Pointer(BridgeAt(e, wire), "source", LinkOf(wire))}

(* What makeExtInLink, makeExtOutLink, makeInternalLink hand to the unit.  *)
PortOf(l, e, wire) == IF HasBridge(l, e) THEN BridgeAt(e, wire) ELSE LinkOf(wire)
PortWidth(l, e)    == IF HasBridge(l, e) THEN BridgeWidth(l, e) ELSE l.width

(* The width of the flits a unit sends and takes: an interface keeps the   *)
(* width of its port (bitWidth), a router has one of its own.              *)
UnitWidth(l, e) == IF e = "ext" THEN PortWidth(l, e) ELSE l.ends[e].width

(* addOutPort of the sender, addInPort of the receiver.                    *)
OutPortPointers(l) ==
    LET e == SenderEnd(l)
    IN  {Pointer(PortOf(l, e, "net"), "source", UnitAt(e)),
         Pointer(PortOf(l, e, "credit"), "consumer", UnitAt(e))}
InPortPointers(l) ==
    LET e == ReceiverEnd(l)
    IN  {Pointer(PortOf(l, e, "net"), "consumer", UnitAt(e)),
         Pointer(PortOf(l, e, "credit"), "source", UnitAt(e))}

(* The pointers in the end: those of the ports are set last and replace    *)
(* what a constructor has set.                                             *)
PointersOf(l) ==
    LET ports   == OutPortPointers(l) \cup InPortPointers(l)
        bridges == UNION {BridgePointers(l, e, wire) :
                            e \in ToSet(EndsOf(l.kind)), wire \in {"net", "credit"}}
    IN  ports \cup {p \in bridges : \A q \in ports : q.of # p.of \/ q.field # p.field}

(* Mutant of Fits: fatal_if is left out.                                   *)
AlwaysFits(l) == TRUE

(* The fatal_if of Router::addInPort, addOutPort: the width of the router  *)
(* is that of its end of the link or bridge.                               *)
Fits(l) ==
    \A e \in ToSet(EndsOf(l.kind)) \ {"ext"} : PortWidth(l, e) = UnitWidth(l, e)

-----------------------------------------------------------------------------
(* Properties of a link                                                    *)

Targets(l, x, field) == {p.to : p \in {q \in PointersOf(l) : q.of = x /\ q.field = field}}

(* x wakes y when it has passed something on, and y takes it from x.       *)
HandsTo(l, x, y) == Targets(l, x, "consumer") = {y} /\ Targets(l, y, "source") = {x}

(* On a wire every object wakes the one that reads from it: from the unit  *)
(* at end a, through the bridges that are there and the link, to the unit  *)
(* at end b.                                                               *)
Connects(l, a, b, wire) ==
    /\ Targets(l, PortOf(l, a, wire), "source") = {UnitAt(a)}
    /\ HasBridge(l, a) => HandsTo(l, BridgeAt(a, wire), LinkOf(wire))
    /\ HasBridge(l, b) => HandsTo(l, LinkOf(wire), BridgeAt(b, wire))
    /\ Targets(l, PortOf(l, b, wire), "consumer") = {UnitAt(b)}

ConnectsBothWays(l) ==
    /\ Connects(l, SenderEnd(l), ReceiverEnd(l), "net")
    /\ Connects(l, ReceiverEnd(l), SenderEnd(l), "credit")

(* The width of a flit of width w behind end e: a bridge with SerDes makes *)
(* it that of its other side.                                              *)
WidthBehind(l, e, w) ==
    IF ~l.ends[e].serdes THEN w
    ELSE IF BridgeType(l.kind, e, "net") = "OBJECT_LINK" THEN l.width
    ELSE BridgeWidth(l, e)

(* A bridge without SerDes sits where the widths are equal.                *)
CrossingsKeepWidth(l) ==
    \A e \in ToSet(EndsOf(l.kind)) :
        HasBridge(l, e) /\ ~l.ends[e].serdes => BridgeWidth(l, e) = l.width

(* Flits are on the link in the width of the link, and reach the receiver  *)
(* in the width it expects (the assertions of NetworkLink::wakeup and      *)
(* NetworkInterface::wakeup on m_width).                                   *)
WidthKept(l) ==
    /\ WidthBehind(l, SenderEnd(l), UnitWidth(l, SenderEnd(l))) = l.width
    /\ WidthBehind(l, ReceiverEnd(l), l.width) = UnitWidth(l, ReceiverEnd(l))
=============================================================================
