------------------------- MODULE MCNetworkInterface -------------------------
(* The vnets share the output ports in turn: with one port it supports all *)
(* of them, with two ports the vnets alternate.                            *)
EXTENDS NetworkInterface

MCPortOf == [n \in Vnets |-> n % NumPorts]
=============================================================================
