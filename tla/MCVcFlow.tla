----------------------------- MODULE MCVcFlow -----------------------------
(* One vnet of two VCs with two buffers each, and packets longer than the  *)
(* buffers: head, body and tail flits all wait for credits.                *)
EXTENDS VcFlow

MCVnetOf == [v \in VCs |-> 0]
MCDepth == [v \in VCs |-> 2]
=============================================================================
