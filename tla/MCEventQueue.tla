---------------------------- MODULE MCEventQueue ----------------------------
(* A link, the router it feeds and a network interface, in the order of    *)
(* their priorities; the latency of the link is 0.  With a window of two   *)
(* ticks, a delay of 1 is near and 2 is beyond the ring, and every index   *)
(* of the ring is used again.                                              *)
EXTENDS EventQueue

MCObjects == 1 .. 3
MCRank == [o \in MCObjects |-> o]
MCSameTick == {<<1, 2>>}
=============================================================================
