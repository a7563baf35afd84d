------------------------------ MODULE MCRouter ------------------------------
(* The configurations of one router: two inports competing for an outport, *)
(* in one vnet of two VCs behind a pipeline of three stages (MCRouter) or  *)
(* of one (MCRouterFair), or in two vnets of one VC (MCRouterStarve).      *)
EXTENDS Router
=============================================================================
