------------------------------ MODULE MCBridge ------------------------------
(* Hops that split, join and only change the clock domain; the widths      *)
(* divide each other, as the flit sizes 8, 16, 32 do, and differ where     *)
(* SerDes is enabled.                                                      *)
EXTENDS Bridge

Hop(s, d, serdes, depth) == [src |-> s, dst |-> d, serdes |-> serdes, depth |-> depth]

UnequalHops == {Hop(2, 1, TRUE, 1), Hop(4, 1, TRUE, 1), Hop(2, 1, TRUE, 2),
                Hop(1, 2, TRUE, 2), Hop(1, 2, TRUE, 1), Hop(2, 4, TRUE, 3), Hop(1, 4, TRUE, 4),
                Hop(2, 2, FALSE, 2)}
=============================================================================
