------------------------------ MODULE VcLease ------------------------------
(***************************************************************************)
(* What a virtual channel promises to the packet that uses it, whatever    *)
(* lies between the two routers: a lease of the VC goes from "free" to     *)
(* "open" (flits may enter) to "closed" (the tail has entered) and back to *)
(* "free" only when every flit has left, and the buffer slots of the       *)
(* receiving VC are never exceeded.                                        *)
(***************************************************************************)
EXTENDS Integers

CONSTANTS VCs, Depth

VARIABLES phase, slots

leaseVars == <<phase, slots>>

Init ==
    /\ phase = [v \in VCs |-> "free"]
    /\ slots = [v \in VCs |-> 0]

Open(v) ==
    /\ phase[v] = "free"
    /\ slots[v] = 0
    /\ phase' = [phase EXCEPT ![v] = "open"]
    /\ UNCHANGED slots

(* A flit enters: the first one of a router's packet also opens the lease, *)
(* the last one closes it.                                                 *)
Fill(v, last) ==
    /\ \/ phase[v] = "open"
       \/ phase[v] = "free" /\ slots[v] = 0
    /\ slots[v] < Depth[v]
    /\ phase' = [phase EXCEPT ![v] = IF last THEN "closed" ELSE "open"]
    /\ slots' = [slots EXCEPT ![v] = @ + 1]

Drain(v) ==
    /\ phase[v] # "free"
    /\ slots[v] > 0
    /\ slots' = [slots EXCEPT ![v] = @ - 1]
    /\ UNCHANGED phase

Release(v) ==
    /\ phase[v] = "closed"
    /\ slots[v] = 0
    /\ phase' = [phase EXCEPT ![v] = "free"]
    /\ UNCHANGED slots

Next ==
    \E v \in VCs : \/ Open(v)
                   \/ \E last \in BOOLEAN : Fill(v, last)
                   \/ Drain(v)
                   \/ Release(v)

Spec == Init /\ [][Next]_leaseVars
=============================================================================
