------------------------------- MODULE VcFlow -------------------------------
(***************************************************************************)
(* Virtual-channel flow control over one hop of the network: an output     *)
(* port (a router's OutputUnit, or a network interface's OutputPort), the  *)
(* data link, the InputUnit of the next router, and the credit link back.  *)
(*                                                                         *)
(* The output port owns one OutVcState per VC: IDLE or ACTIVE, and a count *)
(* of the free buffer slots of the same VC downstream.  A packet leases an *)
(* IDLE VC, its flits each spend one credit, every flit that leaves the    *)
(* downstream VC returns one credit, and the credit of the tail carries    *)
(* the free signal that ends the lease.                                    *)
(*                                                                         *)
(* One action per handler.  Each handler of the code runs at a tick the    *)
(* event queue chooses; here the handlers of the hop interleave in any     *)
(* order, so every latency, pipeline depth and arbitration result is       *)
(* covered.  Flits carry what the handlers read: the VC, the position in   *)
(* the packet and whether it is the tail.                                  *)
(***************************************************************************)
EXTENDS Integers, Sequences, FiniteSets, Wires

CONSTANTS
    VCs,         \* ids of the virtual channels of the port
    VnetOf,      \* get_vnet: the virtual network of each VC
    Depth,       \* buffers_per_data_vc or buffers_per_ctrl_vc, by the VC's vnet
    MaxFlits     \* longest packet, in flits (bounds the packets of the model)

ASSUME VCsAssumption == VCs \subseteq Nat /\ IsFiniteSet(VCs) /\ VCs # {}
ASSUME VnetAssumption == VnetOf \in [VCs -> Nat]
ASSUME DepthAssumption == Depth \in [VCs -> Nat \ {0}]
ASSUME FlitsAssumption == MaxFlits \in Nat \ {0}

VARIABLES
    upstream,    \* what owns the output port: a router or a network interface
    vcState,     \* OutVcState::m_vc_state
    credits,     \* OutVcState::m_credit_count
    pktSize,     \* flits of the packet bound to the VC, 0 when none is
    pktSent,     \* flits of that packet already sent
    outBuffer,   \* OutputUnit::outBuffer (NI: outFlitQueue)
    linkBuffer,  \* NetworkLink::linkBuffer of the data link
    inState,     \* VirtualChannel::m_vc_state downstream
    inBuffer,    \* VirtualChannel::inputBuffer downstream
    creditQueue, \* InputUnit::creditQueue
    creditLink   \* linkBuffer of the credit link

upVars   == <<vcState, credits, pktSize, pktSent>>
wires    == <<outBuffer, linkBuffer>>
downVars == <<inState, inBuffer>>
creditVars == <<creditQueue, creditLink>>
vars == <<upstream, vcState, credits, pktSize, pktSent, outBuffer, linkBuffer,
          inState, inBuffer, creditQueue, creditLink>>

IDLE_   == "IDLE_"
ACTIVE_ == "ACTIVE_"

Flit   == [vc : VCs, id : 0 .. MaxFlits - 1, tail : BOOLEAN]
Credit == [vc : VCs, free : BOOLEAN]

(* Mutant of NewFlit: flits are counted from 1.                            *)
NewFlitFrom1(v, k, n) == [vc |-> v, id |-> k + 1, tail |-> k = n - 1]

(* flit::flit: the id gives the type, HEAD_ at 0 and TAIL_ at size - 1.    *)
NewFlit(v, k, n) == [vc |-> v, id |-> k, tail |-> k = n - 1]
IsHead(f) == f.id = 0

Init ==
    /\ upstream \in {"Router", "NetworkInterface"}
    /\ vcState = [v \in VCs |-> IDLE_]
    /\ credits = Depth
    /\ pktSize = [v \in VCs |-> 0]
    /\ pktSent = [v \in VCs |-> 0]
    /\ outBuffer = << >>
    /\ linkBuffer = << >>
    /\ inState = [v \in VCs |-> IDLE_]
    /\ inBuffer = [v \in VCs |-> << >>]
    /\ creditQueue = << >>
    /\ creditLink = << >>

-----------------------------------------------------------------------------
(* The output port                                                         *)

(* Mutant of IsFirstFree: no test for IDLE_.                               *)
FirstOfVnet(v) ==
    \A w \in VCs : VnetOf[w] = VnetOf[v] /\ w < v => vcState[w] # IDLE_

(* OutputUnit::select_free_vc takes the first IDLE_ VC of the vnet.        *)
IsFirstFree(v) ==
    /\ vcState[v] = IDLE_
    /\ \A w \in VCs : VnetOf[w] = VnetOf[v] /\ w < v => vcState[w] # IDLE_

(* Mutant of HasCredit: >= for >.                                          *)
HasAnyCredit(v) == credits[v] >= 0

HasCredit(v) == credits[v] > 0

(* Flit k of an n-flit packet leaves on VC v: decrement_credit, then       *)
(* insert_flit.  The tail unbinds the packet: the sender forgets the VC.   *)
Send(v, k, n) ==
    /\ credits' = [credits EXCEPT ![v] = @ - 1]
    /\ outBuffer' = Append(outBuffer, NewFlit(v, k, n))
    /\ pktSize' = [pktSize EXCEPT ![v] = IF k = n - 1 THEN 0 ELSE n]
    /\ pktSent' = [pktSent EXCEPT ![v] = IF k = n - 1 THEN 0 ELSE k + 1]

(* SwitchAllocator grants a head flit of a router: vc_allocate makes the   *)
(* VC ACTIVE_ and the head goes out in the same grant, with no credit      *)
(* check of its own (send_allowed: "each VC has at least one buffer").     *)
SendHead(v, n) ==
    /\ upstream = "Router"
    /\ IsFirstFree(v)
    /\ vcState' = [vcState EXCEPT ![v] = ACTIVE_]
    /\ Send(v, 0, n)
    /\ UNCHANGED <<upstream, linkBuffer, downVars, creditVars>>

(* NetworkInterface::flitisizeMessage: calculateVC picks an IDLE_ VC (its  *)
(* round-robin pointer is left out), which turns ACTIVE_ with all the      *)
(* flits of the packet waiting in niOutVcs.                                *)
NIAllocate(v, n) ==
    /\ upstream = "NetworkInterface"
    /\ vcState[v] = IDLE_
    /\ vcState' = [vcState EXCEPT ![v] = ACTIVE_]
    /\ pktSize' = [pktSize EXCEPT ![v] = n]
    /\ pktSent' = [pktSent EXCEPT ![v] = 0]
    /\ UNCHANGED <<upstream, credits, wires, downVars, creditVars>>

(* The next flit of a bound packet: SwitchAllocator for BODY_/TAIL_ flits  *)
(* (send_allowed asks has_credit), scheduleOutputPort for any flit.        *)
SendFlit(v) ==
    /\ pktSize[v] > 0
    /\ HasCredit(v)
    /\ Send(v, pktSent[v], pktSize[v])
    /\ UNCHANGED <<upstream, vcState, linkBuffer, downVars, creditVars>>

(* Mutant of OutputUnitWakeup: the free signal is ignored.                 *)
KeepVc ==
    /\ creditLink # << >>
    /\ credits' = [credits EXCEPT ![Head(creditLink).vc] = @ + 1]
    /\ creditLink' = Tail(creditLink)
    /\ UNCHANGED <<upstream, vcState, pktSize, pktSent, wires, downVars, creditQueue>>

(* OutputUnit::wakeup: one credit per wakeup; a free signal ends the lease.*)
OutputUnitWakeup ==
    /\ creditLink # << >>
    /\ LET c == Head(creditLink) IN
        /\ credits' = [credits EXCEPT ![c.vc] = @ + 1]
        /\ vcState' = IF c.free THEN [vcState EXCEPT ![c.vc] = IDLE_]
                                ELSE vcState
    /\ creditLink' = Tail(creditLink)
    /\ UNCHANGED <<upstream, pktSize, pktSent, wires, downVars, creditQueue>>

-----------------------------------------------------------------------------
(* The links                                                               *)

(* NetworkLink::wakeup moves one flit from its source queue.               *)
DataLinkWakeup ==
    /\ outBuffer # << >>
    /\ linkBuffer' = Append(linkBuffer, Head(outBuffer))
    /\ outBuffer' = Tail(outBuffer)
    /\ UNCHANGED <<upstream, upVars, downVars, creditVars>>

(* The same handler on the credit link, whose source is the creditQueue.   *)
CreditLinkWakeup ==
    /\ creditQueue # << >>
    /\ creditLink' = Append(creditLink, Head(creditQueue))
    /\ creditQueue' = Tail(creditQueue)
    /\ UNCHANGED <<upstream, upVars, wires, downVars>>

-----------------------------------------------------------------------------
(* The input port of the next router                                       *)

(* Mutant of InputUnitWakeup: the flit goes to the front of the buffer.    *)
BufferInFront ==
    /\ linkBuffer # << >>
    /\ LET f == Head(linkBuffer) IN
        /\ inState' = IF IsHead(f) THEN [inState EXCEPT ![f.vc] = ACTIVE_]
                                   ELSE inState
        /\ inBuffer' = [inBuffer EXCEPT ![f.vc] = <<f>> \o @]
    /\ linkBuffer' = Tail(linkBuffer)
    /\ UNCHANGED <<upstream, upVars, outBuffer, creditVars>>

(* InputUnit::wakeup buffers one flit; a head makes the VC ACTIVE_.  Its   *)
(* two assertions are AssertsHold below and no guard here.                 *)
InputUnitWakeup ==
    /\ linkBuffer # << >>
    /\ LET f == Head(linkBuffer) IN
        /\ inState' = IF IsHead(f) THEN [inState EXCEPT ![f.vc] = ACTIVE_]
                                   ELSE inState
        /\ inBuffer' = [inBuffer EXCEPT ![f.vc] = Append(@, f)]
    /\ linkBuffer' = Tail(linkBuffer)
    /\ UNCHANGED <<upstream, upVars, outBuffer, creditVars>>

(* Mutant of SwitchGrant: only a tail returns its credit.                  *)
CreditOnlyForTail(v) ==
    /\ inBuffer[v] # << >>
    /\ LET f == Head(inBuffer[v]) IN
        /\ inState' = IF f.tail THEN [inState EXCEPT ![v] = IDLE_] ELSE inState
        /\ creditQueue' = IF f.tail
             THEN Append(creditQueue, [vc |-> v, free |-> TRUE]) ELSE creditQueue
    /\ inBuffer' = [inBuffer EXCEPT ![v] = Tail(@)]
    /\ UNCHANGED <<upstream, upVars, wires, creditLink>>

(* Mutant of SwitchGrant: the free signal is in the credit of the head.    *)
FreeWithHead(v) ==
    /\ inBuffer[v] # << >>
    /\ LET f == Head(inBuffer[v]) IN
        /\ inState' = IF f.tail THEN [inState EXCEPT ![v] = IDLE_] ELSE inState
        /\ creditQueue' = Append(creditQueue, [vc |-> v, free |-> IsHead(f)])
    /\ inBuffer' = [inBuffer EXCEPT ![v] = Tail(@)]
    /\ UNCHANGED <<upstream, upVars, wires, creditLink>>

(* SwitchAllocator::arbitrate_outports grants the top flit of VC v towards *)
(* the next hop: a tail idles the VC and sends the free signal.            *)
SwitchGrant(v) ==
    /\ inBuffer[v] # << >>
    /\ LET f == Head(inBuffer[v]) IN
        /\ inState' = IF f.tail THEN [inState EXCEPT ![v] = IDLE_] ELSE inState
        /\ creditQueue' = Append(creditQueue, [vc |-> v, free |-> f.tail])
    /\ inBuffer' = [inBuffer EXCEPT ![v] = Tail(@)]
    /\ UNCHANGED <<upstream, upVars, wires, creditLink>>

Next ==
    \/ \E v \in VCs, n \in 1 .. MaxFlits : SendHead(v, n) \/ NIAllocate(v, n)
    \/ \E v \in VCs : SendFlit(v)
    \/ OutputUnitWakeup
    \/ DataLinkWakeup
    \/ CreditLinkWakeup
    \/ InputUnitWakeup
    \/ \E v \in VCs : SwitchGrant(v)

Spec == Init /\ [][Next]_vars

(* Every handler with work pending has been scheduled (NetworkLink.cc:107, *)
(* InputUnit.cc:136, OutputUnit.cc:144, SwitchAllocator.cc:356), and a     *)
(* downstream router that can forward a flit of a VC eventually grants it. *)
Fairness ==
    /\ \A v \in VCs : WF_vars(SendFlit(v)) /\ WF_vars(SwitchGrant(v))
    /\ WF_vars(OutputUnitWakeup)
    /\ WF_vars(DataLinkWakeup)
    /\ WF_vars(CreditLinkWakeup)
    /\ WF_vars(InputUnitWakeup)

FairSpec == Spec /\ Fairness

-----------------------------------------------------------------------------
(* Properties                                                              *)

(* The two ends of the hop, the flits between them and the credits on the  *)
(* way back.                                                               *)
TypeOK ==
    /\ upstream \in {"Router", "NetworkInterface"}
    /\ vcState \in [VCs -> {IDLE_, ACTIVE_}]
    /\ credits \in [VCs -> Int]
    /\ pktSize \in [VCs -> 0 .. MaxFlits]
    /\ pktSent \in [VCs -> 0 .. MaxFlits]
    /\ outBuffer \in Seq(Flit)
    /\ linkBuffer \in Seq(Flit)
    /\ inState \in [VCs -> {IDLE_, ACTIVE_}]
    /\ inBuffer \in [VCs -> Seq(Flit)]
    /\ creditQueue \in Seq(Credit)
    /\ creditLink \in Seq(Credit)

(* Slots of VC v downstream that are spoken for: flits on the way to it    *)
(* and flits it holds.                                                     *)
Occupied(v) == CountOf(outBuffer, v) + CountOf(linkBuffer, v) + Len(inBuffer[v])

CreditsInFlight(v) == CountOf(creditQueue, v) + CountOf(creditLink, v)

(* No credit is ever lost or made: the sender's count, the flits in flight *)
(* or buffered and the credits on their way back add up to the depth of    *)
(* the VC.  This is what lets flitBuffer be unbounded and what the two     *)
(* assertions of OutVcState rest on.                                       *)
CreditConservation ==
    \A v \in VCs :
        /\ credits[v] \in 0 .. Depth[v]
        /\ credits[v] + Occupied(v) + CreditsInFlight(v) = Depth[v]

(* An IDLE_ output VC is free at both ends: nothing of the last packet is  *)
(* on the wires, the downstream VC is idle and empty, every credit is home.*)
(* send_allowed relies on it when it lets a head go without a credit check.*)
IdleMeansDrained ==
    \A v \in VCs : vcState[v] = IDLE_ =>
        /\ credits[v] = Depth[v]
        /\ NoneOf(outBuffer, v) /\ NoneOf(linkBuffer, v)
        /\ inBuffer[v] = << >> /\ inState[v] = IDLE_
        /\ NoneOf(creditQueue, v) /\ NoneOf(creditLink, v)

(* The assertions of the handlers hold when each is about to run: a head   *)
(* finds its VC IDLE_ and a body flit finds it ACTIVE_ (InputUnit.cc:93,   *)
(* 106), a buffered flit is in an ACTIVE_ VC (VirtualChannel.cc:71), the   *)
(* VC is empty after its tail (SwitchAllocator.cc:228), has_credit is      *)
(* asked of an ACTIVE_ VC (OutputUnit.cc:91), an arriving credit fits      *)
(* (OutVcState.cc:70).                                                     *)
AssertsHold ==
    /\ linkBuffer # << >> =>
         LET f == Head(linkBuffer)
         IN  inState[f.vc] = IF IsHead(f) THEN IDLE_ ELSE ACTIVE_
    /\ creditLink # << >> =>
         credits[Head(creditLink).vc] < Depth[Head(creditLink).vc]
    /\ \A v \in VCs :
         /\ inBuffer[v] # << >> =>
              /\ inState[v] = ACTIVE_
              /\ Head(inBuffer[v]).tail => Len(inBuffer[v]) = 1
         /\ pktSize[v] > 0 => vcState[v] = ACTIVE_

(* The flits of a VC are those of one packet, in order, from the receiving *)
(* buffer back to the sender: no handler reorders them or mixes in another *)
(* packet.                                                                 *)
InOrder ==
    /\ Increasing(outBuffer) /\ Increasing(linkBuffer)
    /\ AllBefore(linkBuffer, outBuffer)
    /\ \A v \in VCs :
         /\ \A i \in 1 .. Len(inBuffer[v]) : inBuffer[v][i].vc = v
         /\ Increasing(inBuffer[v])
         /\ AllBefore(inBuffer[v], linkBuffer) /\ AllBefore(inBuffer[v], outBuffer)

(* The hop implements a lease of each VC (VcLease).                        *)
PhaseOf(v) == CASE vcState[v] = IDLE_ -> "free"
                [] vcState[v] = ACTIVE_ /\ pktSize[v] > 0 -> "open"
                [] OTHER -> "closed"
Lease == INSTANCE VcLease WITH phase <- [v \in VCs |-> PhaseOf(v)],
                               slots <- [v \in VCs |-> Occupied(v)]
LeaseSpec == Lease!Spec

(* Every lease ends: a VC that a packet took becomes IDLE_ again, so no    *)
(* credit, free signal or flit gets stuck on the hop.                      *)
LeasesEnd == \A v \in VCs : vcState[v] = ACTIVE_ ~> vcState[v] = IDLE_

-----------------------------------------------------------------------------
(* The inductive invariant: InOrder and CreditConservation are not         *)
(* inductive alone, because what may be sent or received next depends on   *)
(* how far the packet that holds the VC has come.                          *)

(* Nothing of VC v is between the sender and the receiving router.         *)
Drained(v) ==
    /\ NoneOf(outBuffer, v) /\ NoneOf(linkBuffer, v)
    /\ inBuffer[v] = << >> /\ inState[v] = IDLE_

NoCredits(v) == NoneOf(creditQueue, v) /\ NoneOf(creditLink, v)

HeadOnWire(v) == HasHead(outBuffer, v) \/ HasHead(linkBuffer, v)

(* An unleased VC is clean at both ends.                                   *)
IdleInv ==
    \A v \in VCs : vcState[v] = IDLE_ =>
        Drained(v) /\ NoCredits(v) /\ pktSize[v] = 0

(* While the sender still has flits of the packet, all the others precede  *)
(* the next one, the tail is not among them and no free signal exists.     *)
BoundInv ==
    \A v \in VCs : pktSize[v] > 0 =>
        /\ vcState[v] = ACTIVE_
        /\ pktSent[v] < pktSize[v]
        /\ AllBelow(outBuffer, v, pktSent[v])
        /\ AllBelow(linkBuffer, v, pktSent[v])
        /\ AllBelow(inBuffer[v], v, pktSent[v])
        /\ NoFree(creditQueue, v) /\ NoFree(creditLink, v)
        /\ pktSent[v] = 0 => Drained(v) /\ NoCredits(v)
        /\ pktSent[v] > 0 /\ inState[v] = IDLE_ => HeadOnWire(v)

(* A head on the wire finds the VC idle, and any other flit finds the VC   *)
(* active or has the head in front of it.                                  *)
HeadInv ==
    \A v \in VCs :
        /\ HeadOnWire(v) => inState[v] = IDLE_
        /\ inState[v] = IDLE_ => inBuffer[v] = << >>
        /\ inState[v] = IDLE_ /\ ~HeadOnWire(v) =>
             NoneOf(outBuffer, v) /\ NoneOf(linkBuffer, v)

(* The free signal is the last thing of a packet on the hop.               *)
FreeInv ==
    /\ FreeLast(creditQueue) /\ FreeLast(creditLink)
    /\ \A v \in VCs :
         /\ ~NoFree(creditLink, v) => NoneOf(creditQueue, v)
         /\ ~NoFree(creditQueue, v) \/ ~NoFree(creditLink, v) =>
              Drained(v) /\ pktSize[v] = 0

IInv == /\ TypeOK
        /\ CreditConservation
        /\ InOrder
        /\ IdleInv
        /\ BoundInv
        /\ HeadInv
        /\ FreeInv
=============================================================================
