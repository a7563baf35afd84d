--------------------------- MODULE NetworkInterface ---------------------------
(***************************************************************************)
(* A network interface, tick by tick.  wakeup takes one message of each    *)
(* vnet from the protocol buffers, splits it into one packet per           *)
(* destination while there are idle VCs, sends one flit by each output     *)
(* port, exchanges one flit of each input port for a credit, takes one     *)
(* credit from each credit link, and schedules the next wakeup if work is  *)
(* left.  A message that does not get a VC for each destination stays in   *)
(* its buffer with the destinations not yet served.                        *)
(*                                                                         *)
(* The stall queue of an input port cannot fill in this program, because   *)
(* areNSlotsAvailable is always true (MessageBuffer.hh:93), so             *)
(* checkStallQueue changes nothing.                                        *)
(***************************************************************************)
EXTENDS Integers, Sequences, FiniteSets, SequencesExt, FiniteSetsExt

CONSTANTS
    NumVnets,    \* m_virtual_networks
    VcPerVnet,   \* m_vc_per_vnet
    NumPorts,    \* number of output ports
    PortOf,      \* the output port that supports a vnet
    Ordered,     \* the vnets for which isVNetOrdered is true
    Depth,       \* buffers of a VC
    Nodes,       \* destinations
    MaxFlits,    \* longest packet, in flits (bounds the messages)
    NumMsgs,     \* number of messages (bounds the messages)
    NumInPorts,  \* number of input ports
    MaxArrivals  \* flits that arrive by an input port (bounds the arrivals)

ASSUME VcsAssumption == NumVnets \in Nat \ {0} /\ VcPerVnet \in Nat \ {0}
ASSUME PortsAssumption ==
    NumPorts \in Nat \ {0} /\ PortOf \in [0 .. NumVnets - 1 -> 0 .. NumPorts - 1]
ASSUME OrderedAssumption == Ordered \subseteq 0 .. NumVnets - 1
ASSUME SizesAssumption ==
    Depth \in Nat \ {0} /\ MaxFlits \in Nat \ {0} /\ NumMsgs \in Nat \ {0}
ASSUME NodesAssumption == IsFiniteSet(Nodes)
ASSUME InPortsAssumption == NumInPorts \in Nat /\ MaxArrivals \in Nat

Vnets == 0 .. NumVnets - 1
VCs   == 0 .. NumVnets * VcPerVnet - 1
Ports == 0 .. NumPorts - 1
Msgs  == 1 .. NumMsgs
InPorts == 1 .. NumInPorts

VARIABLES
    stage,       \* part of the tick: the driver's, or the part of wakeup
    scheduled,   \* delays of the scheduled wakeups, 0 for the present tick
    messages,    \* per vnet, inNode_ptr: messages with the destinations left
    vcState,     \* per VC, OutVcState::m_vc_state
    credits,     \* ... m_credit_count
    niOutVcs,    \* ... flits waiting for the output port
    earlier,     \* ... the VCs with a smaller m_ni_out_vcs_enqueue_time
    allocator,   \* per vnet, m_vc_allocator
    roundRobin,  \* per port, vcRoundRobin
    creditIn,    \* per port, credits the credit link delivers in this tick
    downstream,  \* per VC, tail flags of the flits sent and not yet credited
    promised,    \* message and destination pairs handed to the interface
    sent,        \* per message and destination, packets sent completely
    arrived,     \* per input port, all flits that have reached it
    inFlits,     \* ... those among them that still wait on the link
    outCredits,  \* ... InputPort::outCreditQueue
    returned,    \* ... credits its credit link has taken
    linkWakes,   \* ... delays of the scheduled wakeups of its credit link
    toProtocol   \* per vnet, messages put into outNode_ptr

outVars == <<messages, vcState, credits, niOutVcs, earlier, allocator, roundRobin,
             creditIn, downstream, promised, sent>>
inVars  == <<arrived, inFlits, outCredits, returned, linkWakes, toProtocol>>
vars == <<stage, scheduled, messages, vcState, credits, niOutVcs, earlier,
          allocator, roundRobin, creditIn, downstream, promised, sent,
          arrived, inFlits, outCredits, returned, linkWakes, toProtocol>>

IDLE_   == "IDLE_"
ACTIVE_ == "ACTIVE_"

(* get_vnet *)
VnetOf(v) == v \div VcPerVnet

Init ==
    /\ stage = "step"
    /\ scheduled = {}
    /\ messages = [n \in Vnets |-> << >>]
    /\ vcState = [v \in VCs |-> IDLE_]
    /\ credits = [v \in VCs |-> Depth]
    /\ niOutVcs = [v \in VCs |-> << >>]
    /\ earlier = [v \in VCs |-> {}]
    /\ allocator = [n \in Vnets |-> 0]
    /\ roundRobin = [p \in Ports |-> 0]
    /\ creditIn = [p \in Ports |-> << >>]
    /\ downstream = [v \in VCs |-> << >>]
    /\ promised = {}
    /\ sent = [m \in Msgs |-> [d \in Nodes |-> 0]]
    /\ arrived = [p \in InPorts |-> << >>]
    /\ inFlits = [p \in InPorts |-> << >>]
    /\ outCredits = [p \in InPorts |-> << >>]
    /\ returned = [p \in InPorts |-> 0]
    /\ linkWakes = [p \in InPorts |-> {}]
    /\ toProtocol = [n \in Vnets |-> 0]

-----------------------------------------------------------------------------
(* The environment: the driver, the router the ports lead to, and time     *)

Accepted == {e[1] : e \in promised}

(* MessageBuffer::enqueue without delay wakes the interface in this tick.  *)
Enqueue(n, dests, size) ==
    LET m == Cardinality(Accepted) + 1 IN
    /\ stage = "step"
    /\ m \in Msgs
    /\ messages' = [messages EXCEPT ![n] =
         Append(@, [id |-> m, dests |-> dests, size |-> size])]
    /\ promised' = promised \cup {<<m, d>> : d \in ToSet(dests)}
    /\ scheduled' = scheduled \cup {0}
    /\ UNCHANGED <<stage, vcState, credits, niOutVcs, earlier, allocator,
                   roundRobin, creditIn, downstream, sent, inVars>>

(* The router forwards a flit of VC v and returns its credit.              *)
CreditArrives(v) ==
    LET p == PortOf[VnetOf(v)] IN
    /\ stage = "step"
    /\ creditIn[p] = << >>
    /\ downstream[v] # << >>
    /\ creditIn' = [creditIn EXCEPT ![p] = <<[vc |-> v, free |-> Head(downstream[v])]>>]
    /\ downstream' = [downstream EXCEPT ![v] = Tail(@)]
    /\ scheduled' = scheduled \cup {0}
    /\ UNCHANGED <<stage, messages, vcState, credits, niOutVcs, earlier, allocator,
                   roundRobin, promised, sent, inVars>>

(* The event queue wakes the interface if it is scheduled for this tick.   *)
Wake ==
    /\ stage = "step"
    /\ stage' = IF 0 \in scheduled THEN "messages" ELSE "done"
    /\ scheduled' = scheduled \ {0}
    /\ UNCHANGED <<outVars, inVars>>

(* A flit of vnet n reaches input port p and wakes the interface.          *)
FlitArrives(p, v, tail) ==
    /\ stage = "step"
    /\ inFlits[p] = << >>
    /\ Len(arrived[p]) < MaxArrivals
    /\ inFlits' = [inFlits EXCEPT ![p] = <<[vc |-> v, tail |-> tail]>>]
    /\ arrived' = [arrived EXCEPT ![p] = Append(@, [vc |-> v, tail |-> tail])]
    /\ scheduled' = scheduled \cup {0}
    /\ UNCHANGED <<stage, outVars, outCredits, returned, linkWakes, toProtocol>>

(* NetworkLink::wakeup of a credit link: one credit, and again if there is *)
(* one more; it runs before or after the interface in the tick.            *)
CreditLinkWakeup(p) ==
    /\ stage \in {"step", "done"}
    /\ 0 \in linkWakes[p]
    /\ outCredits' = [outCredits EXCEPT ![p] = IF @ = << >> THEN @ ELSE Tail(@)]
    /\ returned' = [returned EXCEPT ![p] = IF outCredits[p] = << >> THEN @ ELSE @ + 1]
    /\ linkWakes' = [linkWakes EXCEPT ![p] =
         (@ \ {0}) \cup (IF Len(outCredits[p]) > 1 THEN {1} ELSE {})]
    /\ UNCHANGED <<stage, scheduled, outVars, arrived, inFlits, toProtocol>>

Tick ==
    /\ stage = "done"
    /\ \A p \in InPorts : 0 \notin linkWakes[p]
    /\ stage' = "step"
    /\ scheduled' = {d - 1 : d \in scheduled}
    /\ linkWakes' = [p \in InPorts |-> {d - 1 : d \in linkWakes[p]}]
    /\ UNCHANGED <<outVars, arrived, inFlits, outCredits, returned, toProtocol>>

-----------------------------------------------------------------------------
(* wakeup: a message of each vnet                                          *)

VcOf(n, k) == n * VcPerVnet + k

(* Mutant of FreeVcs: no test for IDLE_.                                   *)
EmptyVcs(n) == {k \in 0 .. VcPerVnet - 1 : niOutVcs[VcOf(n, k)] = << >>}

FreeVcs(n) == {k \in 0 .. VcPerVnet - 1 : vcState[VcOf(n, k)] = IDLE_}

(* Successive calls of calculateVC find the idle VCs of vnet n in the      *)
(* order in which they follow the allocator's pointer: how many are found  *)
(* before k.                                                               *)
Before(n, j, k) == (j - allocator[n]) % VcPerVnet < (k - allocator[n]) % VcPerVnet
Turn(n, k) == Cardinality({j \in FreeVcs(n) : Before(n, j, k)})

Waiting(n) == messages[n] # << >>

(* The VCs that the first message of vnet n gets now, one for each of its  *)
(* destinations in turn: the loop of flitisizeMessage ends at the first    *)
(* failure.                                                                *)
Served(n) ==
    IF Waiting(n) THEN {k \in FreeVcs(n) : Turn(n, k) < Len(Head(messages[n]).dests)} ELSE {}

(* Mutant of Remaining: the destinations served are not removed.           *)
AllAgain(n) ==
    IF Cardinality(Served(n)) = Len(Head(messages[n]).dests)
    THEN Tail(messages[n]) ELSE messages[n]

(* What stays in the buffer: a message served completely is dequeued, of   *)
(* another one the destinations served are removed.                        *)
Remaining(n) ==
    LET m == Head(messages[n])
        k == Cardinality(Served(n))
    IN  IF k = Len(m.dests) THEN Tail(messages[n])
        ELSE <<[m EXCEPT !.dests = SubSeq(@, k + 1, Len(@))]>> \o Tail(messages[n])

(* The flits of a packet, numbered by the loop over num_flits.             *)
Packet(m, dest) ==
    [k \in 1 .. m.size |-> [msg |-> m.id, dest |-> dest, tail |-> k = m.size]]

(* m_vc_allocator moves past the VC it has found.                          *)
NextVc(v) == (v + 1) % VcPerVnet

(* The packet that VC v gets, made for the destination whose turn it is.   *)
Allocated == {v \in VCs : \E n \in Vnets : \E k \in Served(n) : v = VcOf(n, k)}
NewPacket(v) ==
    LET n == VnetOf(v)
        m == Head(messages[n])
    IN  Packet(m, m.dests[Turn(n, v - VcOf(n, 0)) + 1])

LastServed(n) == CHOOSE k \in Served(n) : \A j \in Served(n) : ~Before(n, k, j)

TakeMessages ==
    /\ stage = "messages"
    /\ messages' = [n \in Vnets |-> IF Waiting(n) THEN Remaining(n) ELSE << >>]
    /\ niOutVcs' = [v \in VCs |->
         IF v \in Allocated THEN niOutVcs[v] \o NewPacket(v) ELSE niOutVcs[v]]
    /\ vcState' = [v \in VCs |-> IF v \in Allocated THEN ACTIVE_ ELSE vcState[v]]
    /\ earlier' = [v \in VCs |->
         IF v \in Allocated
         THEN {w \in VCs : VnetOf(w) = VnetOf(v) /\ niOutVcs[w] # << >>}
         ELSE earlier[v] \ Allocated]
    /\ allocator' = [n \in Vnets |->
         IF Served(n) # {} THEN NextVc(LastServed(n)) ELSE allocator[n]]
    /\ stage' = "output"
    /\ UNCHANGED <<scheduled, credits, roundRobin, creditIn, downstream, promised, sent,
                   inVars>>

-----------------------------------------------------------------------------
(* wakeup: scheduleOutputLink                                              *)

(* Mutant of IsCandidate: no ordering check.                               *)
IsCandidateUnordered(v) == niOutVcs[v] # << >> /\ credits[v] > 0

(* A VC with a flit and a credit, and in an ordered vnet no VC with flits  *)
(* that was filled in an earlier tick.                                     *)
IsCandidate(v) ==
    /\ niOutVcs[v] # << >>
    /\ credits[v] > 0
    /\ VnetOf(v) \in Ordered =>
         \A w \in earlier[v] : VnetOf(w) = VnetOf(v) => niOutVcs[w] = << >>

Candidates(p) == {v \in VCs : PortOf[VnetOf(v)] = p /\ IsCandidate(v)}

(* The first candidate after the VC that won last.                         *)
Winner(p) ==
    CHOOSE v \in Candidates(p) : \A w \in Candidates(p) :
        (v - roundRobin[p] - 1) % Cardinality(VCs) <= (w - roundRobin[p] - 1) % Cardinality(VCs)

Winners == {Winner(p) : p \in {q \in Ports : Candidates(q) # {}}}
Ended   == {v \in Winners : Head(niOutVcs[v]).tail}

ScheduleOutputLink ==
    /\ stage = "output"
    /\ roundRobin' = [p \in Ports |->
         IF Candidates(p) # {} THEN Winner(p) ELSE roundRobin[p]]
    /\ credits' = [v \in VCs |-> IF v \in Winners THEN credits[v] - 1 ELSE credits[v]]
    /\ niOutVcs' = [v \in VCs |->
         IF v \in Winners THEN Tail(niOutVcs[v]) ELSE niOutVcs[v]]
    /\ downstream' = [v \in VCs |->
         IF v \in Winners THEN Append(downstream[v], Head(niOutVcs[v]).tail)
         ELSE downstream[v]]
    /\ earlier' = [v \in VCs |-> IF v \in Ended THEN {} ELSE earlier[v] \ Ended]
    /\ sent' = [m \in Msgs |-> [d \in Nodes |->
         sent[m][d] + Cardinality({v \in Ended :
                         Head(niOutVcs[v]).msg = m /\ Head(niOutVcs[v]).dest = d})]]
    /\ stage' = "eject"
    /\ UNCHANGED <<scheduled, messages, vcState, allocator, creditIn, promised, inVars>>

-----------------------------------------------------------------------------
(* wakeup: the incoming flit links                                         *)

(* Mutant of CreditFor: the tail's credit comes without the free signal.   *)
CreditForBody(f) == [vc |-> f.vc, free |-> FALSE]

(* Every flit is exchanged for a credit, the tail with the free signal.    *)
CreditFor(f) == [vc |-> f.vc, free |-> f.tail]

Ejecting == {p \in InPorts : inFlits[p] # << >>}

(* One flit of each input port; a tail hands its message to the protocol.  *)
EjectFlits ==
    /\ stage = "eject"
    /\ inFlits' = [p \in InPorts |-> IF p \in Ejecting THEN Tail(inFlits[p]) ELSE << >>]
    /\ outCredits' = [p \in InPorts |->
         IF p \in Ejecting THEN Append(outCredits[p], CreditFor(Head(inFlits[p])))
         ELSE outCredits[p]]
    /\ toProtocol' = [n \in Vnets |-> toProtocol[n] + Cardinality(
         {p \in Ejecting : Head(inFlits[p]).tail /\ VnetOf(Head(inFlits[p]).vc) = n})]
    /\ stage' = "credits"
    /\ UNCHANGED <<scheduled, outVars, arrived, returned, linkWakes>>

-----------------------------------------------------------------------------
(* wakeup: the credit links, and checkReschedule                           *)

Credited(v) == \E p \in Ports : creditIn[p] # << >> /\ Head(creditIn[p]).vc = v

(* Mutant of Freed: the free signal is ignored.                            *)
NeverFreed(v) == FALSE

Freed(v) == \E p \in Ports : creditIn[p] # << >> /\ Head(creditIn[p]) = [vc |-> v, free |-> TRUE]

(* Mutant of Reschedules: only flits with a credit count.                  *)
ReschedulesForCredits ==
    \/ \E n \in Vnets : Waiting(n)
    \/ \E v \in VCs : niOutVcs[v] # << >> /\ credits'[v] > 0

(* checkReschedule: a message, a flit or a credit is left.                 *)
Reschedules ==
    \/ \E n \in Vnets : Waiting(n)
    \/ \E v \in VCs : niOutVcs[v] # << >>
    \/ \E p \in InPorts : inFlits[p] # << >>
    \/ \E p \in Ports : Len(creditIn[p]) > 1

(* Mutant of WakesLink: the size of the queue is off by one.               *)
WakesLinkForTwo(p) == IF Len(outCredits[p]) > 1 THEN {1} ELSE {}

(* The credit link of a port with a credit is scheduled for the next tick. *)
WakesLink(p) == IF outCredits[p] # << >> THEN {1} ELSE {}

TakeCredits ==
    /\ stage = "credits"
    /\ credits' = [v \in VCs |-> IF Credited(v) THEN credits[v] + 1 ELSE credits[v]]
    /\ vcState' = [v \in VCs |-> IF Freed(v) THEN IDLE_ ELSE vcState[v]]
    /\ creditIn' = [p \in Ports |-> IF creditIn[p] # << >> THEN Tail(creditIn[p]) ELSE << >>]
    /\ scheduled' = scheduled \cup (IF Reschedules THEN {1} ELSE {})
    /\ linkWakes' = [p \in InPorts |-> linkWakes[p] \cup WakesLink(p)]
    /\ stage' = "done"
    /\ UNCHANGED <<messages, niOutVcs, earlier, allocator, roundRobin, downstream,
                   promised, sent, arrived, inFlits, outCredits, returned, toProtocol>>

Next ==
    \/ \E n \in Vnets, D \in (SUBSET Nodes) \ {{}}, k \in 1 .. MaxFlits :
         Enqueue(n, SetToSeq(D), k)
    \/ \E v \in VCs : CreditArrives(v)
    \/ \E p \in InPorts, v \in VCs, tail \in BOOLEAN : FlitArrives(p, v, tail)
    \/ \E p \in InPorts : CreditLinkWakeup(p)
    \/ Wake
    \/ TakeMessages
    \/ ScheduleOutputLink
    \/ EjectFlits
    \/ TakeCredits
    \/ Tick

Spec == Init /\ [][Next]_vars

(* The event queue lets every tick come and runs the wakeup to its end,    *)
(* and the router returns a credit for each flit, sooner or later.         *)
TicksGoOn == []<>(stage = "step") /\ []<>(stage = "done")
Fairness  == TicksGoOn /\ \A v \in VCs : SF_vars(CreditArrives(v))

FairSpec == Spec /\ Fairness

-----------------------------------------------------------------------------
(* Properties                                                              *)

FlitsOfNi == [msg : Msgs, dest : Nodes, tail : BOOLEAN]
Message   == [id : Msgs, dests : Seq(Nodes), size : 1 .. MaxFlits]
InFlit    == [vc : VCs, tail : BOOLEAN]
OutCredit == [vc : VCs, free : BOOLEAN]

OutTypeOK ==
    /\ messages \in [Vnets -> Seq(Message)]
    /\ vcState \in [VCs -> {IDLE_, ACTIVE_}]
    /\ credits \in [VCs -> Int]
    /\ niOutVcs \in [VCs -> Seq(FlitsOfNi)]
    /\ earlier \in [VCs -> SUBSET VCs]
    /\ allocator \in [Vnets -> 0 .. VcPerVnet - 1]
    /\ roundRobin \in [Ports -> VCs]
    /\ creditIn \in [Ports -> Seq(OutCredit)]
    /\ downstream \in [VCs -> Seq(BOOLEAN)]
InTypeOK ==
    /\ arrived \in [InPorts -> Seq(InFlit)]
    /\ inFlits \in [InPorts -> Seq(InFlit)]
    /\ outCredits \in [InPorts -> Seq(OutCredit)]
    /\ returned \in [InPorts -> Nat]
    /\ linkWakes \in [InPorts -> SUBSET {0, 1}]
    /\ toProtocol \in [Vnets -> Nat]

(* The ticks at which the interface wakes, the messages, VCs and credits   *)
(* of its output ports, the flits and credits of its input ports.          *)
TypeOK ==
    /\ stage \in {"step", "messages", "output", "eject", "credits", "done"}
    /\ scheduled \subseteq {0, 1}
    /\ OutTypeOK
    /\ InTypeOK

(* Where the copy of message m for destination d is: still to be made, or  *)
(* waiting in a VC with its tail.                                          *)
ToBeMade(m, d) ==
    {e \in Vnets \X (1 .. NumMsgs) :
        /\ e[2] <= Len(messages[e[1]])
        /\ messages[e[1]][e[2]].id = m /\ Contains(messages[e[1]][e[2]].dests, d)}
InVcs(m, d) ==
    {v \in VCs : Contains(niOutVcs[v], [msg |-> m, dest |-> d, tail |-> TRUE])}

(* Each destination of a message gets exactly one copy, however often the  *)
(* message ran out of VCs and was tried again.                             *)
OneCopyEach ==
    \A m \in Msgs, d \in Nodes :
        sent[m][d] + Cardinality(InVcs(m, d)) + Cardinality(ToBeMade(m, d))
            = IF <<m, d>> \in promised THEN 1 ELSE 0

(* A VC carries one packet from its head to the free signal: flits of two  *)
(* packets never share a VC, and an IDLE_ VC has neither flits here nor    *)
(* flits or credits on the way.                                            *)
OnePacketPerVc ==
    \A v \in VCs :
        /\ \A j, k \in DOMAIN niOutVcs[v] :
             /\ niOutVcs[v][j].msg = niOutVcs[v][k].msg
             /\ niOutVcs[v][j].dest = niOutVcs[v][k].dest
             /\ niOutVcs[v][j].tail <=> j = Len(niOutVcs[v])
        /\ vcState[v] = IDLE_ =>
             /\ niOutVcs[v] = << >> /\ downstream[v] = << >> /\ credits[v] = Depth
             /\ ~Credited(v)

(* While a message or a flit waits, for a VC, a credit or the port, a      *)
(* wakeup is scheduled in every tick.                                      *)
StaysAwake ==
    /\ stage = "step"
    /\ \/ \E n \in Vnets : Waiting(n)
       \/ \E v \in VCs : niOutVcs[v] # << >>
       \/ \E p \in InPorts : inFlits[p] # << >>
    => 0 \in scheduled

(* The tails of vnet n that the interface has taken, by port and place.    *)
TailsEjected(n) ==
    {e \in InPorts \X (1 .. MaxArrivals) :
        /\ e[2] <= Len(arrived[e[1]]) - Len(inFlits[e[1]])
        /\ arrived[e[1]][e[2]].tail /\ VnetOf(arrived[e[1]][e[2]].vc) = n}

(* Each flit that arrives is answered by one credit, in the order of the   *)
(* flits and with the free signal exactly for the tails, and each tail has *)
(* handed one message to the protocol, whatever the interface sends in the *)
(* same wakeup.                                                            *)
Exchange ==
    /\ \A p \in InPorts :
         LET ejected == Len(arrived[p]) - Len(inFlits[p])
         IN  /\ returned[p] + Len(outCredits[p]) = ejected
             /\ \A i \in DOMAIN outCredits[p] :
                  LET f == arrived[p][returned[p] + i]
                  IN  outCredits[p][i] = [vc |-> f.vc, free |-> f.tail]
    /\ \A n \in Vnets : toProtocol[n] = Cardinality(TailsEjected(n))

(* A credit never waits at an input port with its credit link asleep.      *)
CreditsMove ==
    stage = "step" => \A p \in InPorts : outCredits[p] # << >> => 0 \in linkWakes[p]

(* In an ordered vnet no flit of a message leaves while a flit of an       *)
(* earlier message of the vnet waits, whatever VCs and credits they have.  *)
OrderKept ==
    [][\A v, w \in VCs :
          /\ VnetOf(v) \in Ordered /\ VnetOf(w) = VnetOf(v)
          /\ niOutVcs[v] # << >> /\ niOutVcs[w] # << >>
          /\ Head(niOutVcs[w]).msg < Head(niOutVcs[v]).msg
          => Len(niOutVcs'[v]) >= Len(niOutVcs[v])]_vars

(* Every message reaches the network, for each of its destinations.        *)
AllSent ==
    \A m \in Msgs, d \in Nodes : <<m, d>> \in promised ~> sent[m][d] = 1
===============================================================================
