------------------------------- MODULE Router -------------------------------
(***************************************************************************)
(* One router, tick by tick: Router::wakeup runs its InputUnits, its       *)
(* OutputUnits, the SwitchAllocator and the CrossbarSwitch in that order,  *)
(* in the ticks for which somebody has scheduled it.  The neighbours are   *)
(* the environment: upstream ports send flits when the credit protocol     *)
(* lets them (VcFlow shows what they know of the VCs here), downstream     *)
(* routers return a credit for each flit they forward.                     *)
(*                                                                         *)
(* Times are kept relative to the present tick: the ticks a flit still     *)
(* waits for the SA stage, the ticks until a scheduled wakeup.  Of the     *)
(* enqueue times of the input VCs only their order is kept.                *)
(***************************************************************************)
EXTENDS Integers, Sequences, FiniteSets, SequencesExt, FiniteSetsExt

CONSTANTS
    NumIn, NumOut,   \* m_num_inports, m_num_outports
    NumVnets,        \* number of virtual networks
    VcPerVnet,       \* m_vc_per_vnet
    Ordered,         \* the vnets for which isVNetOrdered is true
    Depth,           \* buffers of a VC
    PipeStages,      \* Router::get_pipe_stages
    Flows,           \* source and destination of a packet, as a label
    MaxFlits         \* longest packet, in flits (bounds the packets)

ASSUME PortsAssumption == NumIn \in Nat \ {0} /\ NumOut \in Nat \ {0}
ASSUME VcsAssumption == NumVnets \in Nat \ {0} /\ VcPerVnet \in Nat \ {0}
ASSUME OrderedAssumption == Ordered \subseteq 0 .. NumVnets - 1
ASSUME SizesAssumption ==
    Depth \in Nat \ {0} /\ PipeStages \in Nat \ {0} /\ MaxFlits \in Nat \ {0}

Inports  == 0 .. NumIn - 1
Outports == 0 .. NumOut - 1
VCs      == 0 .. NumVnets * VcPerVnet - 1

VARIABLES
    stage,       \* part of the tick: the environment's, or the part of wakeup
    scheduled,   \* delays of the scheduled wakeups, 0 for the present tick
    inLink,      \* per inport, flits the link delivers in this tick
    vcState,     \* per inport and VC, VirtualChannel::m_vc_state
    outport,     \* ... m_output_port
    outvc,       \* ... m_output_vc
    buffer,      \* ... inputBuffer
    earlier,     \* ... the VCs with a smaller m_enqueue_time
    coming,      \* per inport and VC, flits of the packet still upstream
    flow,        \* ... and the flow it belongs to
    outState,    \* per outport and VC, OutVcState::m_vc_state
    credits,     \* ... m_credit_count
    creditIn,    \* per outport, credits the credit link delivers in this tick
    downstream,  \* per outport and VC, tail flags of the flits sent and not
                 \* yet credited
    rrInvc,      \* m_round_robin_invc
    rrInport,    \* m_round_robin_inport
    switchBuffer \* per inport, the flit that won the switch

inVars  == <<vcState, outport, buffer, earlier>>
outVars == <<outState, credits>>
saVars  == <<outvc, rrInvc, rrInport, switchBuffer>>
envVars == <<coming, flow, downstream>>
linkVars == <<inLink, creditIn>>
vars == <<stage, scheduled, inVars, outVars, saVars, envVars, linkVars>>

IDLE_   == "IDLE_"
ACTIVE_ == "ACTIVE_"
None    == -1

VnetOf(v) == v \div VcPerVnet    \* get_vnet

Init ==
    /\ stage = "arrivals"
    /\ scheduled = {}
    /\ inLink = [i \in Inports |-> << >>]
    /\ vcState = [i \in Inports |-> [v \in VCs |-> IDLE_]]
    /\ outport = [i \in Inports |-> [v \in VCs |-> None]]
    /\ outvc = [i \in Inports |-> [v \in VCs |-> None]]
    /\ buffer = [i \in Inports |-> [v \in VCs |-> << >>]]
    /\ earlier = [i \in Inports |-> [v \in VCs |-> {}]]
    /\ coming = [i \in Inports |-> [v \in VCs |-> 0]]
    /\ flow \in [Inports -> [VCs -> {CHOOSE f \in Flows : TRUE}]]
    /\ outState = [o \in Outports |-> [v \in VCs |-> IDLE_]]
    /\ credits = [o \in Outports |-> [v \in VCs |-> Depth]]
    /\ creditIn = [o \in Outports |-> << >>]
    /\ downstream = [o \in Outports |-> [v \in VCs |-> << >>]]
    /\ rrInvc = [i \in Inports |-> 0]
    /\ rrInport = [o \in Outports |-> 0]
    /\ switchBuffer = [i \in Inports |-> << >>]

-----------------------------------------------------------------------------
(* The environment                                                         *)

(* The upstream port starts a packet of n flits for outport o on an idle   *)
(* VC.  In an ordered vnet the flits of a flow come packet by packet, as   *)
(* the sender and the routers before this one have kept them.              *)
HeadArrives(i, v, o, f, n) ==
    /\ stage = "arrivals"
    /\ inLink[i] = << >>
    /\ vcState[i][v] = IDLE_
    /\ VnetOf(v) \in Ordered =>
         \A w \in VCs : VnetOf(w) = VnetOf(v) /\ flow[i][w] = f => coming[i][w] = 0
    /\ inLink' = [inLink EXCEPT ![i] =
         << [vc |-> v, head |-> TRUE, tail |-> n = 1, route |-> o] >>]
    /\ coming' = [coming EXCEPT ![i][v] = n - 1]
    /\ flow' = [flow EXCEPT ![i][v] = f]
    /\ scheduled' = scheduled \cup {0}
    /\ UNCHANGED <<stage, inVars, outVars, saVars, downstream, creditIn>>

(* The next flit of a packet needs a credit: a free buffer slot.           *)
FlitArrives(i, v) ==
    /\ stage = "arrivals"
    /\ inLink[i] = << >>
    /\ coming[i][v] > 0
    /\ Len(buffer[i][v]) < Depth
    /\ inLink' = [inLink EXCEPT ![i] =
         << [vc |-> v, head |-> FALSE, tail |-> coming[i][v] = 1, route |-> None] >>]
    /\ coming' = [coming EXCEPT ![i][v] = @ - 1]
    /\ scheduled' = scheduled \cup {0}
    /\ UNCHANGED <<stage, inVars, outVars, saVars, flow, downstream, creditIn>>

(* The next router forwards a flit of VC v and returns its credit.         *)
CreditArrives(o, v) ==
    /\ stage = "arrivals"
    /\ creditIn[o] = << >>
    /\ downstream[o][v] # << >>
    /\ creditIn' = [creditIn EXCEPT ![o] = << [vc |-> v, free |-> Head(downstream[o][v])] >>]
    /\ downstream' = [downstream EXCEPT ![o][v] = Tail(@)]
    /\ scheduled' = scheduled \cup {0}
    /\ UNCHANGED <<stage, inVars, outVars, saVars, coming, flow, inLink>>

(* The event queue wakes the router if it is scheduled for this tick.      *)
Wake ==
    /\ stage = "arrivals"
    /\ stage' = IF 0 \in scheduled THEN "InputUnits" ELSE "done"
    /\ scheduled' = scheduled \ {0}
    /\ UNCHANGED <<inVars, outVars, saVars, envVars, linkVars>>

(* Time passes: every wait gets shorter by one.                            *)
Waited(f) == [f EXCEPT !.wait = IF @ > 0 THEN @ - 1 ELSE 0]

Tick ==
    /\ stage = "done"
    /\ stage' = "arrivals"
    /\ scheduled' = {d - 1 : d \in scheduled}
    /\ buffer' = [i \in Inports |-> [v \in VCs |->
                    [k \in DOMAIN buffer[i][v] |-> Waited(buffer[i][v][k])]]]
    /\ UNCHANGED <<vcState, outport, earlier, outVars, saVars, envVars, linkVars>>

-----------------------------------------------------------------------------
(* InputUnit::wakeup, for each inport: at most one flit is taken from the  *)
(* link; a head activates its VC and fixes the outport; the flit goes for  *)
(* SA after PipeStages - 1 ticks.                                          *)
Arrived(i) == inLink[i] # << >>
InFlit(i)  == Head(inLink[i])

(* Mutant of PipelineWakeup: no wakeup at the end of the pipeline.         *)
NoPipelineWakeup(stages) == {}

(* schedule_wakeup for the end of the pipeline; a 1-cycle router does SA   *)
(* in the tick of the arrival.                                             *)
PipelineWakeup(stages) == IF stages > 1 THEN {stages - 1} ELSE {}

InputUnits ==
    /\ stage = "InputUnits"
    /\ vcState' = [i \in Inports |->
         IF Arrived(i) /\ InFlit(i).head
         THEN [vcState[i] EXCEPT ![InFlit(i).vc] = ACTIVE_] ELSE vcState[i]]
    /\ outport' = [i \in Inports |->
         IF Arrived(i) /\ InFlit(i).head
         THEN [outport[i] EXCEPT ![InFlit(i).vc] = InFlit(i).route] ELSE outport[i]]
    /\ earlier' = [i \in Inports |->
         IF Arrived(i) /\ InFlit(i).head
         THEN [earlier[i] EXCEPT ![InFlit(i).vc] = {w \in VCs : vcState[i][w] = ACTIVE_}]
         ELSE earlier[i]]
    /\ buffer' = [i \in Inports |->
         IF Arrived(i)
         THEN [buffer[i] EXCEPT ![InFlit(i).vc] =
                Append(@, [tail |-> InFlit(i).tail, wait |-> PipeStages - 1])]
         ELSE buffer[i]]
    /\ inLink' = [i \in Inports |-> IF Arrived(i) THEN Tail(inLink[i]) ELSE << >>]
    /\ scheduled' = scheduled
         \cup (IF \E i \in Inports : Arrived(i) THEN PipelineWakeup(PipeStages) ELSE {})
         \cup (IF \E i \in Inports : Len(inLink[i]) > 1 THEN {1} ELSE {})
    /\ stage' = "OutputUnits"
    /\ UNCHANGED <<outVars, saVars, envVars, creditIn>>

(* OutputUnit::wakeup, for each outport: one credit, and the free signal   *)
(* idles the output VC.  Credits count before the switch allocation.       *)
Credited(o, v) == creditIn[o] # << >> /\ Head(creditIn[o]).vc = v

OutputUnits ==
    /\ stage = "OutputUnits"
    /\ credits' = [o \in Outports |-> [v \in VCs |->
         IF Credited(o, v) THEN credits[o][v] + 1 ELSE credits[o][v]]]
    /\ outState' = [o \in Outports |-> [v \in VCs |->
         IF Credited(o, v) /\ Head(creditIn[o]).free THEN IDLE_ ELSE outState[o][v]]]
    /\ creditIn' = [o \in Outports |->
         IF creditIn[o] # << >> THEN Tail(creditIn[o]) ELSE << >>]
    /\ scheduled' = scheduled
         \cup (IF \E o \in Outports : Len(creditIn[o]) > 1 THEN {1} ELSE {})
    /\ stage' = "SwitchAllocator"
    /\ UNCHANGED <<inVars, saVars, envVars, inLink>>

-----------------------------------------------------------------------------
(* SwitchAllocator::wakeup                                                 *)

(* Mutant of NeedsSA: is_stage with = for >=.                              *)
NeedsSAOnlyAt(buf, wait) == buf # << >> /\ Head(buf).wait = wait

(* need_stage(SA_), with the ticks the flit may still wait.                *)
NeedsSA(buf, wait) == buf # << >> /\ Head(buf).wait <= wait

Ready(i, v) == NeedsSA(buffer[i][v], 0)

EnqueuedBefore(i, w, v) == w \in earlier[i][v]

(* Mutant of FreeVcs: no test for IDLE_.                                   *)
AnyVcs(o, vnet) == {u \in VCs : VnetOf(u) = vnet}

FreeVcs(o, vnet) == {u \in VCs : VnetOf(u) = vnet /\ outState[o][u] = IDLE_}

(* Mutant of SendAllowed: has_credit is >= 0.                              *)
SendOnEmptyVc(i, v) ==
    LET o == outport[i][v]
        u == outvc[i][v]
    IN  /\ IF u = None THEN FreeVcs(o, VnetOf(v)) # {} ELSE credits[o][u] >= 0
        /\ VnetOf(v) \in Ordered =>
             ~ \E w \in VCs : /\ VnetOf(w) = VnetOf(v)
                              /\ Ready(i, w) /\ outport[i][w] = o
                              /\ EnqueuedBefore(i, w, v)

(* Mutant of SendAllowed: no ordering check.                               *)
SendUnordered(i, v) ==
    LET o == outport[i][v]
        u == outvc[i][v]
    IN  IF u = None THEN FreeVcs(o, VnetOf(v)) # {} ELSE credits[o][u] > 0

(* send_allowed: a head needs a free output VC, any other flit a credit,   *)
(* and an ordered vnet no earlier flit for the same outport at the inport. *)
SendAllowed(i, v) ==
    LET o == outport[i][v]
        u == outvc[i][v]
    IN  /\ IF u = None THEN FreeVcs(o, VnetOf(v)) # {} ELSE credits[o][u] > 0
        /\ VnetOf(v) \in Ordered =>
             ~ \E w \in VCs : /\ VnetOf(w) = VnetOf(v)
                              /\ Ready(i, w) /\ outport[i][w] = o
                              /\ EnqueuedBefore(i, w, v)

(* Mutant of RoundRobin: every search starts at 0.                         *)
FixedPriority(S, start, n) == Min(S)

(* The first member of S at or after start, counting modulo n.             *)
RoundRobin(S, start, n) ==
    CHOOSE x \in S : \A y \in S : (x - start) % n <= (y - start) % n

(* SA-I: the VC each inport requests the switch for.                       *)
Requests(i) == {v \in VCs : Ready(i, v) /\ SendAllowed(i, v)}
Requesting(i) == Requests(i) # {}
InvcWinner(i) == RoundRobin(Requests(i), rrInvc[i], Cardinality(VCs))
RequestedPort(i) == outport[i][InvcWinner(i)]

(* SA-II: the inport each outport grants.                                  *)
Requesters(o) == {i \in Inports : Requesting(i) /\ RequestedPort(i) = o}
Granted(o) == Requesters(o) # {}
InportWinner(o) == RoundRobin(Requesters(o), rrInport[o], NumIn)

Wins(i) == Requesting(i) /\ InportWinner(RequestedPort(i)) = i

(* A pointer moves past the winner.                                        *)
NextOf(k, n) == (k + 1) % n

(* The output VC of the granted packet, from vc_allocate if it has none.   *)
OutVcOf(i) ==
    LET v == InvcWinner(i)
    IN  IF outvc[i][v] # None THEN outvc[i][v]
        ELSE Min(FreeVcs(outport[i][v], VnetOf(v)))

(* check_for_wakeup: again in the next tick if a flit that is left needs   *)
(* SA then.                                                                *)
CheckForWakeup ==
    IF \E i \in Inports, v \in VCs : NeedsSA(buffer'[i][v], 1) THEN {1} ELSE {}

SwitchAllocator ==
    LET winner == [i \in {j \in Inports : Wins(j)} |-> InvcWinner(i)]
        newVc  == [i \in DOMAIN winner |-> OutVcOf(i)]
        port   == [i \in DOMAIN winner |-> outport[i][winner[i]]]
        last   == [i \in DOMAIN winner |-> Head(buffer[i][winner[i]]).tail]
        wins(i, v)  == i \in DOMAIN winner /\ winner[i] = v
        frees(i, v) == wins(i, v) /\ last[i]
        sends(o, u) == \E i \in DOMAIN winner : port[i] = o /\ newVc[i] = u
    IN
    /\ stage = "SwitchAllocator"
    /\ buffer' = [i \in Inports |-> [v \in VCs |->
         IF wins(i, v) THEN Tail(buffer[i][v]) ELSE buffer[i][v]]]
    /\ vcState' = [i \in Inports |-> [v \in VCs |->
         IF frees(i, v) THEN IDLE_ ELSE vcState[i][v]]]
    /\ outport' = [i \in Inports |-> [v \in VCs |->
         IF frees(i, v) THEN None ELSE outport[i][v]]]
    /\ outvc' = [i \in Inports |-> [v \in VCs |->
         IF frees(i, v) THEN None
         ELSE IF wins(i, v) THEN newVc[i] ELSE outvc[i][v]]]
    /\ earlier' = [i \in Inports |-> [v \in VCs |->
         IF frees(i, v) THEN {} ELSE {w \in earlier[i][v] : ~frees(i, w)}]]
    /\ outState' = [o \in Outports |-> [u \in VCs |->
         IF sends(o, u) THEN ACTIVE_ ELSE outState[o][u]]]
    /\ credits' = [o \in Outports |-> [u \in VCs |->
         IF sends(o, u) THEN credits[o][u] - 1 ELSE credits[o][u]]]
    /\ switchBuffer' = [i \in Inports |->
         IF i \in DOMAIN winner
         THEN Append(switchBuffer[i], [vc |-> newVc[i], port |-> port[i], tail |-> last[i]])
         ELSE switchBuffer[i]]
    /\ rrInvc' = [i \in Inports |->
         IF i \in DOMAIN winner THEN NextOf(winner[i], Cardinality(VCs)) ELSE rrInvc[i]]
    /\ rrInport' = [o \in Outports |->
         IF Granted(o) THEN NextOf(InportWinner(o), NumIn) ELSE rrInport[o]]
    /\ scheduled' = scheduled \cup CheckForWakeup
    /\ stage' = "Crossbar"
    /\ UNCHANGED <<envVars, linkVars>>

(* CrossbarSwitch::wakeup: the winning flits leave by their output units.  *)
Crossing(o, u) ==
    {i \in Inports : /\ switchBuffer[i] # << >>
                     /\ Head(switchBuffer[i]).port = o /\ Head(switchBuffer[i]).vc = u}

Crossbar ==
    /\ stage = "Crossbar"
    /\ downstream' = [o \in Outports |-> [u \in VCs |->
         downstream[o][u] \o SetToSeq({Head(switchBuffer[i]).tail : i \in Crossing(o, u)})]]
    /\ switchBuffer' = [i \in Inports |->
         IF switchBuffer[i] # << >> THEN Tail(switchBuffer[i]) ELSE << >>]
    /\ stage' = "done"
    /\ UNCHANGED <<scheduled, inVars, outVars, outvc, rrInvc, rrInport, coming, flow, linkVars>>

Next ==
    \/ \E i \in Inports, v \in VCs, o \in Outports, f \in Flows, n \in 1 .. MaxFlits :
         HeadArrives(i, v, o, f, n)
    \/ \E i \in Inports, v \in VCs : FlitArrives(i, v)
    \/ \E o \in Outports, v \in VCs : CreditArrives(o, v)
    \/ Wake
    \/ InputUnits
    \/ OutputUnits
    \/ SwitchAllocator
    \/ Crossbar
    \/ Tick

Spec == Init /\ [][Next]_vars

(* The event queue lets every tick come and runs the wakeup to its end.    *)
TicksGoOn == []<>(stage = "arrivals") /\ []<>(stage = "done")

(* The upstream ports send the flits of the packets they have started, and *)
(* the routers downstream forward what they hold, sooner or later.         *)
Fairness ==
    /\ TicksGoOn
    /\ \A i \in Inports, v \in VCs : SF_vars(FlitArrives(i, v))
    /\ \A o \in Outports, v \in VCs : SF_vars(CreditArrives(o, v))

FairSpec == Spec /\ Fairness

-----------------------------------------------------------------------------
(* Properties                                                              *)

Flags        == [tail : BOOLEAN, wait : 0 .. PipeStages - 1]
LinkFlit     == [vc : VCs, head : BOOLEAN, tail : BOOLEAN, route : Outports \cup {None}]
Credit       == [vc : VCs, free : BOOLEAN]
CrossingFlit == [vc : VCs, port : Outports \cup {None}, tail : BOOLEAN]

StageOK == stage \in {"arrivals", "InputUnits", "OutputUnits", "SwitchAllocator", "Crossbar", "done"}
InOK ==
    /\ inLink \in [Inports -> Seq(LinkFlit)]
    /\ vcState \in [Inports -> [VCs -> {IDLE_, ACTIVE_}]]
    /\ outport \in [Inports -> [VCs -> Outports \cup {None}]]
    /\ outvc \in [Inports -> [VCs -> VCs \cup {None}]]
    /\ buffer \in [Inports -> [VCs -> Seq(Flags)]]
    /\ coming \in [Inports -> [VCs -> Nat]]
    /\ rrInvc \in [Inports -> Nat]
OutOK ==
    /\ outState \in [Outports -> [VCs -> {IDLE_, ACTIVE_}]]
    /\ credits \in [Outports -> [VCs -> Int]]
    /\ creditIn \in [Outports -> Seq(Credit)]
    /\ downstream \in [Outports -> [VCs -> Seq(BOOLEAN)]]
    /\ switchBuffer \in [Inports -> Seq(CrossingFlit)]

(* The router's input VCs with their requests, its output VCs with their   *)
(* credits, and the flits and credits on the wires between.                *)
TypeOK == StageOK /\ InOK /\ OutOK

Holders(o, u) == {h \in Inports \X VCs : outport[h[1]][h[2]] = o /\ outvc[h[1]][h[2]] = u}

(* Flits and credits of an output VC that are under way.                   *)
Sent(o, u) == Cardinality(Crossing(o, u)) + Len(downstream[o][u])
CreditsDue(o, u) == Cardinality({k \in DOMAIN creditIn[o] : creditIn[o][k].vc = u})
FreeDue(o, u) == \E k \in DOMAIN creditIn[o] : creditIn[o][k].vc = u /\ creditIn[o][k].free
TailSent(o, u) ==
    \/ \E i \in Crossing(o, u) : Head(switchBuffer[i]).tail
    \/ Contains(downstream[o][u], TRUE)
    \/ FreeDue(o, u)

(* An output VC is in the hands of one packet at a time, although several  *)
(* inports may win heads in one switch allocation: an input VC holds it    *)
(* until the tail is sent, the tail is under way until the free signal     *)
(* comes back, and only then is it IDLE_, with all its credits.            *)
OneHolder ==
    \A o \in Outports, u \in VCs :
        /\ Cardinality(Holders(o, u)) <= 1
        /\ outState[o][u] = IDLE_ =>
             Holders(o, u) = {} /\ Sent(o, u) + CreditsDue(o, u) = 0
        /\ outState[o][u] = ACTIVE_ => (Holders(o, u) = {} <=> TailSent(o, u))

(* Credits are spent and returned one for one (OutVcState.cc:70, 77).      *)
CreditsAddUp ==
    \A o \in Outports, u \in VCs :
        /\ credits[o][u] \in 0 .. Depth
        /\ credits[o][u] + Sent(o, u) + CreditsDue(o, u) = Depth

(* A wakeup is scheduled for the tick in which the first flit of a VC is   *)
(* ready for SA, and in every tick as long as it has to wait: by           *)
(* InputUnit::wakeup for the end of the pipeline (InputUnit.cc:133), by    *)
(* check_for_wakeup afterwards.                                            *)
NoLostWakeup ==
    stage = "arrivals" =>
        \A i \in Inports, v \in VCs :
            buffer[i][v] # << >> => Head(buffer[i][v]).wait \in scheduled

(* The order of a flow in an ordered vnet: no flit of a packet leaves      *)
(* while an earlier packet of the flow for the same outport is still here, *)
(* whatever VCs and credits the two have got.                              *)
OrderedFlows ==
    [][\A i \in Inports : \A v, w \in VCs :
          /\ VnetOf(v) \in Ordered /\ VnetOf(w) = VnetOf(v) /\ flow[i][v] = flow[i][w]
          /\ EnqueuedBefore(i, w, v) /\ outport[i][w] = outport[i][v]
          => Len(buffer'[i][v]) >= Len(buffer[i][v])]_vars

(* No starvation: the two round-robin arbiters serve every packet, so each *)
(* input VC becomes idle again.                                            *)
PacketsLeave ==
    \A i \in Inports, v \in VCs : vcState[i][v] = ACTIVE_ ~> vcState[i][v] = IDLE_
=============================================================================
