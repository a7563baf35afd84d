---------------------------- MODULE RouterProofs ----------------------------
(***************************************************************************)
(* What holds of a router for every number of ports, VCs, buffers and      *)
(* pipeline stages: it is awake whenever a flit may move on, an output VC  *)
(* is in the hands of one packet, its credits add up, and the flits of a   *)
(* flow keep their order.                                                  *)
(***************************************************************************)
EXTENDS Router, DataTheorems

-----------------------------------------------------------------------------
(* Packets in a queue                                                      *)

(* A packet's tail stays the last of its queue when the head is taken.     *)
LEMMA TailStaysLast ==
    ASSUME NEW q \in Seq(Flags), q # << >>,
           \A j \in 1 .. Len(q) : q[j].tail => j = Len(q)
    PROVE  /\ Tail(q) \in Seq(Flags)
           /\ \A j \in 1 .. Len(Tail(q)) : Tail(q)[j].tail => j = Len(Tail(q))
           /\ \A j \in 1 .. Len(Tail(q)) : \E k \in 1 .. Len(q) : Tail(q)[j] = q[k]
           /\ Head(q).tail => Tail(q) = << >>
<1> DEFINE n == Len(q)
           t == Tail(q)
<1>1. /\ n \in Nat \ {0} /\ Head(q) = q[1] /\ t \in Seq(Flags) /\ Len(t) = n - 1
      /\ \A i \in 1 .. n - 1 : t[i] = q[i + 1]
  BY TakeFrom
<1>2. \A j \in 1 .. n : q[j].tail => j = n
  OBVIOUS
<1> HIDE DEF n, t
<1>3. \A j \in 1 .. n - 1 : j + 1 \in 1 .. n /\ (t[j].tail => j = n - 1)
  <2> TAKE j \in 1 .. n - 1
  <2>1. j + 1 \in 1 .. n /\ (q[j + 1].tail => j + 1 = n)
    BY <1>1, <1>2
  <2> QED
    BY <1>1, <2>1
<1>4. Head(q).tail => n - 1 = 0
  BY <1>1, <1>2
<1>5. Head(q).tail => t = << >>
  BY <1>1, <1>4, NoLength
<1>6. \A j \in 1 .. Len(t) : t[j].tail => j = Len(t)
  BY <1>1, <1>3
<1>7. \A j \in 1 .. Len(t) : \E k \in 1 .. n : t[j] = q[k]
  BY <1>1, <1>3
<1> QED
  BY <1>1, <1>5, <1>6, <1>7 DEF n, t

-----------------------------------------------------------------------------
(* The arbiters                                                            *)

LEMMA VcsAre ==
    /\ VCs \in SUBSET Nat /\ None \notin VCs /\ \A v \in VCs : v \in Int
    /\ Cardinality(VCs) \in Nat \ {0}
<1>1. NumVnets * VcPerVnet \in Nat \ {0}
  BY VcsAssumption
<1> DEFINE n == NumVnets * VcPerVnet
<1>2. VCs = 0 .. n - 1 /\ n \in Nat \ {0}
  BY <1>1 DEF VCs
<1> HIDE DEF n
<1>3. Cardinality(VCs) = n - 1 - 0 + 1
  BY <1>2, FS_Interval
<1> QED
  BY <1>2, <1>3 DEF None

(* Every search for a winner or a free VC finds one if there is one.       *)
LEMMA RoundRobinPicks ==
    ASSUME NEW S \in SUBSET Int, S # {}, NEW start \in Int, NEW n \in Nat \ {0}
    PROVE  RoundRobin(S, start, n) \in S
BY FirstInRound DEF RoundRobin

(* VC v of inport i wins the switch; its packet ends; output VC u of port  *)
(* o gets a flit.                                                          *)
Won(i, v)   == Wins(i) /\ InvcWinner(i) = v
Frees(i, v) == Won(i, v) /\ Head(buffer[i][v]).tail
Sends(o, u) == \E i \in Inports : Wins(i) /\ RequestedPort(i) = o /\ OutVcOf(i) = u

LEMMA WinnerRequests ==
    ASSUME InOK, NEW i \in Inports, Requesting(i)
    PROVE  /\ InvcWinner(i) \in VCs /\ InvcWinner(i) \in Requests(i)
           /\ buffer[i][InvcWinner(i)] # << >>
<1>1. Requests(i) \in SUBSET Int /\ Requests(i) # {}
  <2>1. Requests(i) \subseteq VCs
    BY DEF Requests
  <2>2. Requests(i) # {}
    BY DEF Requesting
  <2>3. \A x \in Requests(i) : x \in Int
    BY <2>1, VcsAre
  <2> QED
    BY <2>2, <2>3
<1>2. rrInvc[i] \in Int /\ Cardinality(VCs) \in Nat \ {0}
  BY VcsAre DEF InOK
<1>3. InvcWinner(i) \in Requests(i)
  BY <1>1, <1>2, RoundRobinPicks DEF InvcWinner
<1> QED
  BY <1>3 DEF Requests, Ready, NeedsSA

(* The VC the winner sends on: its own, or a free one of its outport.      *)
LEMMA WinnersVc ==
    ASSUME InOK, NEW i \in Inports, NEW v \in VCs, Won(i, v)
    PROVE  /\ OutVcOf(i) \in VCs
           /\ outvc[i][v] # None =>
                OutVcOf(i) = outvc[i][v] /\ credits[outport[i][v]][outvc[i][v]] > 0
           /\ outvc[i][v] = None => outState[outport[i][v]][OutVcOf(i)] = IDLE_
<1>1. Requesting(i) /\ InvcWinner(i) = v
  BY DEF Won, Wins
<1>2. SendAllowed(i, v)
  BY <1>1, WinnerRequests DEF Requests
<1>3. CASE outvc[i][v] # None
  BY <1>1, <1>2, <1>3 DEF OutVcOf, SendAllowed, InOK
<1>4. CASE outvc[i][v] = None
  <2> DEFINE F == FreeVcs(outport[i][v], VnetOf(v))
  <2>1. F # {} /\ OutVcOf(i) = Min(F)
    BY <1>1, <1>2, <1>4 DEF OutVcOf, SendAllowed
  <2>2. F \in SUBSET Nat
    BY VcsAre DEF FreeVcs
  <2>3. Min(F) \in F
    BY <2>1, <2>2, MinPicks
  <2> QED
    BY <1>4, <2>1, <2>3 DEF FreeVcs
<1> QED
  BY <1>3, <1>4

(* What the switch allocator does, VC by VC.                               *)
LEMMA Allocated ==
    ASSUME SwitchAllocator
    PROVE  /\ stage = "SwitchAllocator" /\ stage' = "Crossbar"
           /\ buffer' = [i \in Inports |-> [v \in VCs |->
                IF Won(i, v) THEN Tail(buffer[i][v]) ELSE buffer[i][v]]]
           /\ vcState' = [i \in Inports |-> [v \in VCs |->
                IF Frees(i, v) THEN IDLE_ ELSE vcState[i][v]]]
           /\ outport' = [i \in Inports |-> [v \in VCs |->
                IF Frees(i, v) THEN None ELSE outport[i][v]]]
           /\ outvc' = [i \in Inports |-> [v \in VCs |->
                IF Frees(i, v) THEN None
                ELSE IF Won(i, v) THEN OutVcOf(i) ELSE outvc[i][v]]]
           /\ outState' = [o \in Outports |-> [u \in VCs |->
                IF Sends(o, u) THEN ACTIVE_ ELSE outState[o][u]]]
           /\ credits' = [o \in Outports |-> [u \in VCs |->
                IF Sends(o, u) THEN credits[o][u] - 1 ELSE credits[o][u]]]
           /\ switchBuffer' = [i \in Inports |->
                IF Wins(i)
                THEN Append(switchBuffer[i], [vc |-> OutVcOf(i), port |-> RequestedPort(i),
                                              tail |-> Head(buffer[i][InvcWinner(i)]).tail])
                ELSE switchBuffer[i]]
           /\ rrInvc' = [i \in Inports |->
                IF Wins(i) THEN NextOf(InvcWinner(i), Cardinality(VCs)) ELSE rrInvc[i]]
           /\ earlier' = [i \in Inports |-> [v \in VCs |->
                IF Frees(i, v) THEN {} ELSE {w \in earlier[i][v] : ~Frees(i, w)}]]
           /\ scheduled' = scheduled \cup CheckForWakeup
           /\ UNCHANGED <<inLink, creditIn, coming, flow, downstream>>
<1> DEFINE W == {j \in Inports : Wins(j)}
           winner == [i \in W |-> InvcWinner(i)]
           newVc == [i \in W |-> OutVcOf(i)]
           port == [i \in W |-> outport[i][winner[i]]]
           last == [i \in W |-> Head(buffer[i][winner[i]]).tail]
           wins(i, v) == i \in DOMAIN winner /\ winner[i] = v
           frees(i, v) == wins(i, v) /\ last[i]
           sends(o, u) == \E i \in DOMAIN winner : port[i] = o /\ newVc[i] = u
<1>1. \A i \in Inports, v \in VCs : wins(i, v) <=> Won(i, v)
  BY DEF Won
<1>2. \A i \in Inports, v \in VCs : frees(i, v) <=> Frees(i, v)
  BY DEF Won, Frees
<1>3. \A o, u : sends(o, u) <=> Sends(o, u)
  BY DEF Sends, RequestedPort
<1>4. \A i \in Inports : (i \in DOMAIN winner <=> Wins(i)) /\ (Wins(i) =>
        newVc[i] = OutVcOf(i) /\ port[i] = RequestedPort(i)
        /\ last[i] = Head(buffer[i][InvcWinner(i)]).tail /\ winner[i] = InvcWinner(i))
  BY DEF RequestedPort
<1>5. /\ stage = "SwitchAllocator"
      /\ earlier' = [i \in Inports |-> [v \in VCs |->
           IF frees(i, v) THEN {} ELSE {w \in earlier[i][v] : ~frees(i, w)}]]
      /\ buffer' = [i \in Inports |-> [v \in VCs |->
           IF wins(i, v) THEN Tail(buffer[i][v]) ELSE buffer[i][v]]]
      /\ vcState' = [i \in Inports |-> [v \in VCs |->
           IF frees(i, v) THEN IDLE_ ELSE vcState[i][v]]]
      /\ outport' = [i \in Inports |-> [v \in VCs |->
           IF frees(i, v) THEN None ELSE outport[i][v]]]
      /\ outvc' = [i \in Inports |-> [v \in VCs |->
           IF frees(i, v) THEN None
           ELSE IF wins(i, v) THEN newVc[i] ELSE outvc[i][v]]]
      /\ outState' = [o \in Outports |-> [u \in VCs |->
           IF sends(o, u) THEN ACTIVE_ ELSE outState[o][u]]]
      /\ credits' = [o \in Outports |-> [u \in VCs |->
           IF sends(o, u) THEN credits[o][u] - 1 ELSE credits[o][u]]]
      /\ switchBuffer' = [i \in Inports |->
           IF i \in DOMAIN winner
           THEN Append(switchBuffer[i], [vc |-> newVc[i], port |-> port[i], tail |-> last[i]])
           ELSE switchBuffer[i]]
      /\ rrInvc' = [i \in Inports |->
           IF i \in DOMAIN winner THEN NextOf(winner[i], Cardinality(VCs)) ELSE rrInvc[i]]
      /\ scheduled' = scheduled \cup CheckForWakeup
      /\ stage' = "Crossbar"
      /\ UNCHANGED <<envVars, linkVars>>
  BY DEF SwitchAllocator
<1> HIDE DEF winner, newVc, port, last, wins, frees, sends, W
<1>6. /\ buffer' = [i \in Inports |-> [v \in VCs |->
           IF Won(i, v) THEN Tail(buffer[i][v]) ELSE buffer[i][v]]]
      /\ vcState' = [i \in Inports |-> [v \in VCs |->
           IF Frees(i, v) THEN IDLE_ ELSE vcState[i][v]]]
      /\ outport' = [i \in Inports |-> [v \in VCs |->
           IF Frees(i, v) THEN None ELSE outport[i][v]]]
  BY <1>1, <1>2, <1>5
<1>7. outvc' = [i \in Inports |-> [v \in VCs |->
        IF Frees(i, v) THEN None
        ELSE IF Won(i, v) THEN OutVcOf(i) ELSE outvc[i][v]]]
  <2>1. \A i \in Inports, v \in VCs : Won(i, v) => newVc[i] = OutVcOf(i)
    BY <1>4 DEF Won
  <2> QED
    BY <1>1, <1>2, <1>5, <2>1
<1>8. /\ outState' = [o \in Outports |-> [u \in VCs |->
           IF Sends(o, u) THEN ACTIVE_ ELSE outState[o][u]]]
      /\ credits' = [o \in Outports |-> [u \in VCs |->
           IF Sends(o, u) THEN credits[o][u] - 1 ELSE credits[o][u]]]
  BY <1>3, <1>5
<1>9. switchBuffer' = [i \in Inports |->
           IF Wins(i)
           THEN Append(switchBuffer[i], [vc |-> OutVcOf(i), port |-> RequestedPort(i),
                                         tail |-> Head(buffer[i][InvcWinner(i)]).tail])
           ELSE switchBuffer[i]]
  BY <1>4, <1>5
<1>10. rrInvc' = [i \in Inports |->
           IF Wins(i) THEN NextOf(InvcWinner(i), Cardinality(VCs)) ELSE rrInvc[i]]
  BY <1>4, <1>5
<1>11. earlier' = [i \in Inports |-> [v \in VCs |->
           IF Frees(i, v) THEN {} ELSE {w \in earlier[i][v] : ~Frees(i, w)}]]
  <2>1. \A i \in Inports : \A w : frees(i, w) <=> Frees(i, w)
    BY <1>4 DEF frees, wins, Frees, Won
  <2> QED
    BY <1>2, <1>5, <2>1
<1> QED
  BY <1>5, <1>6, <1>7, <1>8, <1>9, <1>10, <1>11 DEF envVars, linkVars

-----------------------------------------------------------------------------
(* The types                                                               *)

LEMMA NewFlit ==
    ASSUME NEW tail \in BOOLEAN
    PROVE  [tail |-> tail, wait |-> PipeStages - 1] \in Flags
BY SizesAssumption DEF Flags

LEMMA WaitedFlag ==
    ASSUME NEW f \in Flags
    PROVE  /\ Waited(f) \in Flags /\ Waited(f).tail = f.tail
           /\ Waited(f).wait = IF f.wait > 0 THEN f.wait - 1 ELSE 0
<1>1. f.wait \in 0 .. PipeStages - 1 /\ PipeStages \in Nat
  BY SizesAssumption DEF Flags
<1>2. f.wait > 0 => f.wait - 1 \in 0 .. PipeStages - 1
  BY <1>1
<1>3. 0 \in 0 .. PipeStages - 1
  BY <1>1
<1> QED
  BY <1>2, <1>3 DEF Flags, Waited

LEMMA TypeInit == Init => TypeOK
<1> SUFFICES ASSUME Init PROVE TypeOK
  OBVIOUS
<1>1. \A S : << >> \in Seq(S)
  OBVIOUS
<1> QED
  BY <1>1, SizesAssumption DEF Init, TypeOK, StageOK, InOK, OutOK

LEMMA TypeHeadArrives ==
    ASSUME TypeOK, NEW i \in Inports, NEW v \in VCs, NEW o \in Outports, NEW f \in Flows,
           NEW n \in 1 .. MaxFlits, HeadArrives(i, v, o, f, n)
    PROVE  TypeOK'
<1> DEFINE x == [vc |-> v, head |-> TRUE, tail |-> n = 1, route |-> o]
<1>1. << x >> \in Seq(LinkFlit) /\ n - 1 \in Nat
  BY DEF LinkFlit
<1>2. inLink' \in [Inports -> Seq(LinkFlit)] /\ coming' \in [Inports -> [VCs -> Nat]]
  <2> HIDE DEF x
  <2>1. inLink' = [inLink EXCEPT ![i] = << x >>] /\ coming' = [coming EXCEPT ![i][v] = n - 1]
    BY DEF HeadArrives, x
  <2> QED
    BY <1>1, <2>1 DEF TypeOK, InOK
<1>3. stage' = stage /\ UNCHANGED <<inVars, outVars, saVars, downstream, creditIn>>
  BY DEF HeadArrives
<1> QED
  BY <1>2, <1>3 DEF TypeOK, StageOK, InOK, OutOK, inVars, outVars, saVars

LEMMA TypeFlitArrives ==
    ASSUME TypeOK, NEW i \in Inports, NEW v \in VCs, FlitArrives(i, v)
    PROVE  TypeOK'
<1> DEFINE x == [vc |-> v, head |-> FALSE, tail |-> coming[i][v] = 1, route |-> None]
<1>1. << x >> \in Seq(LinkFlit)
  BY DEF LinkFlit
<1>2. coming[i][v] - 1 \in Nat
  BY DEF FlitArrives, TypeOK, InOK
<1>3. inLink' \in [Inports -> Seq(LinkFlit)] /\ coming' \in [Inports -> [VCs -> Nat]]
  <2> HIDE DEF x
  <2>1. inLink' = [inLink EXCEPT ![i] = << x >>] /\ coming' = [coming EXCEPT ![i][v] = @ - 1]
    BY DEF FlitArrives, x
  <2> QED
    BY <1>1, <1>2, <2>1 DEF TypeOK, InOK
<1>4. stage' = stage /\ UNCHANGED <<inVars, outVars, saVars, downstream, creditIn>>
  BY DEF FlitArrives
<1> QED
  BY <1>3, <1>4 DEF TypeOK, StageOK, InOK, OutOK, inVars, outVars, saVars

LEMMA TypeCreditArrives ==
    ASSUME TypeOK, NEW o \in Outports, NEW v \in VCs, CreditArrives(o, v)
    PROVE  TypeOK'
<1> DEFINE x == [vc |-> v, free |-> Head(downstream[o][v])]
<1>1. Head(downstream[o][v]) \in BOOLEAN /\ Tail(downstream[o][v]) \in Seq(BOOLEAN)
  BY TakeFrom DEF CreditArrives, TypeOK, OutOK
<1>2. << x >> \in Seq(Credit)
  BY <1>1 DEF Credit
<1>3. /\ creditIn' \in [Outports -> Seq(Credit)]
      /\ downstream' \in [Outports -> [VCs -> Seq(BOOLEAN)]]
  <2> HIDE DEF x
  <2>1. creditIn' = [creditIn EXCEPT ![o] = << x >>] /\ downstream' = [downstream EXCEPT ![o][v] = Tail(@)]
    BY DEF CreditArrives, x
  <2> QED
    BY <1>1, <1>2, <2>1 DEF TypeOK, OutOK
<1>4. stage' = stage /\ UNCHANGED <<inVars, outVars, saVars, coming, inLink>>
  BY DEF CreditArrives
<1> QED
  BY <1>3, <1>4 DEF TypeOK, StageOK, InOK, OutOK, inVars, outVars, saVars

LEMMA TypeTick ==
    ASSUME TypeOK, Tick
    PROVE  TypeOK'
<1>1. ASSUME NEW i \in Inports, NEW v \in VCs
      PROVE  [k \in DOMAIN buffer[i][v] |-> Waited(buffer[i][v][k])] \in Seq(Flags)
  <2> DEFINE b == buffer[i][v]
  <2>1. b \in Seq(Flags)
    BY DEF TypeOK, InOK
  <2>2. Len(b) \in Nat /\ DOMAIN b = 1 .. Len(b) /\ \A k \in 1 .. Len(b) : b[k] \in Flags
    BY <2>1, LengthOf
  <2> HIDE DEF b
  <2>3. [k \in DOMAIN b |-> Waited(b[k])] \in [1 .. Len(b) -> Flags]
    BY <2>2, WaitedFlag
  <2>4. [k \in DOMAIN b |-> Waited(b[k])] \in Seq(Flags)
    BY <2>2, <2>3, SeqDef
  <2> QED
    BY <2>4 DEF b
<1>2. buffer' \in [Inports -> [VCs -> Seq(Flags)]]
  BY <1>1 DEF Tick
<1>3. stage' = "arrivals" /\ UNCHANGED <<vcState, outport, outVars, saVars, envVars, linkVars>>
  BY DEF Tick
<1> QED
  BY <1>2, <1>3 DEF TypeOK, StageOK, InOK, OutOK, outVars, saVars, envVars, linkVars

LEMMA TypeInputUnits ==
    ASSUME TypeOK, InputUnits
    PROVE  TypeOK'
<1>1. ASSUME NEW i \in Inports, Arrived(i)
      PROVE  InFlit(i) \in LinkFlit /\ Tail(inLink[i]) \in Seq(LinkFlit)
  BY <1>1, TakeFrom DEF Arrived, InFlit, TypeOK, InOK
<1>2. vcState' \in [Inports -> [VCs -> {IDLE_, ACTIVE_}]]
  <2>1. \A i \in Inports : [vcState[i] EXCEPT ![InFlit(i).vc] = ACTIVE_] \in [VCs -> {IDLE_, ACTIVE_}]
    BY DEF TypeOK, InOK
  <2> QED
    BY <2>1 DEF InputUnits, TypeOK, InOK
<1>3. outport' \in [Inports -> [VCs -> Outports \cup {None}]]
  <2>1. \A i \in Inports : Arrived(i) =>
          [outport[i] EXCEPT ![InFlit(i).vc] = InFlit(i).route] \in [VCs -> Outports \cup {None}]
    BY <1>1 DEF TypeOK, InOK, LinkFlit
  <2> QED
    BY <2>1 DEF InputUnits, TypeOK, InOK
<1>4. buffer' \in [Inports -> [VCs -> Seq(Flags)]]
  <2>1. ASSUME NEW i \in Inports, Arrived(i)
        PROVE  [buffer[i] EXCEPT ![InFlit(i).vc] =
                  Append(@, [tail |-> InFlit(i).tail, wait |-> PipeStages - 1])]
                 \in [VCs -> Seq(Flags)]
    <3> DEFINE x == [tail |-> InFlit(i).tail, wait |-> PipeStages - 1]
    <3>1. x \in Flags /\ InFlit(i).vc \in VCs
      BY <1>1, <2>1, NewFlit DEF LinkFlit
    <3> HIDE DEF x
    <3>2. \A v \in VCs : Append(buffer[i][v], x) \in Seq(Flags)
      BY <3>1, AppendTo DEF TypeOK, InOK
    <3>3. [buffer[i] EXCEPT ![InFlit(i).vc] = Append(@, x)] \in [VCs -> Seq(Flags)]
      BY <3>1, <3>2 DEF TypeOK, InOK
    <3> QED
      BY <3>3 DEF x
  <2>2. \A i \in Inports : buffer[i] \in [VCs -> Seq(Flags)]
    BY DEF TypeOK, InOK
  <2>3. buffer' = [i \in Inports |->
          IF Arrived(i)
          THEN [buffer[i] EXCEPT ![InFlit(i).vc] =
                Append(@, [tail |-> InFlit(i).tail, wait |-> PipeStages - 1])]
          ELSE buffer[i]]
    BY DEF InputUnits
  <2> QED
    BY <2>1, <2>2, <2>3
<1>5. inLink' \in [Inports -> Seq(LinkFlit)]
  BY <1>1 DEF InputUnits
<1>6. stage' = "OutputUnits" /\ UNCHANGED <<outVars, saVars, envVars, creditIn>>
  BY DEF InputUnits
<1> QED
  BY <1>2, <1>3, <1>4, <1>5, <1>6 DEF TypeOK, StageOK, InOK, OutOK, outVars, saVars, envVars

LEMMA TypeOutputUnits ==
    ASSUME TypeOK, OutputUnits
    PROVE  TypeOK'
<1>1. credits' \in [Outports -> [VCs -> Int]]
  BY DEF OutputUnits, TypeOK, OutOK
<1>2. outState' \in [Outports -> [VCs -> {IDLE_, ACTIVE_}]]
  BY DEF OutputUnits, TypeOK, OutOK
<1>3. creditIn' \in [Outports -> Seq(Credit)]
  <2>1. \A o \in Outports : creditIn[o] # << >> => Tail(creditIn[o]) \in Seq(Credit)
    BY TakeFrom DEF TypeOK, OutOK
  <2> QED
    BY <2>1 DEF OutputUnits
<1>4. stage' = "SwitchAllocator" /\ UNCHANGED <<inVars, saVars, envVars, inLink>>
  BY DEF OutputUnits
<1> QED
  BY <1>1, <1>2, <1>3, <1>4 DEF TypeOK, StageOK, InOK, OutOK, inVars, saVars, envVars

LEMMA TypeSwitchAllocator ==
    ASSUME TypeOK, SwitchAllocator
    PROVE  TypeOK'
<1> USE DEF TypeOK
<1>1. \A i \in Inports, v \in VCs : Won(i, v) =>
        OutVcOf(i) \in VCs /\ buffer[i][v] # << >> /\ Tail(buffer[i][v]) \in Seq(Flags)
  BY WinnersVc, WinnerRequests, TakeFrom DEF Won, Wins, InOK
<1>2. buffer' \in [Inports -> [VCs -> Seq(Flags)]]
  <2>1. \A i \in Inports, v \in VCs :
          (IF Won(i, v) THEN Tail(buffer[i][v]) ELSE buffer[i][v]) \in Seq(Flags)
    BY <1>1 DEF InOK
  <2>2. buffer' = [i \in Inports |-> [v \in VCs |->
          IF Won(i, v) THEN Tail(buffer[i][v]) ELSE buffer[i][v]]]
    BY Allocated
  <2> QED
    BY <2>1, <2>2
<1>3. outvc' \in [Inports -> [VCs -> VCs \cup {None}]]
  <2>1. \A i \in Inports, v \in VCs :
          (IF Frees(i, v) THEN None
           ELSE IF Won(i, v) THEN OutVcOf(i) ELSE outvc[i][v]) \in VCs \cup {None}
    BY <1>1 DEF InOK
  <2>2. outvc' = [i \in Inports |-> [v \in VCs |->
          IF Frees(i, v) THEN None ELSE IF Won(i, v) THEN OutVcOf(i) ELSE outvc[i][v]]]
    BY Allocated
  <2> QED
    BY <2>1, <2>2
<1>4. vcState' \in [Inports -> [VCs -> {IDLE_, ACTIVE_}]]
      /\ outport' \in [Inports -> [VCs -> Outports \cup {None}]]
  BY Allocated DEF InOK
<1>5. outState' \in [Outports -> [VCs -> {IDLE_, ACTIVE_}]] /\ credits' \in [Outports -> [VCs -> Int]]
  BY Allocated DEF OutOK
<1>6. ASSUME NEW i \in Inports, Wins(i)
      PROVE  /\ InvcWinner(i) \in VCs
             /\ [vc |-> OutVcOf(i), port |-> RequestedPort(i),
                 tail |-> Head(buffer[i][InvcWinner(i)]).tail] \in CrossingFlit
  <2>1. InvcWinner(i) \in VCs /\ Won(i, InvcWinner(i)) /\ buffer[i][InvcWinner(i)] # << >>
    BY <1>6, WinnerRequests DEF Won, Wins
  <2>2. Head(buffer[i][InvcWinner(i)]) \in Flags
    BY <2>1, TakeFrom DEF InOK
  <2>3. RequestedPort(i) \in Outports \cup {None}
    BY <2>1 DEF RequestedPort, InOK
  <2> QED
    BY <1>1, <2>1, <2>2, <2>3 DEF CrossingFlit, Flags
<1>7. switchBuffer' \in [Inports -> Seq(CrossingFlit)]
  <2>1. ASSUME NEW i \in Inports, Wins(i)
        PROVE  Append(switchBuffer[i],
                 [vc |-> OutVcOf(i), port |-> RequestedPort(i),
                  tail |-> Head(buffer[i][InvcWinner(i)]).tail]) \in Seq(CrossingFlit)
    BY <1>6, <2>1, AppendTo DEF OutOK
  <2> QED
    BY <2>1, Allocated DEF OutOK
<1>8. rrInvc' \in [Inports -> Nat]
  <2>1. ASSUME NEW i \in Inports, Wins(i)
        PROVE  NextOf(InvcWinner(i), Cardinality(VCs)) \in Nat
    <3>1. InvcWinner(i) \in Int /\ Cardinality(VCs) \in Nat \ {0}
      BY <1>6, <2>1, VcsAre
    <3>2. \A k \in Int, n \in Nat \ {0} : (k + 1) % n \in Nat
      BY InARound
    <3> QED
      BY <3>1, <3>2 DEF NextOf
  <2>2. rrInvc' = [i \in Inports |->
          IF Wins(i) THEN NextOf(InvcWinner(i), Cardinality(VCs)) ELSE rrInvc[i]]
    BY Allocated
  <2> QED
    BY <2>1, <2>2 DEF InOK
<1> QED
  BY <1>2, <1>3, <1>4, <1>5, <1>7, <1>8, Allocated DEF StageOK, InOK, OutOK

-----------------------------------------------------------------------------
(* Packets at the input VCs                                                *)

OnLink(i, v) == inLink[i] # << >> /\ InFlit(i).vc = v

(* A flit on a link fits its VC: a head comes to an idle one, the tail is  *)
(* the last of its packet; it is taken by InputUnits.                      *)
LinkInv(i) ==
    /\ stage \in {"OutputUnits", "SwitchAllocator", "Crossbar"} => inLink[i] = << >>
    /\ inLink[i] # << >> =>
         /\ Len(inLink[i]) = 1
         /\ vcState[i][InFlit(i).vc] = IF InFlit(i).head THEN IDLE_ ELSE ACTIVE_
         /\ InFlit(i).tail => coming[i][InFlit(i).vc] = 0

(* An idle VC is empty and holds no output VC; a tail is the last flit of  *)
(* its VC, here and upstream.                                              *)
VcInv(i, v) ==
    /\ vcState[i][v] = IDLE_ =>
         buffer[i][v] = << >> /\ outvc[i][v] = None /\ (coming[i][v] > 0 => OnLink(i, v))
    /\ \A j \in 1 .. Len(buffer[i][v]) : buffer[i][v][j].tail =>
         j = Len(buffer[i][v]) /\ coming[i][v] = 0 /\ ~OnLink(i, v)

PacketInv == \A i \in Inports : LinkInv(i) /\ \A v \in VCs : VcInv(i, v)

LEMMA PacketSame ==
    ASSUME PacketInv, UNCHANGED <<inLink, vcState, outvc, buffer, coming>>,
           stage' \in {"OutputUnits", "SwitchAllocator", "Crossbar"} =>
             stage \in {"OutputUnits", "SwitchAllocator", "Crossbar"}
    PROVE  PacketInv'
BY DEF PacketInv, LinkInv, VcInv, OnLink, InFlit

LEMMA PacketHeadArrives ==
    ASSUME TypeOK, PacketInv, NEW i \in Inports, NEW v \in VCs, NEW o \in Outports,
           NEW f \in Flows, NEW n \in 1 .. MaxFlits, HeadArrives(i, v, o, f, n)
    PROVE  PacketInv'
<1> DEFINE x == [vc |-> v, head |-> TRUE, tail |-> n = 1, route |-> o]
<1>1. /\ stage = "arrivals" /\ stage' = stage /\ inLink[i] = << >> /\ vcState[i][v] = IDLE_
      /\ inLink' = [inLink EXCEPT ![i] = << x >>] /\ coming' = [coming EXCEPT ![i][v] = n - 1]
      /\ UNCHANGED <<vcState, buffer, outvc>>
  BY DEF HeadArrives, inVars, saVars
<1>2. x.vc = v /\ x.head = TRUE /\ (x.tail <=> n = 1)
  OBVIOUS
<1> HIDE DEF x
<1>3. inLink'[i] = << x >> /\ coming'[i][v] = n - 1
      /\ \A w \in VCs : w # v => coming'[i][w] = coming[i][w]
  BY <1>1 DEF TypeOK, InOK
<1>4. inLink'[i] # << >> /\ Len(inLink'[i]) = 1 /\ InFlit(i)' = x
  BY <1>3, OneElement DEF InFlit
<1> SUFFICES ASSUME NEW j \in Inports
             PROVE  LinkInv(j)' /\ \A w \in VCs : VcInv(j, w)'
  BY DEF PacketInv
<1>5. CASE j # i
  <2>1. inLink'[j] = inLink[j] /\ coming'[j] = coming[j]
    BY <1>1, <1>5 DEF TypeOK, InOK
  <2> QED
    BY <1>1, <2>1 DEF PacketInv, LinkInv, VcInv, OnLink, InFlit
<1>6. CASE j = i
  <2>1. LinkInv(i)'
    BY <1>1, <1>2, <1>3, <1>4 DEF LinkInv
  <2>2. ASSUME NEW w \in VCs PROVE VcInv(i, w)'
    <3>1. VcInv(i, w) /\ ~OnLink(i, w) /\ (OnLink(i, w)' <=> w = v)
      BY <1>1, <1>2, <1>4 DEF PacketInv, OnLink
    <3>2. CASE w = v
      <4>1. buffer[i][v] = << >> /\ Len(buffer[i][v]) = 0
        BY <1>1, <3>1, <3>2, EmptySeq DEF VcInv
      <4> QED
        BY <1>1, <3>1, <3>2, <4>1 DEF VcInv
    <3>3. CASE w # v
      BY <1>1, <1>3, <3>1, <3>3 DEF VcInv
    <3> QED
      BY <3>2, <3>3
  <2> QED
    BY <1>6, <2>1, <2>2
<1> QED
  BY <1>5, <1>6

LEMMA PacketFlitArrives ==
    ASSUME TypeOK, PacketInv, NEW i \in Inports, NEW v \in VCs, FlitArrives(i, v)
    PROVE  PacketInv'
<1> DEFINE x == [vc |-> v, head |-> FALSE, tail |-> coming[i][v] = 1, route |-> None]
<1>1. /\ stage = "arrivals" /\ stage' = stage /\ inLink[i] = << >> /\ coming[i][v] > 0
      /\ inLink' = [inLink EXCEPT ![i] = << x >>] /\ coming' = [coming EXCEPT ![i][v] = @ - 1]
      /\ UNCHANGED <<vcState, buffer, outvc>>
  BY DEF FlitArrives, inVars, saVars
<1>2. x.vc = v /\ x.head = FALSE /\ (x.tail <=> coming[i][v] = 1)
  OBVIOUS
<1> HIDE DEF x
<1>3. inLink'[i] = << x >> /\ coming'[i][v] = coming[i][v] - 1 /\ coming[i][v] \in Nat
      /\ \A w \in VCs : w # v => coming'[i][w] = coming[i][w]
  BY <1>1 DEF TypeOK, InOK
<1>4. inLink'[i] # << >> /\ Len(inLink'[i]) = 1 /\ InFlit(i)' = x
  BY <1>3, OneElement DEF InFlit
<1>5. ~OnLink(i, v) /\ vcState[i][v] = ACTIVE_ /\ coming[i][v] # 0
  <2>1. ~OnLink(i, v) /\ coming[i][v] # 0
    BY <1>1, <1>3 DEF OnLink
  <2>2. vcState[i][v] # IDLE_
    BY <1>1, <2>1 DEF PacketInv, VcInv
  <2> QED
    BY <2>1, <2>2 DEF TypeOK, InOK
<1> SUFFICES ASSUME NEW j \in Inports
             PROVE  LinkInv(j)' /\ \A w \in VCs : VcInv(j, w)'
  BY DEF PacketInv
<1>6. CASE j # i
  <2>1. inLink'[j] = inLink[j] /\ coming'[j] = coming[j]
    BY <1>1, <1>6 DEF TypeOK, InOK
  <2> QED
    BY <1>1, <2>1 DEF PacketInv, LinkInv, VcInv, OnLink, InFlit
<1>7. CASE j = i
  <2>1. LinkInv(i)'
    BY <1>1, <1>2, <1>3, <1>4, <1>5 DEF LinkInv
  <2>2. ASSUME NEW w \in VCs PROVE VcInv(i, w)'
    <3>1. VcInv(i, w) /\ ~OnLink(i, w) /\ (OnLink(i, w)' <=> w = v)
      BY <1>1, <1>2, <1>4 DEF PacketInv, OnLink
    <3>2. CASE w = v
      <4>1. \A k \in 1 .. Len(buffer[i][v]) : ~buffer[i][v][k].tail
        BY <1>5, <3>1, <3>2 DEF VcInv
      <4> QED
        BY <1>1, <1>5, <3>2, <4>1 DEF VcInv, IDLE_, ACTIVE_
    <3>3. CASE w # v
      BY <1>1, <1>3, <3>1, <3>3 DEF VcInv
    <3> QED
      BY <3>2, <3>3
  <2> QED
    BY <1>7, <2>1, <2>2
<1> QED
  BY <1>6, <1>7

LEMMA PacketTick ==
    ASSUME TypeOK, PacketInv, Tick
    PROVE  PacketInv'
<1>1. /\ stage' = "arrivals" /\ UNCHANGED <<inLink, vcState, outvc, coming>>
      /\ buffer' = [i \in Inports |-> [v \in VCs |->
                    [k \in DOMAIN buffer[i][v] |-> Waited(buffer[i][v][k])]]]
  BY DEF Tick, saVars, envVars, linkVars
<1>2. ASSUME NEW i \in Inports, NEW v \in VCs
      PROVE  /\ buffer[i][v] = << >> => buffer'[i][v] = << >>
             /\ Len(buffer'[i][v]) = Len(buffer[i][v])
             /\ \A k \in 1 .. Len(buffer[i][v]) : buffer'[i][v][k].tail = buffer[i][v][k].tail
  <2> DEFINE b == buffer[i][v]
             c == [k \in DOMAIN b |-> Waited(b[k])]
  <2>1. buffer'[i][v] = c
    BY <1>1
  <2>2. b \in Seq(Flags)
    BY DEF TypeOK, InOK
  <2>3. Len(b) \in Nat /\ DOMAIN b = 1 .. Len(b) /\ \A k \in 1 .. Len(b) : b[k] \in Flags
    BY <2>2, LengthOf
  <2>4. c \in [1 .. Len(b) -> Flags]
    <3> HIDE DEF b
    <3> QED
      BY <2>3, WaitedFlag
  <2>5. c \in Seq(Flags) /\ DOMAIN c = 1 .. Len(b)
    <3> HIDE DEF b, c
    <3> QED
      BY <2>3, <2>4, SeqDef
  <2>6. Len(c) = Len(b)
    <3> HIDE DEF b, c
    <3> QED
      BY <2>3, <2>5, LenProperties
  <2>7. \A k \in 1 .. Len(b) : c[k].tail = b[k].tail
    BY <2>3, WaitedFlag
  <2>8. b = << >> => c = << >>
    <3> HIDE DEF b, c
    <3> QED
      BY <2>2, <2>5, <2>6, EmptySeq
  <2> QED
    BY <2>1, <2>6, <2>7, <2>8
<1>3. \A i \in Inports : LinkInv(i)'
  BY <1>1 DEF PacketInv, LinkInv, InFlit
<1>4. ASSUME NEW i \in Inports, NEW v \in VCs PROVE VcInv(i, v)'
  <2>1. VcInv(i, v) /\ (OnLink(i, v)' <=> OnLink(i, v))
    BY <1>1 DEF PacketInv, OnLink, InFlit
  <2> DEFINE b == buffer[i][v]
             c == buffer'[i][v]
  <2>2. /\ b = << >> => c = << >>
        /\ Len(c) = Len(b) /\ \A k \in 1 .. Len(b) : c[k].tail = b[k].tail
    BY <1>2
  <2>3. \A j \in 1 .. Len(b) : b[j].tail => j = Len(b) /\ coming[i][v] = 0 /\ ~OnLink(i, v)
    BY <2>1 DEF VcInv
  <2>4. vcState[i][v] = IDLE_ =>
          b = << >> /\ outvc[i][v] = None /\ (coming[i][v] > 0 => OnLink(i, v))
    BY <2>1 DEF VcInv
  <2>5. VcInv(i, v)' <=>
          /\ vcState'[i][v] = IDLE_ =>
               c = << >> /\ outvc'[i][v] = None /\ (coming'[i][v] > 0 => OnLink(i, v)')
          /\ \A j \in 1 .. Len(c) : c[j].tail =>
               j = Len(c) /\ coming'[i][v] = 0 /\ ~OnLink(i, v)'
    BY DEF VcInv
  <2> HIDE DEF b, c
  <2>6. \A j \in 1 .. Len(c) : c[j].tail =>
          j = Len(c) /\ coming'[i][v] = 0 /\ ~OnLink(i, v)'
    BY <1>1, <2>1, <2>2, <2>3
  <2> QED
    BY <1>1, <2>1, <2>2, <2>4, <2>5, <2>6
<1> QED
  BY <1>3, <1>4 DEF PacketInv

LEMMA PacketInputUnits ==
    ASSUME TypeOK, PacketInv, InputUnits
    PROVE  PacketInv'
<1>1. stage' = "OutputUnits" /\ UNCHANGED <<outvc, coming>>
  BY DEF InputUnits, saVars, envVars
<1>2. ASSUME NEW i \in Inports
      PROVE  inLink'[i] = << >>
  <2>1. CASE Arrived(i)
    <3>1. inLink[i] \in Seq(LinkFlit) /\ inLink[i] # << >> /\ Len(inLink[i]) = 1
      BY <2>1 DEF Arrived, PacketInv, LinkInv, TypeOK, InOK
    <3>2. Tail(inLink[i]) \in Seq(LinkFlit) /\ Len(Tail(inLink[i])) = 1 - 1
      BY <3>1, TakeFrom
    <3>3. Tail(inLink[i]) = << >>
      BY <3>2, NoLength, 1 - 1 = 0
    <3> QED
      BY <2>1, <3>3 DEF InputUnits
  <2>2. CASE ~Arrived(i)
    BY <2>2 DEF InputUnits
  <2> QED
    BY <2>1, <2>2
<1>3. \A i \in Inports : LinkInv(i)'
  BY <1>2 DEF LinkInv
<1>4. ASSUME NEW i \in Inports, NEW v \in VCs PROVE VcInv(i, v)'
  <2>1. VcInv(i, v) /\ ~OnLink(i, v)'
    BY <1>2 DEF PacketInv, OnLink
  <2>2. CASE ~OnLink(i, v)
    <3>1. vcState'[i][v] = vcState[i][v] /\ buffer'[i][v] = buffer[i][v]
      BY <2>2 DEF InputUnits, OnLink, Arrived, TypeOK, InOK
    <3> QED
      BY <1>1, <2>1, <2>2, <3>1 DEF VcInv
  <2>3. CASE OnLink(i, v)
    <3> DEFINE b == buffer[i][v]
               x == [tail |-> InFlit(i).tail, wait |-> PipeStages - 1]
    <3>1. Arrived(i) /\ InFlit(i) \in LinkFlit /\ InFlit(i).vc = v
      BY <2>3, TakeFrom DEF OnLink, Arrived, InFlit, TypeOK, InOK
    <3>2. vcState'[i][v] = ACTIVE_
      BY <3>1 DEF InputUnits, PacketInv, LinkInv, Arrived, TypeOK, InOK
    <3>3. buffer'[i][v] = Append(b, x)
      BY <3>1 DEF InputUnits, TypeOK, InOK
    <3>4. x \in Flags /\ x.tail = InFlit(i).tail /\ b \in Seq(Flags)
      BY <3>1, NewFlit DEF LinkFlit, TypeOK, InOK
    <3>5. \A j \in 1 .. Len(b) : ~b[j].tail
      BY <2>1, <2>3 DEF VcInv
    <3>6. x.tail => coming'[i][v] = 0
      BY <1>1, <3>1, <3>4 DEF PacketInv, LinkInv, Arrived
    <3> HIDE DEF b, x
    <3>7. /\ Len(b) \in Nat /\ Len(Append(b, x)) = Len(b) + 1
          /\ \A j \in 1 .. Len(b) : Append(b, x)[j] = b[j]
          /\ Append(b, x)[Len(b) + 1] = x
      BY <3>4, AppendTo
    <3>8. \A j \in 1 .. Len(b) + 1 : Append(b, x)[j].tail => j = Len(b) + 1 /\ coming'[i][v] = 0
      BY <3>5, <3>6, <3>7
    <3> QED
      BY <2>1, <3>2, <3>3, <3>7, <3>8 DEF VcInv, IDLE_, ACTIVE_
  <2> QED
    BY <2>2, <2>3
<1> QED
  BY <1>3, <1>4 DEF PacketInv

LEMMA PacketSwitchAllocator ==
    ASSUME TypeOK, PacketInv, SwitchAllocator
    PROVE  PacketInv'
<1>1. /\ stage = "SwitchAllocator" /\ UNCHANGED <<inLink, coming>>
  BY Allocated
<1>2. \A i \in Inports : LinkInv(i)'
  BY <1>1 DEF PacketInv, LinkInv
<1>3. ASSUME NEW i \in Inports, NEW v \in VCs PROVE VcInv(i, v)'
  <2>1. VcInv(i, v) /\ ~OnLink(i, v) /\ ~OnLink(i, v)'
    BY <1>1 DEF PacketInv, LinkInv, OnLink
  <2>2. /\ buffer'[i][v] = IF Won(i, v) THEN Tail(buffer[i][v]) ELSE buffer[i][v]
        /\ vcState'[i][v] = IF Frees(i, v) THEN IDLE_ ELSE vcState[i][v]
    <3>1. /\ buffer' = [j \in Inports |-> [w \in VCs |->
               IF Won(j, w) THEN Tail(buffer[j][w]) ELSE buffer[j][w]]]
          /\ vcState' = [j \in Inports |-> [w \in VCs |->
               IF Frees(j, w) THEN IDLE_ ELSE vcState[j][w]]]
      BY Allocated
    <3> QED
      BY <3>1
  <2>3. outvc'[i][v] = IF Frees(i, v) THEN None
                      ELSE IF Won(i, v) THEN OutVcOf(i) ELSE outvc[i][v]
    BY Allocated
  <2>4. CASE ~Won(i, v)
    <3>1. /\ buffer'[i][v] = buffer[i][v] /\ vcState'[i][v] = vcState[i][v]
          /\ outvc'[i][v] = outvc[i][v]
      BY <2>2, <2>3, <2>4 DEF Frees
    <3> QED
      BY <1>1, <2>1, <3>1 DEF VcInv
  <2>5. CASE Won(i, v)
    <3> DEFINE b == buffer[i][v]
               t == Tail(b)
    <3>1. b # << >> /\ b \in Seq(Flags)
      BY <2>5, WinnerRequests DEF Won, Wins, TypeOK, InOK
    <3>2. vcState[i][v] # IDLE_
      BY <2>1, <3>1 DEF VcInv
    <3>3. \A j \in 1 .. Len(b) : b[j].tail => j = Len(b) /\ coming[i][v] = 0
      BY <2>1 DEF VcInv
    <3>4. buffer'[i][v] = t
      BY <2>2, <2>5
    <3>5. Frees(i, v) => Head(b).tail
      BY DEF Frees
    <3> HIDE DEF b
    <3>6. /\ \A j \in 1 .. Len(t) : t[j].tail => j = Len(t)
          /\ \A j \in 1 .. Len(t) : \E k \in 1 .. Len(b) : t[j] = b[k]
          /\ Head(b).tail => t = << >>
      BY <3>1, <3>3, TailStaysLast
    <3>7. Head(b).tail => coming[i][v] = 0
      <4>1. Len(b) \in Nat \ {0} /\ Head(b) = b[1]
        BY <3>1, TakeFrom
      <4> DEFINE n == Len(b)
      <4>2. \A j \in 1 .. n : b[j].tail => coming[i][v] = 0
        BY <3>3
      <4>3. n \in Nat \ {0}
        BY <4>1
      <4> HIDE DEF n
      <4>4. 1 \in 1 .. n
        BY <4>3
      <4> QED
        BY <4>1, <4>2, <4>4
    <3> HIDE DEF t
    <3>8. \A j \in 1 .. Len(t) : t[j].tail => j = Len(t) /\ coming[i][v] = 0
      BY <3>3, <3>6
    <3>9. vcState'[i][v] = IDLE_ => t = << >> /\ outvc'[i][v] = None /\ coming[i][v] = 0
      BY <2>2, <2>3, <3>2, <3>5, <3>6, <3>7
    <3> QED
      BY <1>1, <2>1, <3>4, <3>8, <3>9 DEF VcInv
  <2> QED
    BY <2>4, <2>5
<1> QED
  BY <1>2, <1>3 DEF PacketInv

-----------------------------------------------------------------------------
(* Packets at the output VCs                                               *)

Holds(i, v, o, u) == outport[i][v] = o /\ outvc[i][v] = u
Held(o, u)        == \E i \in Inports, v \in VCs : Holds(i, v, o, u)
Under(o, u)       == Crossing(o, u) # {}
FreeBack(o, u)    == Credited(o, u) /\ Head(creditIn[o]).free
TailDown(o, u)    == \E j \in 1 .. Len(downstream[o][u]) : downstream[o][u][j]
TailCrosses(o, u) == \E i \in Crossing(o, u) : Head(switchBuffer[i]).tail
Ending(o, u)      == FreeBack(o, u) \/ TailDown(o, u) \/ TailCrosses(o, u)

OneOwner(o, u) ==
    \A i, j \in Inports, v, w \in VCs :
        Holds(i, v, o, u) /\ Holds(j, w, o, u) => i = j /\ v = w

(* Nothing follows a tail until its free signal is back.                   *)
TailIsLast(o, u) ==
    /\ FreeBack(o, u) => downstream[o][u] = << >> /\ ~Under(o, u)
    /\ \A j \in 1 .. Len(downstream[o][u]) :
         downstream[o][u][j] => j = Len(downstream[o][u]) /\ ~Under(o, u)

(* The packet that an output VC carries is held by an input VC or has its  *)
(* tail under way; an idle one carries nothing.                            *)
Carries(o, u) ==
    /\ Ending(o, u) => ~Held(o, u)
    /\ outState[o][u] = IDLE_ =>
         ~Held(o, u) /\ ~Under(o, u) /\ downstream[o][u] = << >> /\ ~Credited(o, u)
    /\ outState[o][u] = ACTIVE_ => Held(o, u) \/ Ending(o, u)

Balance(o, u) ==
    /\ credits[o][u] >= 0
    /\ credits[o][u] + Len(downstream[o][u]) + One(Under(o, u)) + One(Credited(o, u)) = Depth

OutVcInv(o, u) ==
    /\ OneOwner(o, u) /\ (\A i, j \in Crossing(o, u) : i = j)
    /\ TailIsLast(o, u) /\ Carries(o, u) /\ Balance(o, u)

WiresInv ==
    /\ \A i \in Inports : /\ stage # "Crossbar" => switchBuffer[i] = << >>
                          /\ switchBuffer[i] # << >> => Len(switchBuffer[i]) = 1
    /\ \A o \in Outports : creditIn[o] # << >> => Len(creditIn[o]) = 1

OutInv == WiresInv /\ \A o \in Outports, u \in VCs : OutVcInv(o, u)

(* A step that leaves the output VCs and who holds them.                   *)
LEMMA OutSame ==
    ASSUME OutInv, UNCHANGED <<outState, credits, creditIn, downstream, switchBuffer>>,
           \A i \in Inports, v, u \in VCs, o \in Outports : Holds(i, v, o, u)' <=> Holds(i, v, o, u),
           stage # "Crossbar"
    PROVE  OutInv'
<1>1. WiresInv'
  BY DEF OutInv, WiresInv
<1>2. ASSUME NEW o \in Outports, NEW u \in VCs PROVE OutVcInv(o, u)'
  <2>1. Held(o, u)' <=> Held(o, u)
    BY DEF Held
  <2>2. OneOwner(o, u)' <=> OneOwner(o, u)
    BY DEF OneOwner
  <2>3. /\ Crossing(o, u)' = Crossing(o, u) /\ (Credited(o, u)' <=> Credited(o, u))
        /\ (FreeBack(o, u)' <=> FreeBack(o, u))
    BY DEF Crossing, Credited, FreeBack
  <2>4. Under(o, u)' <=> Under(o, u)
    BY <2>3 DEF Under
  <2>5. Ending(o, u)' <=> Ending(o, u)
    BY <2>3 DEF Ending, TailDown, TailCrosses
  <2>6. TailIsLast(o, u)'
    BY <2>3, <2>4 DEF OutInv, OutVcInv, TailIsLast
  <2>7. Carries(o, u)'
    BY <2>1, <2>3, <2>4, <2>5 DEF OutInv, OutVcInv, Carries
  <2>8. Balance(o, u)'
    BY <2>3, <2>4 DEF OutInv, OutVcInv, Balance, One
  <2> QED
    BY <2>2, <2>3, <2>6, <2>7, <2>8 DEF OutInv, OutVcInv
<1> QED
  BY <1>1, <1>2 DEF OutInv

LEMMA OutInputUnits ==
    ASSUME TypeOK, PacketInv, OutInv, InputUnits
    PROVE  OutInv'
<1>1. /\ stage = "InputUnits"
      /\ UNCHANGED <<outState, credits, creditIn, downstream, switchBuffer, outvc>>
  BY DEF InputUnits, outVars, saVars, envVars
<1>2. ASSUME NEW i \in Inports, NEW v \in VCs, NEW u \in VCs, NEW o \in Outports
      PROVE  Holds(i, v, o, u)' <=> Holds(i, v, o, u)
  <2>1. CASE Arrived(i) /\ InFlit(i).head /\ InFlit(i).vc = v
    <3>1. outvc[i][v] = None
      BY <2>1 DEF PacketInv, LinkInv, VcInv, Arrived
    <3> QED
      BY <1>1, <3>1, VcsAre DEF Holds
  <2>2. CASE ~(Arrived(i) /\ InFlit(i).head /\ InFlit(i).vc = v)
    <3>1. outport'[i][v] = outport[i][v]
      BY <2>2 DEF InputUnits, TypeOK, InOK
    <3> QED
      BY <1>1, <3>1 DEF Holds
  <2> QED
    BY <2>1, <2>2
<1> QED
  BY <1>1, <1>2, OutSame

(* A credit taken: one flit less under way, and with the free signal the   *)
(* VC is idle, with nothing left of its packet.                            *)
LEMMA OutOutputUnits ==
    ASSUME TypeOK, OutInv, OutputUnits
    PROVE  OutInv'
<1>1. /\ stage = "OutputUnits" /\ stage' = "SwitchAllocator"
      /\ UNCHANGED <<downstream, switchBuffer, outport, outvc>>
  BY DEF OutputUnits, inVars, saVars, envVars
<1>2. \A o \in Outports : creditIn'[o] = << >>
  <2> SUFFICES ASSUME NEW o \in Outports, creditIn[o] # << >>
               PROVE  Tail(creditIn[o]) = << >>
    BY DEF OutputUnits
  <2> QED
    BY TakeOnly DEF OutInv, WiresInv, TypeOK, OutOK
<1>3. WiresInv'
  BY <1>1, <1>2 DEF OutInv, WiresInv
<1>4. ASSUME NEW o \in Outports, NEW u \in VCs PROVE OutVcInv(o, u)'
  <2>1. /\ Crossing(o, u)' = Crossing(o, u) /\ ~Credited(o, u)' /\ ~FreeBack(o, u)'
        /\ Crossing(o, u) = {}
    BY <1>1, <1>2 DEF Crossing, Credited, FreeBack, OutInv, WiresInv
  <2>2. /\ Held(o, u)' <=> Held(o, u)
        /\ OneOwner(o, u)' <=> OneOwner(o, u)
        /\ ~Under(o, u)' /\ ~Under(o, u)
        /\ ~TailCrosses(o, u)' /\ ~TailCrosses(o, u)
        /\ TailDown(o, u)' <=> TailDown(o, u)
    BY <1>1, <2>1 DEF Held, Holds, OneOwner, Under, TailCrosses, TailDown
  <2>3. OutVcInv(o, u)
    BY DEF OutInv
  <2>4. /\ credits'[o][u] = IF Credited(o, u) THEN credits[o][u] + 1 ELSE credits[o][u]
        /\ outState'[o][u] = IF FreeBack(o, u) THEN IDLE_ ELSE outState[o][u]
    BY DEF OutputUnits, FreeBack
  <2>5. TailIsLast(o, u)'
    BY <1>1, <2>1, <2>2, <2>3 DEF OutVcInv, TailIsLast
  <2>6. Carries(o, u)'
    <3>1. FreeBack(o, u) => downstream[o][u] = << >> /\ ~Held(o, u)
      BY <2>3 DEF OutVcInv, TailIsLast, Carries, Ending
    <3>2. downstream[o][u] = << >> => ~TailDown(o, u)
      BY EmptySeq DEF TailDown
    <3>3. outState[o][u] \in {IDLE_, ACTIVE_} /\ IDLE_ # ACTIVE_
      BY DEF TypeOK, OutOK, IDLE_, ACTIVE_
    <3>4. CASE FreeBack(o, u)
      BY <1>1, <2>1, <2>2, <2>4, <3>1, <3>2, <3>3, <3>4 DEF Carries, Ending
    <3>5. CASE ~FreeBack(o, u)
      BY <1>1, <2>1, <2>2, <2>3, <2>4, <3>5 DEF OutVcInv, Carries, Ending
    <3> QED
      BY <3>4, <3>5
  <2>7. Balance(o, u)'
    <3> DEFINE n == Len(downstream[o][u])
               c == credits[o][u]
    <3>1. n \in Nat /\ c \in Int
      BY LengthOf DEF TypeOK, OutOK
    <3>2. c >= 0 /\ c + n + 0 + One(Credited(o, u)) = Depth
      BY <2>2, <2>3 DEF OutVcInv, Balance, One
    <3>3. Balance(o, u)' <=> (credits'[o][u] >= 0 /\ credits'[o][u] + n + 0 + 0 = Depth)
      BY <1>1, <2>1, <2>2 DEF Balance, One
    <3> HIDE DEF n, c
    <3>4. CASE Credited(o, u)
      <4>1. One(Credited(o, u)) = 1 /\ credits'[o][u] = c + 1
        BY <2>4, <3>4 DEF One, c
      <4> QED
        BY <3>1, <3>2, <3>3, <4>1, SizesAssumption
    <3>5. CASE ~Credited(o, u)
      <4>1. One(Credited(o, u)) = 0 /\ credits'[o][u] = c
        BY <2>4, <3>5 DEF One, c
      <4> QED
        BY <3>1, <3>2, <3>3, <4>1, SizesAssumption
    <3> QED
      BY <3>4, <3>5
  <2> QED
    BY <2>1, <2>2, <2>3, <2>5, <2>6, <2>7 DEF OutVcInv
<1> QED
  BY <1>3, <1>4 DEF OutInv

LEMMA OutCreditArrives ==
    ASSUME TypeOK, OutInv, NEW o \in Outports, NEW v \in VCs, CreditArrives(o, v)
    PROVE  OutInv'
<1> DEFINE d == downstream[o][v]
           x == [vc |-> v, free |-> Head(d)]
<1>1. /\ stage = "arrivals" /\ stage' = stage /\ creditIn[o] = << >> /\ d # << >>
      /\ creditIn' = [creditIn EXCEPT ![o] = << x >>]
      /\ downstream' = [downstream EXCEPT ![o][v] = Tail(d)]
      /\ UNCHANGED <<switchBuffer, outport, outvc, outState, credits>>
  BY DEF CreditArrives, inVars, saVars, outVars
<1>2. d \in Seq(BOOLEAN) /\ x.vc = v /\ x.free = Head(d)
  BY DEF TypeOK, OutOK
<1>3. /\ creditIn'[o] = << x >> /\ downstream'[o][v] = Tail(d)
      /\ \A p \in Outports : p # o => creditIn'[p] = creditIn[p]
      /\ \A p \in Outports, u \in VCs : p # o \/ u # v => downstream'[p][u] = downstream[p][u]
  <2> HIDE DEF d, x
  <2> QED
    BY <1>1 DEF TypeOK, OutOK
<1> HIDE DEF x
<1>4. creditIn'[o] # << >> /\ Head(creditIn'[o]) = x /\ Len(creditIn'[o]) = 1
  BY <1>3, OneElement
<1>5. WiresInv'
  BY <1>1, <1>3, <1>4 DEF OutInv, WiresInv
<1>6. ASSUME NEW p \in Outports, NEW u \in VCs PROVE OutVcInv(p, u)'
  <2>1. /\ Crossing(p, u)' = Crossing(p, u) /\ Crossing(p, u) = {}
        /\ (Held(p, u)' <=> Held(p, u)) /\ (OneOwner(p, u)' <=> OneOwner(p, u))
    BY <1>1 DEF Crossing, OutInv, WiresInv, Held, Holds, OneOwner
  <2>2. /\ ~Under(p, u)' /\ ~Under(p, u) /\ ~TailCrosses(p, u)' /\ ~TailCrosses(p, u)
    BY <2>1 DEF Under, TailCrosses
  <2>3. OutVcInv(p, u)
    BY DEF OutInv
  <2>4. CASE p # o \/ u # v
    <3>1. downstream'[p][u] = downstream[p][u]
      BY <1>3, <2>4
    <3>2. (Credited(p, u)' <=> Credited(p, u)) /\ (FreeBack(p, u)' <=> FreeBack(p, u))
      <4>1. CASE p # o
        BY <1>3, <4>1 DEF Credited, FreeBack
      <4>2. CASE p = o
        BY <1>1, <1>2, <1>4, <2>4, <4>2 DEF Credited, FreeBack
      <4> QED
        BY <4>1, <4>2
    <3>3. TailIsLast(p, u)'
      BY <2>2, <2>3, <3>1, <3>2 DEF OutVcInv, TailIsLast
    <3>4. Carries(p, u)'
      BY <1>1, <2>1, <2>2, <2>3, <3>1, <3>2 DEF OutVcInv, Carries, Ending, TailDown
    <3>5. Balance(p, u)'
      BY <1>1, <2>2, <2>3, <3>1, <3>2 DEF OutVcInv, Balance, One
    <3> QED
      BY <2>1, <2>3, <3>3, <3>4, <3>5 DEF OutVcInv
  <2>5. CASE p = o /\ u = v
    <3> DEFINE n == Len(d)
               t == Tail(d)
    <3>1. /\ n \in Nat \ {0} /\ Head(d) = d[1] /\ t \in Seq(BOOLEAN) /\ Len(t) = n - 1
          /\ \A j \in 1 .. n - 1 : t[j] = d[j + 1]
      BY <1>1, <1>2, TakeFrom
    <3>2. ~Credited(o, v) /\ ~FreeBack(o, v) /\ Credited(o, v)' /\ (FreeBack(o, v)' <=> d[1])
      BY <1>1, <1>2, <1>4, <3>1 DEF Credited, FreeBack
    <3>3. \A j \in 1 .. n : d[j] => j = n
      BY <2>3, <2>5 DEF OutVcInv, TailIsLast
    <3>4. TailDown(o, v) <=> \E j \in 1 .. n : d[j]
      BY DEF TailDown
    <3>5. TailDown(o, v)' <=> \E j \in 1 .. Len(t) : t[j]
      BY <1>3 DEF TailDown
    <3> HIDE DEF d, n, t
    <3>6. d[1] => n - 1 = 0
      BY <3>1, <3>3
    <3>7. d[1] => t = << >>
      BY <3>1, <3>6, NoLength
    <3>8. \A j \in 1 .. Len(t) : t[j] => j = Len(t)
      BY <3>1, <3>3
    <3>9. TailDown(o, v) <=> (d[1] \/ TailDown(o, v)')
      <4>1. (\E j \in 1 .. n : d[j]) <=> (d[1] \/ \E j \in 1 .. n - 1 : d[j + 1])
        <5>1. ASSUME NEW j \in 1 .. n, d[j], ~d[1]
              PROVE  j - 1 \in 1 .. n - 1 /\ d[(j - 1) + 1]
          BY <3>1, <5>1
        <5>2. \A j \in 1 .. n - 1 : j + 1 \in 1 .. n
          BY <3>1
        <5>3. 1 \in 1 .. n
          BY <3>1
        <5> QED
          BY <5>1, <5>2, <5>3
      <4>2. (\E j \in 1 .. Len(t) : t[j]) <=> (\E j \in 1 .. n - 1 : d[j + 1])
        BY <3>1
      <4> QED
        BY <3>4, <3>5, <4>1, <4>2
    <3>10. TailIsLast(o, v)'
      BY <1>3, <2>2, <2>5, <3>2, <3>7, <3>8 DEF TailIsLast, t
    <3>11. Ending(o, v)' <=> Ending(o, v)
      BY <2>2, <2>5, <3>2, <3>9 DEF Ending
    <3>12. outState[o][v] # IDLE_
      BY <1>1, <2>3, <2>5 DEF OutVcInv, Carries, d
    <3>13. Carries(o, v)'
      BY <1>1, <2>1, <2>3, <2>5, <3>11, <3>12 DEF OutVcInv, Carries
    <3>14. Balance(o, v)'
      <4> DEFINE c == credits[o][v]
      <4>1. c >= 0 /\ c + n + 0 + 0 = Depth /\ c \in Int
        BY <2>2, <2>3, <2>5, <3>2 DEF OutVcInv, Balance, One, TypeOK, OutOK, n, d
      <4>2. Balance(o, v)' <=> (c >= 0 /\ c + Len(t) + 0 + 1 = Depth)
        BY <1>1, <1>3, <2>2, <2>5, <3>2 DEF Balance, One, t
      <4> HIDE DEF c
      <4> QED
        BY <3>1, <4>1, <4>2, SizesAssumption
    <3> QED
      BY <2>1, <2>3, <2>5, <3>10, <3>13, <3>14 DEF OutVcInv
  <2> QED
    BY <2>4, <2>5
<1> QED
  BY <1>5, <1>6 DEF OutInv

(* The winners of a switch allocation have different outports, so an       *)
(* output VC gets at most one flit and at most one packet.                 *)
LEMMA OneWinner ==
    ASSUME NEW i \in Inports, NEW j \in Inports, Wins(i), Wins(j),
           RequestedPort(i) = RequestedPort(j)
    PROVE  i = j
BY DEF Wins

LEMMA WinsVc ==
    ASSUME TypeOK, NEW i \in Inports, Wins(i)
    PROVE  InvcWinner(i) \in VCs /\ Won(i, InvcWinner(i))
           /\ outport[i][InvcWinner(i)] = RequestedPort(i)
BY WinnerRequests DEF Wins, Won, RequestedPort, TypeOK

(* The flits the switch allocation leaves in the crossbar.                 *)
LEMMA Crosses ==
    ASSUME TypeOK, OutInv, SwitchAllocator, NEW o \in Outports, NEW u \in VCs, NEW i \in Inports
    PROVE  /\ i \in Crossing(o, u)' <=> Wins(i) /\ RequestedPort(i) = o /\ OutVcOf(i) = u
           /\ i \in Crossing(o, u)' =>
                Head(switchBuffer'[i]).tail = Head(buffer[i][InvcWinner(i)]).tail
           /\ switchBuffer'[i] # << >> => Len(switchBuffer'[i]) = 1
<1> DEFINE x == [vc |-> OutVcOf(i), port |-> RequestedPort(i),
                 tail |-> Head(buffer[i][InvcWinner(i)]).tail]
<1>1. switchBuffer[i] = << >>
  BY Allocated DEF OutInv, WiresInv
<1>2. switchBuffer' = [j \in Inports |->
           IF Wins(j)
           THEN Append(switchBuffer[j], [vc |-> OutVcOf(j), port |-> RequestedPort(j),
                                         tail |-> Head(buffer[j][InvcWinner(j)]).tail])
           ELSE switchBuffer[j]]
  BY Allocated
<1>3. switchBuffer'[i] = IF Wins(i) THEN Append(<< >>, x) ELSE << >>
  BY <1>1, <1>2
<1>4. /\ x.vc = OutVcOf(i) /\ x.port = RequestedPort(i)
      /\ x.tail = Head(buffer[i][InvcWinner(i)]).tail
  OBVIOUS
<1> HIDE DEF x
<1>5. Append(<< >>, x) = << x >>
  OBVIOUS
<1>6. << x >> # << >> /\ Head(<< x >>) = x /\ Len(<< x >>) = 1
  BY OneElement
<1>7. i \in Crossing(o, u)' <=>
        switchBuffer'[i] # << >> /\ Head(switchBuffer'[i]).port = o /\ Head(switchBuffer'[i]).vc = u
  BY DEF Crossing
<1> QED
  BY <1>3, <1>4, <1>5, <1>6, <1>7

LEMMA OutSwitchAllocator ==
    ASSUME TypeOK, OutInv, SwitchAllocator
    PROVE  OutInv'
<1>1. /\ stage = "SwitchAllocator" /\ stage' = "Crossbar" /\ UNCHANGED <<creditIn, downstream>>
  BY Allocated
<1>2. ASSUME NEW i \in Inports, NEW v \in VCs
      PROVE  /\ outport'[i][v] = IF Frees(i, v) THEN None ELSE outport[i][v]
             /\ outvc'[i][v] = IF Frees(i, v) THEN None
                               ELSE IF Won(i, v) THEN OutVcOf(i) ELSE outvc[i][v]
  <2>1. /\ outport' = [j \in Inports |-> [w \in VCs |->
             IF Frees(j, w) THEN None ELSE outport[j][w]]]
        /\ outvc' = [j \in Inports |-> [w \in VCs |->
             IF Frees(j, w) THEN None ELSE IF Won(j, w) THEN OutVcOf(j) ELSE outvc[j][w]]]
    BY Allocated
  <2> QED
    BY <2>1
<1>3. ASSUME NEW o \in Outports, NEW u \in VCs
      PROVE  /\ credits'[o][u] = IF Sends(o, u) THEN credits[o][u] - 1 ELSE credits[o][u]
             /\ outState'[o][u] = IF Sends(o, u) THEN ACTIVE_ ELSE outState[o][u]
  <2>1. /\ outState' = [p \in Outports |-> [w \in VCs |->
             IF Sends(p, w) THEN ACTIVE_ ELSE outState[p][w]]]
        /\ credits' = [p \in Outports |-> [w \in VCs |->
             IF Sends(p, w) THEN credits[p][w] - 1 ELSE credits[p][w]]]
    BY Allocated
  <2> QED
    BY <2>1
<1>4. WiresInv'
  <2>1. \A o \in Outports : creditIn'[o] # << >> => Len(creditIn'[o]) = 1
    BY <1>1 DEF OutInv, WiresInv
  <2>2. ASSUME NEW i \in Inports PROVE switchBuffer'[i] # << >> => Len(switchBuffer'[i]) = 1
    <3>1. 0 \in Outports
      BY PortsAssumption DEF Outports
    <3>2. \E u : u \in VCs
      <4>1. 0 .. 0 # {} /\ NumVnets * VcPerVnet \in Nat \ {0}
        BY VcsAssumption
      <4> DEFINE n == NumVnets * VcPerVnet
      <4>2. n \in Nat \ {0}
        BY <4>1
      <4> HIDE DEF n
      <4>3. 0 \in 0 .. n - 1
        BY <4>2
      <4> QED
        BY <4>3 DEF VCs, n
    <3> QED
      BY <3>1, <3>2, Crosses
  <2> QED
    BY <1>1, <2>1, <2>2 DEF WiresInv
<1>5. ASSUME NEW o \in Outports, NEW u \in VCs PROVE OutVcInv(o, u)'
  <2>1. OutVcInv(o, u)
    BY DEF OutInv
  <2>2. ~Under(o, u) /\ ~TailCrosses(o, u)
    BY <1>1 DEF OutInv, WiresInv, Under, Crossing, TailCrosses
  <2>3. /\ Credited(o, u)' <=> Credited(o, u)
        /\ FreeBack(o, u)' <=> FreeBack(o, u)
        /\ TailDown(o, u)' <=> TailDown(o, u)
        /\ downstream'[o][u] = downstream[o][u]
    BY <1>1 DEF Credited, FreeBack, TailDown
  <2>4. CASE ~Sends(o, u)
    <3>1. \A i \in Inports, v \in VCs : Won(i, v) => ~(outport[i][v] = o /\ OutVcOf(i) = u)
      BY <2>4, WinsVc DEF Sends, Won
    <3>2. ASSUME NEW i \in Inports, NEW v \in VCs PROVE Holds(i, v, o, u)' <=> Holds(i, v, o, u)
      <4>1. CASE ~Won(i, v)
        BY <1>2, <4>1 DEF Holds, Frees
      <4>2. CASE Won(i, v)
        <5>1. ~Holds(i, v, o, u)
          BY <3>1, <4>2, WinnersVc, VcsAre DEF Holds, TypeOK
        <5>2. ~Holds(i, v, o, u)'
          BY <1>2, <3>1, <4>2, VcsAre DEF Holds
        <5> QED
          BY <5>1, <5>2
      <4> QED
        BY <4>1, <4>2
    <3>3. Crossing(o, u)' = {}
      <4>1. \A i \in Inports : i \notin Crossing(o, u)'
        BY <2>4, Crosses DEF Sends
      <4> QED
        BY <4>1 DEF Crossing
    <3>4. /\ (Held(o, u)' <=> Held(o, u)) /\ (OneOwner(o, u)' <=> OneOwner(o, u))
          /\ ~Under(o, u)' /\ ~TailCrosses(o, u)'
      BY <3>2, <3>3 DEF Held, OneOwner, Under, TailCrosses
    <3>5. credits'[o][u] = credits[o][u] /\ outState'[o][u] = outState[o][u]
      BY <1>3, <2>4
    <3>6. TailIsLast(o, u)'
      BY <2>1, <2>2, <2>3, <3>4 DEF OutVcInv, TailIsLast
    <3>7. Carries(o, u)'
      BY <2>1, <2>2, <2>3, <3>4, <3>5 DEF OutVcInv, Carries, Ending
    <3>8. Balance(o, u)'
      BY <2>1, <2>2, <2>3, <3>4, <3>5 DEF OutVcInv, Balance, One
    <3> QED
      BY <2>1, <3>3, <3>4, <3>6, <3>7, <3>8 DEF OutVcInv
  <2>5. CASE Sends(o, u)
    <3>1. PICK i \in Inports : Wins(i) /\ RequestedPort(i) = o /\ OutVcOf(i) = u
      BY <2>5 DEF Sends
    <3> DEFINE v == InvcWinner(i)
    <3>2. v \in VCs /\ Won(i, v) /\ outport[i][v] = o
      BY <3>1, WinsVc
    <3>3. \A j \in Inports, w \in VCs : Won(j, w) /\ outport[j][w] = o => j = i /\ w = v
      BY <3>1, WinsVc, OneWinner DEF Won
    <3>4. /\ outvc[i][v] # None => outvc[i][v] = u /\ credits[o][u] > 0
          /\ outvc[i][v] = None => outState[o][u] = IDLE_
      BY <3>1, <3>2, WinnersVc DEF TypeOK
    <3> HIDE DEF v
    <3>5. /\ ~Ending(o, u)
          /\ \A j \in Inports, w \in VCs : Holds(j, w, o, u) => j = i /\ w = v
      <4>1. CASE outvc[i][v] # None
        <5>1. Holds(i, v, o, u)
          BY <3>2, <3>4, <4>1 DEF Holds
        <5> QED
          BY <2>1, <3>2, <5>1 DEF OutVcInv, OneOwner, Carries, Held
      <4>2. CASE outvc[i][v] = None
        <5>1. ~Held(o, u) /\ downstream[o][u] = << >> /\ ~Credited(o, u)
          BY <2>1, <3>4, <4>2 DEF OutVcInv, Carries
        <5>2. ~TailDown(o, u)
          BY <5>1, EmptySeq DEF TailDown
        <5> QED
          BY <2>2, <5>1, <5>2 DEF Held, Ending, FreeBack
      <4> QED
        BY <4>1, <4>2
    <3>6. ASSUME NEW j \in Inports, NEW w \in VCs
          PROVE  Holds(j, w, o, u)' <=> (j = i /\ w = v /\ ~Frees(i, v))
      <4>1. CASE j = i /\ w = v
        <5>1. CASE Frees(i, v)
          BY <1>2, <4>1, <5>1, VcsAre DEF Holds
        <5>2. CASE ~Frees(i, v)
          BY <1>2, <3>1, <3>2, <4>1, <5>2 DEF Holds
        <5> QED
          BY <5>1, <5>2, <4>1
      <4>2. CASE ~(j = i /\ w = v)
        <5>1. ~Holds(j, w, o, u)
          BY <3>5, <4>2
        <5>2. Won(j, w) => outport[j][w] # o
          BY <3>3, <4>2
        <5> QED
          BY <1>2, <4>2, <5>1, <5>2, VcsAre DEF Holds, Frees
      <4> QED
        BY <4>1, <4>2
    <3>7. /\ Crossing(o, u)' = {i}
          /\ TailCrosses(o, u)' <=> Frees(i, v)
      <4>1. \A j \in Inports : j \in Crossing(o, u)' <=> j = i
        BY <3>1, Crosses, OneWinner
      <4>2. Crossing(o, u)' = {i}
        BY <4>1 DEF Crossing
      <4>3. Head(switchBuffer'[i]).tail = Head(buffer[i][v]).tail
        BY <4>1, Crosses DEF v
      <4>4. TailCrosses(o, u)' <=> Head(switchBuffer'[i]).tail
        BY <4>2 DEF TailCrosses
      <4> QED
        BY <3>2, <4>2, <4>3, <4>4 DEF Frees
    <3>8. Under(o, u)'
      BY <3>7 DEF Under
    <3>9. (Held(o, u)' <=> ~Frees(i, v)) /\ OneOwner(o, u)'
      BY <3>2, <3>6 DEF Held, OneOwner
    <3>10. ~FreeBack(o, u)' /\ ~TailDown(o, u)' /\ (Ending(o, u)' <=> Frees(i, v))
      BY <2>3, <3>5, <3>7 DEF Ending
    <3>11. TailIsLast(o, u)'
      BY <3>10 DEF TailIsLast, TailDown
    <3>12. Carries(o, u)'
      BY <1>3, <2>5, <3>9, <3>10 DEF Carries, IDLE_, ACTIVE_
    <3>13. Balance(o, u)'
      <4> DEFINE c == credits[o][u]
                 n == Len(downstream[o][u])
                 k == One(Credited(o, u))
      <4>1. c \in Int /\ n \in Nat /\ k \in {0, 1}
        BY LengthOf DEF TypeOK, OutOK, One
      <4>2. c >= 0 /\ c + n + 0 + k = Depth
        BY <2>1, <2>2 DEF OutVcInv, Balance, One
      <4>3. credits'[o][u] = c - 1
        BY <1>3, <2>5
      <4>4. One(Credited(o, u))' = k
        BY <2>3 DEF One
      <4>5. Balance(o, u)' <=> ((c - 1) >= 0 /\ (c - 1) + n + 1 + k = Depth)
        BY <2>3, <3>8, <4>3, <4>4 DEF Balance, One
      <4>6. c > 0
        <5>1. CASE outvc[i][v] # None
          BY <3>4, <5>1
        <5>2. CASE outvc[i][v] = None
          <6>1. downstream[o][u] = << >> /\ ~Credited(o, u)
            BY <2>1, <3>4, <5>2 DEF OutVcInv, Carries
          <6>2. n = 0 /\ k = 0
            BY <6>1, EmptySeq DEF One
          <6> HIDE DEF c, n, k
          <6> QED
            BY <4>1, <4>2, <6>2, SizesAssumption
        <5> QED
          BY <5>1, <5>2
      <4> HIDE DEF c, n, k
      <4> QED
        BY <4>1, <4>2, <4>5, <4>6, SizesAssumption
    <3> QED
      BY <3>7, <3>9, <3>11, <3>12, <3>13 DEF OutVcInv
  <2> QED
    BY <2>4, <2>5
<1> QED
  BY <1>4, <1>5 DEF OutInv

LEMMA JoinFew ==
    ASSUME NEW S, NEW q \in Seq(S), NEW x \in S
    PROVE  q \o << >> = q /\ q \o << x >> = Append(q, x)
OBVIOUS

(* What the crossbar does to an output VC: the flit that crosses is sent.  *)
LEMMA Crossed ==
    ASSUME TypeOK, OutInv, Crossbar, NEW o \in Outports, NEW u \in VCs
    PROVE  /\ Crossing(o, u)' = {}
           /\ ~Under(o, u) => downstream'[o][u] = downstream[o][u] /\ ~TailCrosses(o, u)
           /\ Under(o, u) =>
                \E t \in BOOLEAN : /\ downstream'[o][u] = Append(downstream[o][u], t)
                                   /\ TailCrosses(o, u) <=> t
<1>1. downstream'[o][u] =
        downstream[o][u] \o SetToSeq({Head(switchBuffer[i]).tail : i \in Crossing(o, u)})
  BY DEF Crossbar
<1>2. downstream[o][u] \in Seq(BOOLEAN)
  BY DEF TypeOK, OutOK
<1>3. Crossing(o, u)' = {}
  <2> SUFFICES ASSUME NEW i \in Inports PROVE switchBuffer'[i] = << >>
    BY DEF Crossing
  <2>1. switchBuffer[i] # << >> => Tail(switchBuffer[i]) = << >>
    BY TakeOnly DEF OutInv, WiresInv, TypeOK, OutOK
  <2> QED
    BY <2>1 DEF Crossbar
<1>4. CASE Crossing(o, u) = {}
  <2>1. {Head(switchBuffer[i]).tail : i \in Crossing(o, u)} = {}
    BY <1>4
  <2>2. downstream'[o][u] = downstream[o][u] \o << >>
    BY <1>1, <2>1, SeqOfFew
  <2> QED
    BY <1>2, <1>3, <1>4, <2>2, JoinFew DEF Under, TailCrosses
<1>5. CASE Crossing(o, u) # {}
  <2>1. PICK i \in Crossing(o, u) : TRUE
    BY <1>5
  <2>2. Crossing(o, u) = {i} /\ i \in Inports /\ switchBuffer[i] # << >>
    BY <2>1 DEF OutInv, OutVcInv, Crossing
  <2> DEFINE t == Head(switchBuffer[i]).tail
  <2>3. t \in BOOLEAN
    <3>1. switchBuffer[i] \in Seq(CrossingFlit)
      BY <2>2 DEF TypeOK, OutOK
    <3>2. Head(switchBuffer[i]) \in CrossingFlit
      BY <2>2, <3>1, TakeFrom
    <3> QED
      BY <3>2 DEF CrossingFlit
  <2>4. {Head(switchBuffer[j]).tail : j \in Crossing(o, u)} = {t}
    BY <2>2
  <2>5. TailCrosses(o, u) <=> t
    BY <2>2 DEF TailCrosses
  <2> HIDE DEF t
  <2>6. downstream'[o][u] = downstream[o][u] \o << t >>
    BY <1>1, <2>4, SeqOfFew
  <2>7. downstream'[o][u] = Append(downstream[o][u], t)
    BY <1>2, <2>3, <2>6, JoinFew
  <2> QED
    BY <1>3, <1>5, <2>3, <2>5, <2>7 DEF Under
<1> QED
  BY <1>4, <1>5

LEMMA TypeCrossbar ==
    ASSUME TypeOK, OutInv, Crossbar
    PROVE  TypeOK'
<1>1. downstream' \in [Outports -> [VCs -> Seq(BOOLEAN)]]
  <2>1. ASSUME NEW o \in Outports, NEW u \in VCs
        PROVE  downstream'[o][u] \in Seq(BOOLEAN)
    <3>1. downstream[o][u] \in Seq(BOOLEAN)
      BY DEF TypeOK, OutOK
    <3>2. CASE ~Under(o, u)
      BY <3>1, <3>2, Crossed
    <3>3. CASE Under(o, u)
      <4>1. PICK t \in BOOLEAN : downstream'[o][u] = Append(downstream[o][u], t)
        BY <3>3, Crossed
      <4> QED
        BY <3>1, <4>1, AppendTo
    <3> QED
      BY <3>2, <3>3
  <2>2. downstream' = [o \in Outports |-> [u \in VCs |->
          downstream[o][u] \o SetToSeq({Head(switchBuffer[i]).tail : i \in Crossing(o, u)})]]
    BY DEF Crossbar
  <2> QED
    BY <2>1, <2>2
<1>2. switchBuffer' \in [Inports -> Seq(CrossingFlit)]
  <2>1. \A i \in Inports : switchBuffer[i] # << >> => Tail(switchBuffer[i]) \in Seq(CrossingFlit)
    BY TakeFrom DEF TypeOK, OutOK
  <2> QED
    BY <2>1 DEF Crossbar
<1>3. stage' = "done" /\ UNCHANGED <<inVars, outVars, outvc, rrInvc, coming, linkVars>>
  BY DEF Crossbar
<1> QED
  BY <1>1, <1>2, <1>3 DEF TypeOK, StageOK, InOK, OutOK, inVars, outVars, linkVars

LEMMA OutCrossbar ==
    ASSUME TypeOK, OutInv, Crossbar
    PROVE  OutInv'
<1>1. stage' = "done" /\ UNCHANGED <<outport, outvc, outState, credits, creditIn>>
  BY DEF Crossbar, inVars, outVars, linkVars
<1>2. WiresInv'
  <2>1. ASSUME NEW i \in Inports PROVE switchBuffer'[i] = << >>
    <3>1. switchBuffer[i] # << >> => Tail(switchBuffer[i]) = << >>
      BY TakeOnly DEF OutInv, WiresInv, TypeOK, OutOK
    <3> QED
      BY <3>1 DEF Crossbar
  <2> QED
    BY <1>1, <2>1 DEF OutInv, WiresInv
<1>3. ASSUME NEW o \in Outports, NEW u \in VCs PROVE OutVcInv(o, u)'
  <2> DEFINE d == downstream[o][u]
             n == Len(d)
             k == One(Credited(o, u))
             c == credits[o][u]
  <2>1. OutVcInv(o, u) /\ d \in Seq(BOOLEAN)
    BY DEF OutInv, TypeOK, OutOK
  <2>2. /\ (Held(o, u)' <=> Held(o, u)) /\ (OneOwner(o, u)' <=> OneOwner(o, u))
        /\ (Credited(o, u)' <=> Credited(o, u)) /\ (FreeBack(o, u)' <=> FreeBack(o, u))
    BY <1>1 DEF Held, Holds, OneOwner, Credited, FreeBack
  <2>3. ~Under(o, u)' /\ ~TailCrosses(o, u)' /\ Crossing(o, u)' = {}
    BY Crossed DEF Under, TailCrosses
  <2>4. n \in Nat /\ k \in {0, 1} /\ c \in Int
    BY LengthOf DEF TypeOK, OutOK, One
  <2>5. CASE ~Under(o, u)
    <3>1. downstream'[o][u] = downstream[o][u] /\ ~TailCrosses(o, u)
      BY <2>5, Crossed
    <3>2. TailIsLast(o, u)'
      BY <2>1, <2>2, <2>3, <2>5, <3>1 DEF OutVcInv, TailIsLast
    <3>3. Carries(o, u)'
      BY <1>1, <2>1, <2>2, <2>3, <2>5, <3>1 DEF OutVcInv, Carries, Ending, TailDown
    <3>4. Balance(o, u)'
      BY <1>1, <2>1, <2>2, <2>3, <2>5, <3>1 DEF OutVcInv, Balance, One
    <3> QED
      BY <2>1, <2>2, <2>3, <3>2, <3>3, <3>4 DEF OutVcInv
  <2>6. CASE Under(o, u)
    <3>1. PICK t \in BOOLEAN : downstream'[o][u] = Append(d, t) /\ (TailCrosses(o, u) <=> t)
      BY <2>6, Crossed
    <3>2. ~FreeBack(o, u) /\ (\A j \in 1 .. n : ~d[j]) /\ outState[o][u] # IDLE_
      BY <2>1, <2>6 DEF OutVcInv, TailIsLast, Carries
    <3>3. c >= 0 /\ c + n + 1 + k = Depth
      BY <2>1, <2>6 DEF OutVcInv, Balance, One
    <3>4. ~TailDown(o, u)
      BY <3>2 DEF TailDown
    <3>5. /\ Len(Append(d, t)) = n + 1 /\ Append(d, t)[n + 1] = t
          /\ \A j \in 1 .. n : Append(d, t)[j] = d[j]
      BY <2>1, AppendTo
    <3>6. Len(downstream'[o][u]) = n + 1
      BY <3>1, <3>5
    <3>7. \A j \in 1 .. n + 1 : downstream'[o][u][j] <=> (j = n + 1 /\ t)
      <4> HIDE DEF d, n
      <4> QED
        BY <2>4, <3>1, <3>2, <3>5
    <3>8. TailDown(o, u)' <=> t
      <4>1. TailDown(o, u)' <=> \E j \in 1 .. n + 1 : downstream'[o][u][j]
        BY <3>6 DEF TailDown
      <4>2. n + 1 \in 1 .. n + 1
        <5> HIDE DEF n
        <5> QED
          BY <2>4
      <4> QED
        BY <3>7, <4>1, <4>2
    <3>9. Ending(o, u)' <=> Ending(o, u)
      BY <2>2, <2>3, <3>1, <3>2, <3>4, <3>8 DEF Ending
    <3>10. TailIsLast(o, u)'
      BY <2>2, <2>3, <3>2, <3>6, <3>7 DEF TailIsLast
    <3>11. Carries(o, u)'
      BY <1>1, <2>1, <2>2, <3>2, <3>9 DEF OutVcInv, Carries
    <3>12. Balance(o, u)'
      <4>1. Balance(o, u)' <=> (c >= 0 /\ c + (n + 1) + 0 + k = Depth)
        BY <1>1, <2>2, <2>3, <3>6 DEF Balance, One
      <4> HIDE DEF c, n, k
      <4> QED
        BY <2>4, <3>3, <4>1, SizesAssumption
    <3> QED
      BY <2>1, <2>2, <2>3, <3>10, <3>11, <3>12 DEF OutVcInv
  <2> QED
    BY <2>5, <2>6
<1> QED
  BY <1>2, <1>3 DEF OutInv

-----------------------------------------------------------------------------
(* All together                                                            *)

RouterInv == TypeOK /\ PacketInv /\ OutInv

LEMMA RouterInit == Init => RouterInv
<1> SUFFICES ASSUME Init PROVE RouterInv
  OBVIOUS
<1>1. Len(<< >>) = 0
  BY EmptySeq
<1>2. PacketInv
  BY <1>1 DEF Init, PacketInv, LinkInv, VcInv, OnLink
<1>3. WiresInv
  BY DEF Init, WiresInv
<1>4. ASSUME NEW o \in Outports, NEW u \in VCs PROVE OutVcInv(o, u)
  <2>1. /\ Crossing(o, u) = {} /\ ~Credited(o, u) /\ downstream[o][u] = << >>
        /\ credits[o][u] = Depth /\ outState[o][u] = IDLE_
    BY DEF Init, Crossing, Credited
  <2>2. \A i \in Inports, v \in VCs : ~Holds(i, v, o, u)
    BY VcsAre DEF Init, Holds
  <2>3. Balance(o, u)
    BY <1>1, <2>1, SizesAssumption DEF Balance, One, Under
  <2>4. TailIsLast(o, u)
    BY <1>1, <2>1 DEF TailIsLast, FreeBack
  <2>5. Carries(o, u)
    BY <1>1, <2>1, <2>2 DEF Carries, Held, Under, Ending, FreeBack, TailDown, TailCrosses,
                            IDLE_, ACTIVE_
  <2> QED
    BY <2>1, <2>2, <2>3, <2>4, <2>5 DEF OutVcInv, OneOwner
<1> QED
  BY <1>2, <1>3, <1>4, TypeInit DEF RouterInv, OutInv

LEMMA RouterStep == RouterInv /\ [Next]_vars => RouterInv'
<1> SUFFICES ASSUME RouterInv, [Next]_vars PROVE RouterInv'
  OBVIOUS
<1> USE DEF RouterInv
<1>1. ASSUME NEW i \in Inports, NEW v \in VCs, NEW o \in Outports, NEW f \in Flows,
             NEW n \in 1 .. MaxFlits, HeadArrives(i, v, o, f, n)
      PROVE  RouterInv'
  <2>1. OutInv'
    BY <1>1, OutSame DEF HeadArrives, inVars, outVars, saVars, Holds
  <2> QED
    BY <1>1, <2>1, TypeHeadArrives, PacketHeadArrives
<1>2. ASSUME NEW i \in Inports, NEW v \in VCs, FlitArrives(i, v) PROVE RouterInv'
  <2>1. OutInv'
    BY <1>2, OutSame DEF FlitArrives, inVars, outVars, saVars, Holds
  <2> QED
    BY <1>2, <2>1, TypeFlitArrives, PacketFlitArrives
<1>3. ASSUME NEW o \in Outports, NEW v \in VCs, CreditArrives(o, v) PROVE RouterInv'
  <2>1. PacketInv'
    BY <1>3, PacketSame DEF CreditArrives, inVars, saVars
  <2> QED
    BY <1>3, <2>1, TypeCreditArrives, OutCreditArrives
<1>4. CASE Wake
  <2>1. /\ stage = "arrivals" /\ stage' \in {"InputUnits", "done"}
        /\ UNCHANGED <<inVars, outVars, saVars, envVars, linkVars>>
    BY <1>4 DEF Wake
  <2>2. TypeOK'
    BY <2>1 DEF TypeOK, StageOK, InOK, OutOK, inVars, outVars, saVars, envVars, linkVars
  <2>3. PacketInv'
    BY <2>1, PacketSame DEF inVars, saVars, envVars, linkVars
  <2>4. OutInv'
    BY <2>1, OutSame DEF inVars, outVars, saVars, envVars, linkVars, Holds
  <2> QED
    BY <2>2, <2>3, <2>4
<1>5. CASE InputUnits
  BY <1>5, TypeInputUnits, PacketInputUnits, OutInputUnits
<1>6. CASE OutputUnits
  <2>1. PacketInv'
    BY <1>6, PacketSame DEF OutputUnits, inVars, saVars, envVars
  <2> QED
    BY <1>6, <2>1, TypeOutputUnits, OutOutputUnits
<1>7. CASE SwitchAllocator
  BY <1>7, TypeSwitchAllocator, PacketSwitchAllocator, OutSwitchAllocator
<1>8. CASE Crossbar
  <2>1. PacketInv'
    BY <1>8, PacketSame DEF Crossbar, inVars, linkVars
  <2> QED
    BY <1>8, <2>1, TypeCrossbar, OutCrossbar
<1>9. CASE Tick
  <2>1. OutInv'
    BY <1>9, OutSame DEF Tick, outVars, saVars, envVars, linkVars, Holds
  <2> QED
    BY <1>9, <2>1, TypeTick, PacketTick
<1>10. CASE UNCHANGED vars
  <2>1. PacketInv'
    BY <1>10 DEF vars, inVars, saVars, envVars, linkVars, PacketInv, LinkInv, VcInv, OnLink, InFlit
  <2>2. TypeOK'
    BY <1>10 DEF vars, inVars, outVars, saVars, envVars, linkVars, TypeOK, StageOK, InOK, OutOK
  <2>3. WiresInv'
    BY <1>10 DEF vars, saVars, linkVars, OutInv, WiresInv
  <2>4. ASSUME NEW o \in Outports, NEW u \in VCs PROVE OutVcInv(o, u)'
    <3>1. OutVcInv(o, u)
      BY DEF OutInv
    <3>2. UNCHANGED <<outport, outvc, outState, credits, creditIn, downstream, switchBuffer>>
      BY <1>10 DEF vars, inVars, outVars, saVars, envVars, linkVars
    <3> QED
      BY <3>1, <3>2 DEF OutVcInv, OneOwner, TailIsLast, Carries, Balance, Holds, Held, Under,
           FreeBack, Ending, TailDown, TailCrosses, Crossing, Credited, One
  <2> QED
    BY <2>1, <2>2, <2>3, <2>4 DEF OutInv
<1> QED
  BY <1>1, <1>2, <1>3, <1>4, <1>5, <1>6, <1>7, <1>8, <1>9, <1>10 DEF Next

LEMMA RouterAlways == Spec => []RouterInv
BY RouterInit, RouterStep, PTL DEF Spec

(* The variables of the router keep their types.                           *)
THEOREM TypesKept == Spec => []TypeOK
<1>1. RouterInv => TypeOK
  BY DEF RouterInv
<1> QED
  BY <1>1, RouterAlways, PTL

(* The counts of the properties, as what the invariant knows of them.      *)
LEMMA SmallSets ==
    ASSUME NEW S, \A x, y \in S : x = y
    PROVE  Cardinality(S) = One(S # {}) /\ Cardinality(S) <= 1
<1>1. ASSUME S = {} PROVE Cardinality(S) = 0
  BY <1>1, FS_EmptySet
<1>2. ASSUME S # {} PROVE Cardinality(S) = 1
  <2>1. PICK x \in S : TRUE
    BY <1>2
  <2>2. S = {x}
    BY <2>1
  <2> QED
    BY <2>2, FS_Singleton
<1>3. CASE S = {}
  BY <1>1, <1>3 DEF One
<1>4. CASE S # {}
  BY <1>2, <1>4 DEF One
<1> QED
  BY <1>3, <1>4

LEMMA CreditsComing ==
    ASSUME TypeOK, WiresInv, NEW o \in Outports, NEW u \in VCs
    PROVE  /\ CreditsDue(o, u) = One(Credited(o, u))
           /\ FreeDue(o, u) <=> FreeBack(o, u)
<1>1. creditIn[o] \in Seq(Credit)
  BY DEF TypeOK, OutOK
<1>2. CASE creditIn[o] = << >>
  <2>1. DOMAIN creditIn[o] = {}
    BY <1>2
  <2>2. {k \in DOMAIN creditIn[o] : creditIn[o][k].vc = u} = {}
    BY <2>1
  <2> QED
    BY <1>2, <2>1, <2>2, FS_EmptySet DEF CreditsDue, FreeDue, FreeBack, Credited, One
<1>3. CASE creditIn[o] # << >>
  <2>1. Len(creditIn[o]) = 1
    BY <1>3 DEF WiresInv
  <2>2. DOMAIN creditIn[o] = 1 .. 1 /\ Head(creditIn[o]) = creditIn[o][1]
    BY <1>1, <1>3, <2>1, LengthOf, TakeFrom
  <2>3. DOMAIN creditIn[o] = {1}
    BY <2>2
  <2>4. Credited(o, u) <=> creditIn[o][1].vc = u
    BY <1>3, <2>2 DEF Credited
  <2> DEFINE K == {k \in DOMAIN creditIn[o] : creditIn[o][k].vc = u}
  <2>5. K = IF Credited(o, u) THEN {1} ELSE {}
    BY <2>3, <2>4
  <2>6. Cardinality(K) = One(Credited(o, u))
    BY <2>5, FS_EmptySet, FS_Singleton DEF One
  <2>7. FreeDue(o, u) <=> FreeBack(o, u)
    BY <2>2, <2>3, <2>4 DEF FreeDue, FreeBack
  <2> QED
    BY <2>6, <2>7 DEF CreditsDue
<1> QED
  BY <1>2, <1>3

LEMMA FlitsSent ==
    ASSUME OutInv, NEW o \in Outports, NEW u \in VCs
    PROVE  Cardinality(Crossing(o, u)) = One(Under(o, u))
BY SmallSets DEF OutInv, OutVcInv, Under

LEMMA CreditsFollow ==
    ASSUME RouterInv
    PROVE  CreditsAddUp
<1> SUFFICES ASSUME NEW o \in Outports, NEW u \in VCs
             PROVE  /\ credits[o][u] \in 0 .. Depth
                    /\ credits[o][u] + Sent(o, u) + CreditsDue(o, u) = Depth
  BY DEF CreditsAddUp
<1> DEFINE c == credits[o][u]
           n == Len(downstream[o][u])
           w == One(Under(o, u))
           k == One(Credited(o, u))
<1>1. c \in Int /\ n \in Nat /\ w \in {0, 1} /\ k \in {0, 1} /\ Depth \in Nat
  BY LengthOf, SizesAssumption DEF RouterInv, TypeOK, OutOK, One
<1>2. c >= 0 /\ c + n + w + k = Depth
  BY DEF RouterInv, OutInv, OutVcInv, Balance
<1>3. Sent(o, u) = w + n /\ CreditsDue(o, u) = k
  BY FlitsSent, CreditsComing DEF RouterInv, OutInv, Sent
<1> HIDE DEF c, n, w, k
<1>4. c \in 0 .. Depth /\ c + (w + n) + k = Depth
  BY <1>1, <1>2
<1> QED
  BY <1>3, <1>4 DEF c

LEMMA HoldersFollow ==
    ASSUME RouterInv
    PROVE  OneHolder
<1> SUFFICES ASSUME NEW o \in Outports, NEW u \in VCs
             PROVE  /\ Cardinality(Holders(o, u)) <= 1
                    /\ outState[o][u] = IDLE_ =>
                         Holders(o, u) = {} /\ Sent(o, u) + CreditsDue(o, u) = 0
                    /\ outState[o][u] = ACTIVE_ => (Holders(o, u) = {} <=> TailSent(o, u))
  BY DEF OneHolder
<1>1. OutVcInv(o, u) /\ WiresInv /\ TypeOK
  BY DEF RouterInv, OutInv
<1>2. \A g, h \in Holders(o, u) : g = h
  BY <1>1 DEF OutVcInv, OneOwner, Holders, Holds
<1>3. Holders(o, u) # {} <=> Held(o, u)
  <2>1. ASSUME Held(o, u) PROVE Holders(o, u) # {}
    <3>1. PICK i \in Inports, v \in VCs : Holds(i, v, o, u)
      BY <2>1 DEF Held
    <3>2. <<i, v>> \in Holders(o, u)
      BY <3>1 DEF Holders, Holds
    <3> QED
      BY <3>2
  <2>2. ASSUME Holders(o, u) # {} PROVE Held(o, u)
    BY <2>2 DEF Held, Holders, Holds
  <2> QED
    BY <2>1, <2>2
<1>4. TailSent(o, u) <=> Ending(o, u)
  <2>1. downstream[o][u] \in Seq(BOOLEAN)
    BY <1>1 DEF TypeOK, OutOK
  <2>2. Contains(downstream[o][u], TRUE) <=> TailDown(o, u)
    <3> DEFINE d == downstream[o][u]
               n == Len(d)
    <3>1. n \in Nat /\ DOMAIN d = 1 .. n /\ \A j \in 1 .. n : d[j] \in BOOLEAN
      BY <2>1, LengthOf
    <3>2. Contains(d, TRUE) <=> \E j \in 1 .. n : d[j] = TRUE
      BY DEF Contains
    <3>3. TailDown(o, u) <=> \E j \in 1 .. n : d[j]
      BY DEF TailDown
    <3> HIDE DEF d, n
    <3>4. \A j \in 1 .. n : d[j] <=> d[j] = TRUE
      BY <3>1
    <3> QED
      BY <3>2, <3>3, <3>4 DEF d, n
  <2>3. FreeDue(o, u) <=> FreeBack(o, u)
    BY <1>1, CreditsComing
  <2> QED
    BY <2>2, <2>3 DEF TailSent, Ending, TailCrosses
<1>5. outState[o][u] = IDLE_ => Sent(o, u) + CreditsDue(o, u) = 0
  <2> SUFFICES ASSUME outState[o][u] = IDLE_ PROVE Sent(o, u) + CreditsDue(o, u) = 0
    OBVIOUS
  <2>1. ~Under(o, u) /\ downstream[o][u] = << >> /\ ~Credited(o, u)
    BY <1>1 DEF OutVcInv, Carries
  <2>2. Sent(o, u) = 0 + 0 /\ CreditsDue(o, u) = 0
    BY <1>1, <2>1, FlitsSent, CreditsComing, EmptySeq DEF Sent, One, RouterInv
  <2> QED
    BY <2>2
<1> QED
  BY <1>1, <1>2, <1>3, <1>4, <1>5, SmallSets DEF OutVcInv, Carries

(* The credits of an output VC, the flits sent on it, the credits on their *)
(* way back: always Depth in all, and a credit is never spent that is not  *)
(* there (OutVcState::decrement_credit after has_credit).                  *)
THEOREM CreditsAlwaysAddUp == Spec => []CreditsAddUp
<1>1. RouterInv => CreditsAddUp
  BY CreditsFollow
<1> QED
  BY <1>1, RouterAlways, PTL

(* An output VC is allocated to one packet at a time, from vc_allocate     *)
(* until the credit with the free signal is taken.                         *)
THEOREM OneHolderAlways == Spec => []OneHolder
<1>1. RouterInv => OneHolder
  BY HoldersFollow
<1> QED
  BY <1>1, RouterAlways, PTL

-----------------------------------------------------------------------------
(* The wakeups                                                             *)

(* Every flit in the pipeline has the wakeup for its end; a flit at the    *)
(* head of its VC that may go has one too, for the tick to come, and once  *)
(* the switch has been allocated for the next one.                         *)
Piped ==
    \A i \in Inports, v \in VCs : \A k \in 1 .. Len(buffer[i][v]) :
        buffer[i][v][k].wait > 0 => buffer[i][v][k].wait \in scheduled
Pending(t) ==
    \A i \in Inports, v \in VCs : NeedsSA(buffer[i][v], t) => t \in scheduled
AwakeInv ==
    /\ Piped
    /\ stage = "arrivals" => Pending(0)
    /\ stage \in {"Crossbar", "done"} => Pending(1)

LEMMA FirstFlit ==
    ASSUME TypeOK, NEW i \in Inports, NEW v \in VCs, buffer[i][v] # << >>
    PROVE  /\ 1 \in 1 .. Len(buffer[i][v]) /\ Head(buffer[i][v]) = buffer[i][v][1]
           /\ Head(buffer[i][v]).wait \in Nat
<1>1. buffer[i][v] \in Seq(Flags)
  BY DEF TypeOK, InOK
<1>2. /\ Len(buffer[i][v]) \in Nat \ {0} /\ Head(buffer[i][v]) = buffer[i][v][1]
      /\ Head(buffer[i][v]) \in Flags
  BY <1>1, TakeFrom
<1> DEFINE n == Len(buffer[i][v])
<1>3. n \in Nat \ {0}
  BY <1>2
<1> HIDE DEF n
<1>4. 1 \in 1 .. n
  BY <1>3
<1>5. Head(buffer[i][v]).wait \in 0 .. PipeStages - 1
  BY <1>2 DEF Flags
<1>6. Head(buffer[i][v]).wait \in Nat
  BY <1>5, SizesAssumption
<1> QED
  BY <1>2, <1>4, <1>6 DEF n

(* More wakeups do no harm.                                                *)
LEMMA StillPiped ==
    ASSUME Piped, UNCHANGED buffer, scheduled \subseteq scheduled'
    PROVE  Piped'
BY DEF Piped

LEMMA StillPending ==
    ASSUME NEW t, Pending(t), UNCHANGED buffer, scheduled \subseteq scheduled'
    PROVE  Pending(t)'
BY DEF Pending, NeedsSA

LEMMA AwakeInit == Init => AwakeInv
<1> SUFFICES ASSUME Init PROVE AwakeInv
  OBVIOUS
<1>1. \A i \in Inports, v \in VCs : buffer[i][v] = << >>
  BY DEF Init
<1>2. Len(<< >>) = 0
  BY EmptySeq
<1>3. Piped
  BY <1>1, <1>2 DEF Piped
<1> QED
  BY <1>1, <1>3 DEF Init, AwakeInv, Pending, NeedsSA

LEMMA AwakeArrival ==
    ASSUME AwakeInv, UNCHANGED <<stage, buffer>>, scheduled \subseteq scheduled'
    PROVE  AwakeInv'
BY StillPiped, StillPending DEF AwakeInv

LEMMA AwakeWake ==
    ASSUME TypeOK, AwakeInv, Wake
    PROVE  AwakeInv'
<1>1. /\ stage = "arrivals" /\ scheduled' = scheduled \ {0} /\ buffer' = buffer
      /\ stage' = IF 0 \in scheduled THEN "InputUnits" ELSE "done"
  BY DEF Wake, inVars
<1>2. Piped'
  BY <1>1 DEF AwakeInv, Piped
<1>3. CASE 0 \in scheduled
  BY <1>1, <1>2, <1>3 DEF AwakeInv
<1>4. CASE 0 \notin scheduled
  <2>1. ASSUME NEW i \in Inports, NEW v \in VCs, NeedsSA(buffer[i][v], 1)
        PROVE  1 \in scheduled
    <3>1. buffer[i][v] # << >> /\ Head(buffer[i][v]).wait <= 1
      BY <2>1 DEF NeedsSA
    <3>2. /\ 1 \in 1 .. Len(buffer[i][v]) /\ Head(buffer[i][v]) = buffer[i][v][1]
          /\ Head(buffer[i][v]).wait \in Nat
      BY <3>1, FirstFlit
    <3>3. ~(Head(buffer[i][v]).wait <= 0)
      BY <1>1, <1>4, <3>1 DEF AwakeInv, Pending, NeedsSA
    <3>4. Head(buffer[i][v]).wait = 1
      BY <3>1, <3>2, <3>3
    <3> QED
      BY <3>2, <3>4 DEF AwakeInv, Piped
  <2>2. Pending(1)'
    BY <1>1, <2>1 DEF Pending
  <2> QED
    BY <1>1, <1>2, <1>4, <2>2 DEF AwakeInv
<1> QED
  BY <1>3, <1>4

(* Time passes for the flits and for the wakeups alike.                    *)
LEMMA AwakeTick ==
    ASSUME TypeOK, AwakeInv, Tick
    PROVE  AwakeInv'
<1>1. /\ stage = "done" /\ stage' = "arrivals" /\ scheduled' = {d - 1 : d \in scheduled}
      /\ buffer' = [i \in Inports |-> [v \in VCs |->
           [k \in DOMAIN buffer[i][v] |-> Waited(buffer[i][v][k])]]]
  BY DEF Tick
<1>2. ASSUME NEW i \in Inports, NEW v \in VCs
      PROVE  /\ buffer'[i][v] = [k \in 1 .. Len(buffer[i][v]) |-> Waited(buffer[i][v][k])]
             /\ buffer'[i][v] \in Seq(Flags) /\ Len(buffer'[i][v]) = Len(buffer[i][v])
             /\ \A k \in 1 .. Len(buffer[i][v]) :
                  /\ buffer'[i][v][k] = Waited(buffer[i][v][k])
                  /\ buffer[i][v][k].wait \in Nat
                  /\ buffer'[i][v][k].wait =
                       IF buffer[i][v][k].wait > 0 THEN buffer[i][v][k].wait - 1 ELSE 0
  <2> DEFINE b == buffer[i][v]
             c == [k \in 1 .. Len(b) |-> Waited(b[k])]
  <2>1. b \in Seq(Flags)
    BY DEF TypeOK, InOK
  <2>2. Len(b) \in Nat /\ DOMAIN b = 1 .. Len(b) /\ \A k \in 1 .. Len(b) : b[k] \in Flags
    BY <2>1, LengthOf
  <2>3. buffer'[i][v] = c
    BY <1>1, <2>2
  <2>4. \A k \in 1 .. Len(b) : b[k].wait \in Nat
    <3> HIDE DEF b
    <3>1. \A f \in Flags : f.wait \in Nat
      BY SizesAssumption DEF Flags
    <3> QED
      BY <2>2, <3>1
  <2> HIDE DEF b
  <2>5. c \in [1 .. Len(b) -> Flags]
    BY <2>2, WaitedFlag
  <2>6. c \in Seq(Flags) /\ Len(c) = Len(b)
    BY <2>2, <2>5, SeqDef
  <2>7. \A k \in 1 .. Len(b) : c[k] = Waited(b[k])
    OBVIOUS
  <2>8. \A k \in 1 .. Len(b) : c[k].wait = IF b[k].wait > 0 THEN b[k].wait - 1 ELSE 0
    BY <2>2, <2>7, WaitedFlag
  <2> HIDE DEF c
  <2>9. /\ buffer'[i][v] \in Seq(Flags) /\ Len(buffer'[i][v]) = Len(b)
        /\ \A k \in 1 .. Len(b) : /\ buffer'[i][v][k] = Waited(b[k]) /\ b[k].wait \in Nat
                                  /\ buffer'[i][v][k].wait =
                                       IF b[k].wait > 0 THEN b[k].wait - 1 ELSE 0
    BY <2>3, <2>4, <2>6, <2>7, <2>8
  <2> QED
    BY <2>3, <2>9 DEF b, c
<1>3. Piped'
  <2> SUFFICES ASSUME NEW i \in Inports, NEW v \in VCs, NEW k \in 1 .. Len(buffer'[i][v]),
                      buffer'[i][v][k].wait > 0
               PROVE  buffer'[i][v][k].wait \in scheduled'
    BY DEF Piped
  <2> DEFINE w == buffer[i][v][k].wait
  <2>1. w \in Nat /\ buffer'[i][v][k].wait = (IF w > 0 THEN w - 1 ELSE 0)
        /\ k \in 1 .. Len(buffer[i][v])
    <3>1. Len(buffer'[i][v]) = Len(buffer[i][v])
      BY <1>2
    <3>2. k \in 1 .. Len(buffer[i][v])
      BY <3>1
    <3>3. \A m \in 1 .. Len(buffer[i][v]) :
            /\ buffer[i][v][m].wait \in Nat
            /\ buffer'[i][v][m].wait =
                 IF buffer[i][v][m].wait > 0 THEN buffer[i][v][m].wait - 1 ELSE 0
      BY <1>2
    <3> QED
      BY <3>2, <3>3
  <2>2. w > 0 => w \in scheduled
    BY <2>1 DEF AwakeInv, Piped
  <2> HIDE DEF w
  <2>3. w > 0 /\ buffer'[i][v][k].wait = w - 1
    BY <2>1
  <2> QED
    BY <1>1, <2>2, <2>3
<1>4. Pending(0)'
  <2> SUFFICES ASSUME NEW i \in Inports, NEW v \in VCs, NeedsSA(buffer'[i][v], 0)
               PROVE  0 \in scheduled'
    BY DEF Pending
  <2> DEFINE w == buffer[i][v][1].wait
  <2>1. buffer'[i][v] # << >> /\ Head(buffer'[i][v]).wait <= 0
    BY DEF NeedsSA
  <2>2. Len(buffer'[i][v]) \in Nat \ {0} /\ Head(buffer'[i][v]) = buffer'[i][v][1]
    BY <1>2, <2>1, TakeFrom
  <2>3. 1 \in 1 .. Len(buffer[i][v]) /\ buffer[i][v] # << >>
    <3>1. buffer[i][v] \in Seq(Flags)
      BY DEF TypeOK, InOK
    <3>2. Len(buffer[i][v]) > 0
      <4> DEFINE n == Len(buffer[i][v])
                 m == Len(buffer'[i][v])
      <4>1. m = n /\ m \in Nat \ {0}
        BY <1>2, <2>2
      <4> HIDE DEF n, m
      <4>2. n > 0
        BY <4>1
      <4> QED
        BY <4>2 DEF n
    <3>3. buffer[i][v] # << >>
      BY <3>1, <3>2, LengthOf
    <3> QED
      BY <3>3, FirstFlit
  <2>4. w \in Nat /\ buffer'[i][v][1].wait = IF w > 0 THEN w - 1 ELSE 0
    BY <1>2, <2>3
  <2>5. Head(buffer[i][v]) = buffer[i][v][1]
    BY <2>3, FirstFlit
  <2>6. w <= 1
    <3> HIDE DEF w
    <3> QED
      BY <2>1, <2>2, <2>4
  <2>7. 1 \in scheduled
    BY <1>1, <2>3, <2>5, <2>6 DEF AwakeInv, Pending, NeedsSA
  <2> QED
    BY <1>1, <2>7, 1 - 1 = 0
<1> QED
  BY <1>1, <1>3, <1>4 DEF AwakeInv

(* A flit that arrives is scheduled for the end of its pipeline.           *)
LEMMA AwakeInputUnits ==
    ASSUME TypeOK, AwakeInv, InputUnits
    PROVE  AwakeInv'
<1>1. /\ stage = "InputUnits" /\ stage' = "OutputUnits" /\ scheduled \subseteq scheduled'
      /\ (\E i \in Inports : Arrived(i)) => PipelineWakeup(PipeStages) \subseteq scheduled'
  BY DEF InputUnits
<1>2. ASSUME NEW i \in Inports, NEW v \in VCs, NEW k \in 1 .. Len(buffer'[i][v]),
             buffer'[i][v][k].wait > 0
      PROVE  buffer'[i][v][k].wait \in scheduled'
  <2>1. \A j \in 1 .. Len(buffer[i][v]) :
          buffer[i][v][j].wait > 0 => buffer[i][v][j].wait \in scheduled'
    BY <1>1 DEF AwakeInv, Piped
  <2>2. CASE ~OnLink(i, v)
    <3>1. buffer'[i][v] = buffer[i][v]
      BY <2>2 DEF InputUnits, OnLink, Arrived, TypeOK, InOK
    <3> QED
      BY <1>2, <2>1, <3>1
  <2>3. CASE OnLink(i, v)
    <3> DEFINE b == buffer[i][v]
               x == [tail |-> InFlit(i).tail, wait |-> PipeStages - 1]
               n == Len(b)
    <3>1. Arrived(i) /\ InFlit(i) \in LinkFlit /\ InFlit(i).vc = v
      BY <2>3, TakeFrom DEF OnLink, Arrived, InFlit, TypeOK, InOK
    <3>2. buffer'[i][v] = Append(b, x)
      BY <3>1 DEF InputUnits, TypeOK, InOK
    <3>3. x \in Flags /\ x.wait = PipeStages - 1 /\ b \in Seq(Flags)
      BY <3>1, NewFlit DEF LinkFlit, TypeOK, InOK
    <3>4. x.wait > 0 => x.wait \in scheduled'
      <4>1. PipelineWakeup(PipeStages) \subseteq scheduled'
        BY <1>1, <3>1
      <4> QED
        BY <3>3, <4>1, SizesAssumption DEF PipelineWakeup
    <3>5. \A j \in 1 .. n : b[j].wait > 0 => b[j].wait \in scheduled'
      BY <2>1
    <3>6. k \in 1 .. Len(Append(b, x)) /\ Append(b, x)[k].wait > 0
      BY <1>2, <3>2
    <3> HIDE DEF b, x
    <3>7. /\ n \in Nat /\ Len(Append(b, x)) = n + 1
          /\ \A j \in 1 .. n : Append(b, x)[j] = b[j]
          /\ Append(b, x)[n + 1] = x
      BY <3>3, AppendTo
    <3> HIDE DEF n
    <3>8. k \in 1 .. n \/ k = n + 1
      BY <3>6, <3>7
    <3>9. Append(b, x)[k].wait \in scheduled'
      BY <3>4, <3>5, <3>6, <3>7, <3>8
    <3> QED
      BY <3>2, <3>9
  <2> QED
    BY <2>2, <2>3
<1>3. Piped'
  BY <1>2 DEF Piped
<1> QED
  BY <1>1, <1>3 DEF AwakeInv

(* A flit that stays, or comes to the head, is seen by check_for_wakeup.   *)
LEMMA AwakeSwitchAllocator ==
    ASSUME TypeOK, AwakeInv, SwitchAllocator
    PROVE  AwakeInv'
<1>1. /\ stage' = "Crossbar" /\ scheduled' = scheduled \cup CheckForWakeup
      /\ buffer' = [i \in Inports |-> [v \in VCs |->
           IF Won(i, v) THEN Tail(buffer[i][v]) ELSE buffer[i][v]]]
  BY Allocated
<1>2. Pending(1)'
  BY <1>1 DEF Pending, CheckForWakeup
<1>3. ASSUME NEW i \in Inports, NEW v \in VCs, NEW k \in 1 .. Len(buffer'[i][v]),
             buffer'[i][v][k].wait > 0
      PROVE  buffer'[i][v][k].wait \in scheduled'
  <2>1. \A j \in 1 .. Len(buffer[i][v]) :
          buffer[i][v][j].wait > 0 => buffer[i][v][j].wait \in scheduled'
    BY <1>1 DEF AwakeInv, Piped
  <2>2. CASE ~Won(i, v)
    <3>1. buffer'[i][v] = buffer[i][v]
      BY <1>1, <2>2
    <3> QED
      BY <1>3, <2>1, <3>1
  <2>3. CASE Won(i, v)
    <3> DEFINE b == buffer[i][v]
               t == Tail(b)
               n == Len(b)
    <3>1. buffer'[i][v] = t /\ b \in Seq(Flags) /\ b # << >>
      BY <1>1, <2>3, WinnerRequests DEF Won, Wins, TypeOK, InOK
    <3>2. /\ n \in Nat \ {0} /\ Len(t) = n - 1 /\ \A j \in 1 .. n - 1 : t[j] = b[j + 1]
      BY <3>1, TakeFrom
    <3>3. \A j \in 1 .. n : b[j].wait > 0 => b[j].wait \in scheduled'
      BY <2>1
    <3>4. k \in 1 .. Len(t) /\ t[k].wait > 0
      BY <1>3, <3>1
    <3> HIDE DEF b, t, n
    <3>5. k + 1 \in 1 .. n /\ t[k] = b[k + 1]
      BY <3>2, <3>4
    <3>6. t[k].wait \in scheduled'
      BY <3>3, <3>4, <3>5
    <3> QED
      BY <3>1, <3>6
  <2> QED
    BY <2>2, <2>3
<1>4. Piped'
  BY <1>3 DEF Piped
<1> QED
  BY <1>1, <1>2, <1>4 DEF AwakeInv

LEMMA AwakeStep == RouterInv /\ AwakeInv /\ [Next]_vars => AwakeInv'
<1> SUFFICES ASSUME RouterInv, AwakeInv, [Next]_vars PROVE AwakeInv'
  OBVIOUS
<1> USE DEF RouterInv
<1>1. CASE \E i \in Inports, v \in VCs, o \in Outports, f \in Flows, n \in 1 .. MaxFlits :
             HeadArrives(i, v, o, f, n)
  BY <1>1, AwakeArrival DEF HeadArrives, inVars
<1>2. CASE \E i \in Inports, v \in VCs : FlitArrives(i, v)
  BY <1>2, AwakeArrival DEF FlitArrives, inVars
<1>3. CASE \E o \in Outports, v \in VCs : CreditArrives(o, v)
  BY <1>3, AwakeArrival DEF CreditArrives, inVars
<1>4. CASE Wake
  BY <1>4, AwakeWake
<1>5. CASE InputUnits
  BY <1>5, AwakeInputUnits
<1>6. CASE OutputUnits
  <2>1. /\ stage' = "SwitchAllocator" /\ UNCHANGED buffer /\ scheduled \subseteq scheduled'
    BY <1>6 DEF OutputUnits, inVars
  <2> QED
    BY <2>1, StillPiped DEF AwakeInv
<1>7. CASE SwitchAllocator
  BY <1>7, AwakeSwitchAllocator
<1>8. CASE Crossbar
  <2>1. stage = "Crossbar" /\ stage' = "done" /\ UNCHANGED <<buffer, scheduled>>
    BY <1>8 DEF Crossbar, inVars
  <2> QED
    BY <2>1, StillPiped, StillPending DEF AwakeInv
<1>9. CASE Tick
  BY <1>9, AwakeTick
<1>10. CASE UNCHANGED vars
  BY <1>10, AwakeArrival DEF vars, inVars
<1> QED
  BY <1>1, <1>2, <1>3, <1>4, <1>5, <1>6, <1>7, <1>8, <1>9, <1>10 DEF Next

(* The first flit of a VC never waits for a wakeup that nobody has         *)
(* scheduled (InputUnit.cc:133, SwitchAllocator::check_for_wakeup).        *)
THEOREM NoWakeupIsLost == Spec => []NoLostWakeup
<1>1. RouterInv /\ AwakeInv => NoLostWakeup
  <2> SUFFICES ASSUME RouterInv, AwakeInv, stage = "arrivals", NEW i \in Inports,
                      NEW v \in VCs, buffer[i][v] # << >>
               PROVE  Head(buffer[i][v]).wait \in scheduled
    BY DEF NoLostWakeup
  <2> DEFINE w == Head(buffer[i][v]).wait
  <2>1. w \in Nat /\ 1 \in 1 .. Len(buffer[i][v]) /\ Head(buffer[i][v]) = buffer[i][v][1]
    BY FirstFlit DEF RouterInv
  <2>2. w > 0 => w \in scheduled
    BY <2>1 DEF AwakeInv, Piped
  <2>3. w <= 0 => 0 \in scheduled
    BY DEF AwakeInv, Pending, NeedsSA
  <2> HIDE DEF w
  <2>4. w \in scheduled
    BY <2>1, <2>2, <2>3
  <2> QED
    BY <2>4 DEF w
<1>2. Spec => []AwakeInv
  BY RouterAlways, AwakeInit, AwakeStep, PTL DEF Spec
<1> QED
  BY <1>1, <1>2, RouterAlways, PTL

-----------------------------------------------------------------------------
(* The order of a flow                                                     *)

Labels == Flows \cup {CHOOSE f \in Flows : TRUE}
OrderTypes ==
    /\ earlier \in [Inports -> [VCs -> SUBSET VCs]]
    /\ flow \in [Inports -> [VCs -> Labels]]

(* Two VCs of an inport carry packets that must keep their order.          *)
SameFlow(i, v, w) ==
    VnetOf(v) \in Ordered /\ VnetOf(w) = VnetOf(v) /\ flow[i][w] = flow[i][v]

(* The rest of the packet of a VC is upstream, or its tail is here.        *)
RestIsThere(i, v) ==
    /\ OnLink(i, v) /\ coming[i][v] = 0 => InFlit(i).tail
    /\ vcState[i][v] = ACTIVE_ /\ coming[i][v] = 0 /\ ~OnLink(i, v) =>
         buffer[i][v] # << >> /\ buffer[i][v][Len(buffer[i][v])].tail

(* The earlier VCs are active ones and not the VC itself.                  *)
EarlierAre(i, v) ==
    /\ vcState[i][v] = IDLE_ => earlier[i][v] = {}
    /\ \A w \in earlier[i][v] : vcState[i][w] = ACTIVE_ /\ w # v

(* The flits of v have to wait at least as long as those of w.             *)
WaitsAfter(i, v, w) ==
    \A j \in 1 .. Len(buffer[i][w]), k \in 1 .. Len(buffer[i][v]) :
        buffer[i][w][j].wait <= buffer[i][v][k].wait

(* The packet of w is here as a whole.                                     *)
AllHere(i, w) == coming[i][w] = 0 /\ ~OnLink(i, w)

(* An earlier packet of the flow is here as a whole, before the first flit *)
(* of the next one comes, and its flits are ready first.                   *)
FlowInv(i, v) ==
    \A w \in VCs : SameFlow(i, v, w) /\ w # v =>
        /\ w \in earlier[i][v] => AllHere(i, w) /\ WaitsAfter(i, v, w)
        /\ OnLink(i, v) /\ InFlit(i).head => AllHere(i, w)

OrderAt(i) == \A v \in VCs : RestIsThere(i, v) /\ EarlierAre(i, v) /\ FlowInv(i, v)
OrderInv == OrderTypes /\ \A i \in Inports : OrderAt(i)

LEMMA OrderInit == Init => OrderInv
<1> SUFFICES ASSUME Init PROVE OrderInv
  OBVIOUS
<1>1. OrderTypes
  BY DEF Init, OrderTypes, Labels
<1>2. ASSUME NEW i \in Inports, NEW v \in VCs
      PROVE  RestIsThere(i, v) /\ EarlierAre(i, v) /\ FlowInv(i, v)
  <2>1. inLink[i] = << >> /\ vcState[i][v] = IDLE_ /\ earlier[i][v] = {}
    BY DEF Init
  <2>2. IDLE_ # ACTIVE_
    BY DEF IDLE_, ACTIVE_
  <2> QED
    BY <2>1, <2>2 DEF RestIsThere, EarlierAre, FlowInv, OnLink
<1> QED
  BY <1>1, <1>2 DEF OrderInv, OrderAt

(* An inport at which nothing happens.                                     *)
LEMMA OrderSame ==
    ASSUME NEW i, OrderAt(i), inLink'[i] = inLink[i], vcState'[i] = vcState[i],
           buffer'[i] = buffer[i], earlier'[i] = earlier[i], coming'[i] = coming[i],
           flow'[i] = flow[i]
    PROVE  OrderAt(i)'
<1>1. \A w : (OnLink(i, w)' <=> OnLink(i, w)) /\ InFlit(i)' = InFlit(i)
  BY DEF OnLink, InFlit
<1>2. \A w : AllHere(i, w)' <=> AllHere(i, w)
  BY <1>1 DEF AllHere
<1>3. \A v, w : /\ SameFlow(i, v, w)' <=> SameFlow(i, v, w)
                /\ WaitsAfter(i, v, w)' <=> WaitsAfter(i, v, w)
  BY DEF SameFlow, WaitsAfter, VnetOf
<1> SUFFICES ASSUME NEW v \in VCs
             PROVE  RestIsThere(i, v)' /\ EarlierAre(i, v)' /\ FlowInv(i, v)'
  BY DEF OrderAt
<1>4. RestIsThere(i, v) /\ EarlierAre(i, v) /\ FlowInv(i, v)
  BY DEF OrderAt
<1>5. RestIsThere(i, v)'
  BY <1>1, <1>4 DEF RestIsThere
<1>6. EarlierAre(i, v)'
  BY <1>4 DEF EarlierAre
<1>7. FlowInv(i, v)'
  BY <1>1, <1>2, <1>3, <1>4 DEF FlowInv
<1> QED
  BY <1>5, <1>6, <1>7

LEMMA OrderHeadArrives ==
    ASSUME RouterInv, OrderInv, NEW i \in Inports, NEW v \in VCs, NEW o \in Outports,
           NEW f \in Flows, NEW n \in 1 .. MaxFlits, HeadArrives(i, v, o, f, n)
    PROVE  OrderInv'
<1> DEFINE x == [vc |-> v, head |-> TRUE, tail |-> n = 1, route |-> o]
<1>1. /\ inLink[i] = << >> /\ vcState[i][v] = IDLE_
      /\ inLink' = [inLink EXCEPT ![i] = << x >>] /\ coming' = [coming EXCEPT ![i][v] = n - 1]
      /\ flow' = [flow EXCEPT ![i][v] = f]
      /\ UNCHANGED <<vcState, buffer, earlier>>
      /\ VnetOf(v) \in Ordered =>
           \A w \in VCs : VnetOf(w) = VnetOf(v) /\ flow[i][w] = f => coming[i][w] = 0
  BY DEF HeadArrives, inVars
<1>2. x.vc = v /\ x.head = TRUE /\ (x.tail <=> n = 1)
  OBVIOUS
<1> HIDE DEF x
<1>3. /\ inLink'[i] = << x >> /\ coming'[i][v] = n - 1 /\ flow'[i][v] = f
      /\ \A w \in VCs : w # v => coming'[i][w] = coming[i][w] /\ flow'[i][w] = flow[i][w]
      /\ \A j \in Inports : j # i =>
           inLink'[j] = inLink[j] /\ coming'[j] = coming[j] /\ flow'[j] = flow[j]
  BY <1>1 DEF RouterInv, TypeOK, InOK, OrderInv, OrderTypes
<1>4. InFlit(i)' = x /\ \A w : ~OnLink(i, w) /\ (OnLink(i, w)' <=> w = v)
  <2>1. inLink'[i] # << >> /\ InFlit(i)' = x
    BY <1>3, OneElement DEF InFlit
  <2> QED
    BY <1>1, <1>2, <2>1 DEF OnLink
<1>5. OrderTypes'
  BY <1>1 DEF OrderInv, OrderTypes, Labels
<1>6. ASSUME NEW j \in Inports, j # i PROVE OrderAt(j)'
  BY <1>1, <1>3, <1>6, OrderSame DEF OrderInv
<1>7. ASSUME NEW u \in VCs PROVE RestIsThere(i, u)' /\ EarlierAre(i, u)' /\ FlowInv(i, u)'
  <2>1. RestIsThere(i, u) /\ EarlierAre(i, u) /\ FlowInv(i, u)
    BY DEF OrderInv, OrderAt
  <2>2. RestIsThere(i, u)'
    <3>1. CASE u = v
      <4>1. coming'[i][v] = 0 => x.tail
        BY <1>2, <1>3
      <4> QED
        BY <1>4, <3>1, <4>1 DEF RestIsThere
    <3>2. CASE u # v
      BY <1>1, <1>3, <1>4, <2>1, <3>2 DEF RestIsThere
    <3> QED
      BY <3>1, <3>2
  <2>3. EarlierAre(i, u)'
    BY <1>1, <2>1 DEF EarlierAre
  <2>4. ASSUME NEW w \in VCs, SameFlow(i, u, w)', w # u, w \in earlier[i][u]
        PROVE  AllHere(i, w)' /\ WaitsAfter(i, u, w)'
    <3>1. w # v /\ u # v
      BY <1>1, <2>1, <2>4 DEF EarlierAre, IDLE_, ACTIVE_
    <3>2. SameFlow(i, u, w)
      BY <1>3, <2>4, <3>1 DEF SameFlow, VnetOf
    <3>3. AllHere(i, w) /\ WaitsAfter(i, u, w)
      BY <2>1, <2>4, <3>2 DEF FlowInv
    <3> QED
      BY <1>1, <1>3, <1>4, <3>1, <3>3 DEF AllHere, WaitsAfter
  <2>5. ASSUME NEW w \in VCs, SameFlow(i, u, w)', w # u, OnLink(i, u)'
        PROVE  AllHere(i, w)'
    <3>1. u = v /\ w # v
      BY <1>4, <2>5
    <3>2. VnetOf(v) \in Ordered /\ VnetOf(w) = VnetOf(v) /\ flow[i][w] = f
      BY <1>3, <2>5, <3>1 DEF SameFlow, VnetOf
    <3>3. coming[i][w] = 0
      BY <1>1, <3>2
    <3> QED
      BY <1>3, <1>4, <3>1, <3>3 DEF AllHere
  <2>6. FlowInv(i, u)'
    BY <1>1, <2>4, <2>5 DEF FlowInv
  <2> QED
    BY <2>2, <2>3, <2>6
<1>8. OrderAt(i)'
  BY <1>7 DEF OrderAt
<1> QED
  BY <1>5, <1>6, <1>8 DEF OrderInv

LEMMA OrderFlitArrives ==
    ASSUME RouterInv, OrderInv, NEW i \in Inports, NEW v \in VCs, FlitArrives(i, v)
    PROVE  OrderInv'
<1> DEFINE x == [vc |-> v, head |-> FALSE, tail |-> coming[i][v] = 1, route |-> None]
<1>1. /\ inLink[i] = << >> /\ coming[i][v] > 0
      /\ inLink' = [inLink EXCEPT ![i] = << x >>] /\ coming' = [coming EXCEPT ![i][v] = @ - 1]
      /\ UNCHANGED <<vcState, buffer, earlier, flow>>
  BY DEF FlitArrives, inVars
<1>2. x.vc = v /\ x.head = FALSE /\ (x.tail <=> coming[i][v] = 1)
  OBVIOUS
<1> HIDE DEF x
<1>3. /\ inLink'[i] = << x >> /\ coming'[i][v] = coming[i][v] - 1 /\ coming[i][v] \in Nat
      /\ \A w \in VCs : w # v => coming'[i][w] = coming[i][w]
      /\ \A j \in Inports : j # i => inLink'[j] = inLink[j] /\ coming'[j] = coming[j]
  BY <1>1 DEF RouterInv, TypeOK, InOK
<1>4. InFlit(i)' = x /\ \A w : ~OnLink(i, w) /\ (OnLink(i, w)' <=> w = v)
  <2>1. inLink'[i] # << >> /\ InFlit(i)' = x
    BY <1>3, OneElement DEF InFlit
  <2> QED
    BY <1>1, <1>2, <2>1 DEF OnLink
<1>5. OrderTypes'
  BY <1>1 DEF OrderInv, OrderTypes
<1>6. ASSUME NEW j \in Inports, j # i PROVE OrderAt(j)'
  BY <1>1, <1>3, <1>6, OrderSame DEF OrderInv
<1>7. ASSUME NEW u \in VCs PROVE RestIsThere(i, u)' /\ EarlierAre(i, u)' /\ FlowInv(i, u)'
  <2>1. RestIsThere(i, u) /\ EarlierAre(i, u) /\ FlowInv(i, u)
    BY DEF OrderInv, OrderAt
  <2>2. RestIsThere(i, u)'
    <3>1. CASE u = v
      <4>1. coming'[i][v] = 0 => x.tail
        BY <1>2, <1>3
      <4> QED
        BY <1>4, <3>1, <4>1 DEF RestIsThere
    <3>2. CASE u # v
      BY <1>1, <1>3, <1>4, <2>1, <3>2 DEF RestIsThere
    <3> QED
      BY <3>1, <3>2
  <2>3. EarlierAre(i, u)'
    BY <1>1, <2>1 DEF EarlierAre
  <2>4. ASSUME NEW w \in VCs, SameFlow(i, u, w)', w # u, w \in earlier[i][u]
        PROVE  AllHere(i, w)' /\ WaitsAfter(i, u, w)'
    <3>1. SameFlow(i, u, w)
      BY <1>1, <2>4 DEF SameFlow, VnetOf
    <3>2. AllHere(i, w) /\ WaitsAfter(i, u, w)
      BY <2>1, <2>4, <3>1 DEF FlowInv
    <3>3. w # v
      BY <1>1, <1>3, <3>2 DEF AllHere
    <3> QED
      BY <1>1, <1>3, <1>4, <3>2, <3>3 DEF AllHere, WaitsAfter
  <2>5. OnLink(i, u)' => ~InFlit(i)'.head
    BY <1>2, <1>4
  <2>6. FlowInv(i, u)'
    BY <1>1, <2>4, <2>5 DEF FlowInv
  <2> QED
    BY <2>2, <2>3, <2>6
<1>8. OrderAt(i)'
  BY <1>7 DEF OrderAt
<1> QED
  BY <1>5, <1>6, <1>8 DEF OrderInv

(* A tick later every flit of a buffer waits one tick less.                *)
LEMMA WaitedBuffer ==
    ASSUME NEW b \in Seq(Flags), NEW c, c = [k \in DOMAIN b |-> Waited(b[k])]
    PROVE  /\ Len(b) \in Nat /\ Len(c) = Len(b) /\ (b # << >> => c # << >>)
           /\ \A k \in 1 .. Len(b) :
                /\ b[k].wait \in Nat /\ c[k].tail = b[k].tail
                /\ c[k].wait = IF b[k].wait > 0 THEN b[k].wait - 1 ELSE 0
<1>1. Len(b) \in Nat /\ DOMAIN b = 1 .. Len(b) /\ \A k \in 1 .. Len(b) : b[k] \in Flags
  BY LengthOf
<1>2. \A k \in 1 .. Len(b) : c[k] \in Flags /\ c[k].tail = b[k].tail
        /\ c[k].wait = IF b[k].wait > 0 THEN b[k].wait - 1 ELSE 0
  BY <1>1, WaitedFlag
<1>3. c \in [1 .. Len(b) -> Flags]
  BY <1>1, <1>2
<1>4. c \in Seq(Flags) /\ Len(c) = Len(b)
  <2>1. c \in Seq(Flags) /\ DOMAIN c = 1 .. Len(b)
    BY <1>1, <1>3, SeqDef
  <2> QED
    BY <1>1, <2>1, LenProperties
<1>5. b # << >> => c # << >>
  BY <1>4, LengthOf
<1>6. \A k \in 1 .. Len(b) : b[k].wait \in Nat
  BY <1>1, SizesAssumption DEF Flags
<1> QED
  BY <1>1, <1>2, <1>4, <1>5, <1>6

LEMMA OrderTick ==
    ASSUME RouterInv, OrderInv, Tick
    PROVE  OrderInv'
<1>1. /\ UNCHANGED <<inLink, vcState, earlier, coming, flow>>
      /\ buffer' = [i \in Inports |-> [v \in VCs |->
                    [k \in DOMAIN buffer[i][v] |-> Waited(buffer[i][v][k])]]]
  BY DEF Tick, envVars, linkVars
<1>2. OrderTypes'
  BY <1>1 DEF OrderInv, OrderTypes
<1>3. ASSUME NEW i \in Inports, NEW v \in VCs
      PROVE  /\ Len(buffer[i][v]) \in Nat /\ Len(buffer'[i][v]) = Len(buffer[i][v])
             /\ buffer[i][v] # << >> => buffer'[i][v] # << >>
             /\ \A k \in 1 .. Len(buffer[i][v]) :
                  /\ buffer[i][v][k].wait \in Nat
                  /\ buffer'[i][v][k].tail = buffer[i][v][k].tail
                  /\ buffer'[i][v][k].wait =
                       IF buffer[i][v][k].wait > 0 THEN buffer[i][v][k].wait - 1 ELSE 0
  <2> DEFINE b == buffer[i][v]
             c == buffer'[i][v]
  <2>1. b \in Seq(Flags) /\ c = [k \in DOMAIN b |-> Waited(b[k])]
    BY <1>1 DEF RouterInv, TypeOK, InOK
  <2> HIDE DEF b, c
  <2>2. /\ Len(b) \in Nat /\ Len(c) = Len(b) /\ (b # << >> => c # << >>)
        /\ \A k \in 1 .. Len(b) :
             /\ b[k].wait \in Nat /\ c[k].tail = b[k].tail
             /\ c[k].wait = IF b[k].wait > 0 THEN b[k].wait - 1 ELSE 0
    BY <2>1, WaitedBuffer
  <2> QED
    BY <2>2 DEF b, c
<1>4. \A i \in Inports, w \in VCs : (OnLink(i, w)' <=> OnLink(i, w)) /\ InFlit(i)' = InFlit(i)
        /\ (AllHere(i, w)' <=> AllHere(i, w))
  BY <1>1 DEF OnLink, InFlit, AllHere
<1>5. \A i, v, w : SameFlow(i, v, w)' <=> SameFlow(i, v, w)
  BY <1>1 DEF SameFlow, VnetOf
<1>6. ASSUME NEW i \in Inports, NEW v \in VCs, NEW w \in VCs, WaitsAfter(i, v, w)
      PROVE  WaitsAfter(i, v, w)'
  <2> DEFINE a == buffer[i][w]
             b == buffer[i][v]
             c == buffer'[i][w]
             d == buffer'[i][v]
  <2>1. /\ Len(c) = Len(a) /\ \A k \in 1 .. Len(a) : a[k].wait \in Nat
             /\ c[k].wait = IF a[k].wait > 0 THEN a[k].wait - 1 ELSE 0
        /\ Len(d) = Len(b) /\ \A k \in 1 .. Len(b) : b[k].wait \in Nat
             /\ d[k].wait = IF b[k].wait > 0 THEN b[k].wait - 1 ELSE 0
    BY <1>3
  <2>2. \A j \in 1 .. Len(a), k \in 1 .. Len(b) : a[j].wait <= b[k].wait
    BY <1>6 DEF WaitsAfter
  <2>3. WaitsAfter(i, v, w)' <=> \A j \in 1 .. Len(c), k \in 1 .. Len(d) : c[j].wait <= d[k].wait
    BY DEF WaitsAfter
  <2> HIDE DEF a, b, c, d
  <2>4. ASSUME NEW j \in 1 .. Len(a), NEW k \in 1 .. Len(b) PROVE c[j].wait <= d[k].wait
    BY <2>1, <2>2
  <2> QED
    BY <2>1, <2>3, <2>4
<1>7. ASSUME NEW i \in Inports, NEW v \in VCs
      PROVE  RestIsThere(i, v)' /\ EarlierAre(i, v)' /\ FlowInv(i, v)'
  <2>1. RestIsThere(i, v) /\ EarlierAre(i, v) /\ FlowInv(i, v)
    BY DEF OrderInv, OrderAt
  <2>2. RestIsThere(i, v)'
    <3> DEFINE b == buffer[i][v]
               c == buffer'[i][v]
    <3>1. Len(b) \in Nat /\ Len(c) = Len(b) /\ (b # << >> => c # << >>)
          /\ \A k \in 1 .. Len(b) : c[k].tail = b[k].tail
      BY <1>3
    <3>2. b # << >> => Len(b) \in 1 .. Len(b)
      <4>1. b \in Seq(Flags)
        BY DEF RouterInv, TypeOK, InOK
      <4> HIDE DEF b
      <4> QED
        BY <4>1, LengthOf
    <3>3. b # << >> /\ b[Len(b)].tail => c # << >> /\ c[Len(c)].tail
      <4> HIDE DEF b, c
      <4> QED
        BY <3>1, <3>2
    <3> QED
      BY <1>1, <1>4, <2>1, <3>3 DEF RestIsThere
  <2>3. EarlierAre(i, v)'
    BY <1>1, <2>1 DEF EarlierAre
  <2>4. FlowInv(i, v)'
    BY <1>1, <1>4, <1>5, <1>6, <2>1 DEF FlowInv
  <2> QED
    BY <2>2, <2>3, <2>4
<1> QED
  BY <1>2, <1>7 DEF OrderInv, OrderAt

(* A flit that arrives is appended to its buffer.                          *)
LEMMA ArrivalAppends ==
    ASSUME RouterInv, InputUnits, NEW i \in Inports, NEW v \in VCs,
           buffer'[i][v] # buffer[i][v]
    PROVE  \E x \in Flags : buffer'[i][v] = Append(buffer[i][v], x)
<1>1. Arrived(i)
  BY DEF InputUnits
<1>2. InFlit(i) \in LinkFlit
  BY <1>1, TakeFrom DEF Arrived, InFlit, RouterInv, TypeOK, InOK
<1>3. [tail |-> InFlit(i).tail, wait |-> PipeStages - 1] \in Flags
  BY <1>2, NewFlit DEF LinkFlit
<1>4. buffer'[i][v] =
        Append(buffer[i][v], [tail |-> InFlit(i).tail, wait |-> PipeStages - 1])
  BY <1>1, <1>2 DEF InputUnits, LinkFlit, RouterInv, TypeOK, InOK
<1> QED
  BY <1>3, <1>4

LEMMA OrderInputUnits ==
    ASSUME RouterInv, OrderInv, InputUnits
    PROVE  OrderInv'
<1> USE DEF RouterInv
<1>1. /\ inLink' = [i \in Inports |-> IF Arrived(i) THEN Tail(inLink[i]) ELSE << >>]
      /\ vcState' = [i \in Inports |->
           IF Arrived(i) /\ InFlit(i).head
           THEN [vcState[i] EXCEPT ![InFlit(i).vc] = ACTIVE_] ELSE vcState[i]]
      /\ earlier' = [i \in Inports |->
           IF Arrived(i) /\ InFlit(i).head
           THEN [earlier[i] EXCEPT ![InFlit(i).vc] = {w \in VCs : vcState[i][w] = ACTIVE_}]
           ELSE earlier[i]]
      /\ buffer' = [i \in Inports |->
           IF Arrived(i)
           THEN [buffer[i] EXCEPT ![InFlit(i).vc] =
                  Append(@, [tail |-> InFlit(i).tail, wait |-> PipeStages - 1])]
           ELSE buffer[i]]
      /\ UNCHANGED <<coming, flow>>
  BY DEF InputUnits, envVars
<1>2. OrderTypes'
  <2>1. ASSUME NEW i \in Inports PROVE earlier'[i] \in [VCs -> SUBSET VCs]
    <3>1. {w \in VCs : vcState[i][w] = ACTIVE_} \in SUBSET VCs
      OBVIOUS
    <3> QED
      BY <1>1, <3>1 DEF OrderInv, OrderTypes
  <2> QED
    BY <1>1, <2>1 DEF OrderInv, OrderTypes
<1>3. ASSUME NEW i \in Inports, ~Arrived(i) PROVE OrderAt(i)'
  <2>1. inLink[i] = << >>
    BY <1>3 DEF Arrived
  <2> QED
    BY <1>1, <1>3, <2>1, OrderSame DEF OrderInv
<1>4. ASSUME NEW i \in Inports, Arrived(i) PROVE OrderAt(i)'
  <2>1. InFlit(i) \in LinkFlit /\ inLink'[i] = << >>
    <3>1. inLink[i] \in Seq(LinkFlit) /\ inLink[i] # << >> /\ Len(inLink[i]) = 1
      BY <1>4 DEF Arrived, PacketInv, LinkInv, TypeOK, InOK
    <3>2. Head(inLink[i]) \in LinkFlit /\ Tail(inLink[i]) = << >>
      BY <3>1, TakeFrom, TakeOnly
    <3> QED
      BY <1>1, <1>4, <3>2 DEF InFlit
  <2>0. PICK v \in VCs : InFlit(i).vc = v
    BY <2>1 DEF LinkFlit
  <2> DEFINE b == buffer[i][v]
             x == [tail |-> InFlit(i).tail, wait |-> PipeStages - 1]
             c == buffer'[i][v]
  <2>2. \A w : (OnLink(i, w) <=> w = v) /\ ~OnLink(i, w)'
    BY <1>4, <2>0, <2>1 DEF OnLink, Arrived
  <2>3. /\ \A w \in VCs : w # v =>
             vcState'[i][w] = vcState[i][w] /\ buffer'[i][w] = buffer[i][w]
             /\ earlier'[i][w] = earlier[i][w]
        /\ InFlit(i).head => vcState'[i][v] = ACTIVE_ /\ vcState[i][v] = IDLE_
             /\ earlier'[i][v] = {w \in VCs : vcState[i][w] = ACTIVE_}
        /\ ~InFlit(i).head => vcState'[i][v] = vcState[i][v] /\ vcState[i][v] = ACTIVE_
             /\ earlier'[i][v] = earlier[i][v]
        /\ c = Append(b, x)
    BY <1>1, <1>4, <2>0
    DEF TypeOK, InOK, OrderInv, OrderTypes, PacketInv, LinkInv, Arrived
  <2>4. x \in Flags /\ x.tail = InFlit(i).tail /\ x.wait = PipeStages - 1 /\ b \in Seq(Flags)
    BY <2>1, NewFlit DEF LinkFlit, TypeOK, InOK
  <2> HIDE DEF b, x, c
  <2>5. /\ Len(b) \in Nat /\ Len(c) = Len(b) + 1 /\ c # << >>
        /\ \A j \in 1 .. Len(b) : c[j] = b[j]
        /\ c[Len(b) + 1] = x
    BY <2>3, <2>4, AppendTo
  <2>6. InFlit(i).head => Len(b) = 0
    <3>1. vcState[i][v] = IDLE_ => b = << >>
      BY DEF PacketInv, VcInv, b
    <3> QED
      BY <2>3, <3>1, EmptySeq
  <2>7. ASSUME NEW w \in VCs, w # v, InFlit(i).head \/ WaitsAfter(i, v, w)
        PROVE  WaitsAfter(i, v, w)'
    <3> DEFINE a == buffer[i][w]
    <3>1. a \in Seq(Flags) /\ buffer'[i][w] = a
      BY <2>3, <2>7 DEF TypeOK, InOK
    <3>2. \A j \in 1 .. Len(a) : a[j].wait <= PipeStages - 1
      <4>1. \A j \in 1 .. Len(a) : a[j] \in Flags
        BY <3>1, LengthOf
      <4> HIDE DEF a
      <4> QED
        BY <4>1, SizesAssumption DEF Flags
    <3>3. InFlit(i).head \/ \A j \in 1 .. Len(a), k \in 1 .. Len(b) : a[j].wait <= b[k].wait
      BY <2>7 DEF WaitsAfter, b
    <3>4. WaitsAfter(i, v, w)' <=>
            \A j \in 1 .. Len(a), k \in 1 .. Len(c) : a[j].wait <= c[k].wait
      BY <3>1 DEF WaitsAfter, c
    <3> HIDE DEF a
    <3>5. ASSUME NEW j \in 1 .. Len(a), NEW k \in 1 .. Len(b) + 1 PROVE a[j].wait <= c[k].wait
      BY <2>4, <2>5, <2>6, <3>2, <3>3
    <3> QED
      BY <2>5, <3>4, <3>5
  <2>8. ASSUME NEW u \in VCs PROVE RestIsThere(i, u)' /\ EarlierAre(i, u)' /\ FlowInv(i, u)'
    <3>1. RestIsThere(i, u) /\ EarlierAre(i, u) /\ FlowInv(i, u)
      BY DEF OrderInv, OrderAt
    <3>2. /\ coming' = coming /\ \A w : SameFlow(i, u, w)' <=> SameFlow(i, u, w)
      BY <1>1 DEF SameFlow, VnetOf
    <3>3. RestIsThere(i, u)'
      <4>1. CASE u = v
        <5>1. coming[i][v] = 0 => x.tail
          BY <2>0, <2>2, <2>4, <3>1, <4>1 DEF RestIsThere
        <5>2. c # << >> /\ (x.tail => c[Len(c)].tail)
          BY <2>5
        <5> QED
          BY <2>2, <3>2, <4>1, <5>1, <5>2 DEF RestIsThere, c
      <4>2. CASE u # v
        BY <2>2, <2>3, <3>1, <3>2, <4>2 DEF RestIsThere
      <4> QED
        BY <4>1, <4>2
    <3>4. \A w \in VCs : vcState[i][w] = ACTIVE_ => vcState'[i][w] = ACTIVE_
      BY <2>3
    <3>5. EarlierAre(i, u)'
      <4>1. CASE u = v
        BY <2>3, <3>1, <3>4, <4>1 DEF EarlierAre, IDLE_, ACTIVE_, OrderInv, OrderTypes
      <4>2. CASE u # v
        BY <2>3, <3>1, <3>4, <4>2 DEF EarlierAre, OrderInv, OrderTypes
      <4> QED
        BY <4>1, <4>2
    <3>6. ASSUME NEW w \in VCs, SameFlow(i, u, w), w # u, w \in earlier'[i][u]
          PROVE  AllHere(i, w)' /\ WaitsAfter(i, u, w)'
      <4>1. CASE u # v
        <5>1. AllHere(i, w) /\ WaitsAfter(i, u, w)
          BY <2>3, <3>1, <3>6, <4>1 DEF FlowInv
        <5>2. w # v
          BY <2>2, <5>1 DEF AllHere
        <5> QED
          BY <2>2, <2>3, <3>2, <4>1, <5>1, <5>2 DEF AllHere, WaitsAfter
      <4>2. CASE u = v
        <5>1. AllHere(i, w) /\ (InFlit(i).head \/ WaitsAfter(i, v, w))
          BY <2>2, <2>3, <3>1, <3>6, <4>2 DEF FlowInv
        <5>2. AllHere(i, w)'
          BY <2>2, <3>2, <5>1 DEF AllHere
        <5> QED
          BY <2>7, <3>6, <4>2, <5>1, <5>2
      <4> QED
        BY <4>1, <4>2
    <3>7. FlowInv(i, u)'
      BY <2>2, <3>2, <3>6 DEF FlowInv
    <3> QED
      BY <3>3, <3>5, <3>7
  <2> QED
    BY <2>8 DEF OrderAt
<1> QED
  BY <1>2, <1>3, <1>4 DEF OrderInv

LEMMA OrderSwitchAllocator ==
    ASSUME RouterInv, OrderInv, SwitchAllocator
    PROVE  OrderInv'
<1> USE DEF RouterInv
<1>1. /\ stage = "SwitchAllocator" /\ UNCHANGED <<inLink, coming, flow>>
      /\ buffer' = [i \in Inports |-> [v \in VCs |->
           IF Won(i, v) THEN Tail(buffer[i][v]) ELSE buffer[i][v]]]
      /\ vcState' = [i \in Inports |-> [v \in VCs |->
           IF Frees(i, v) THEN IDLE_ ELSE vcState[i][v]]]
      /\ earlier' = [i \in Inports |-> [v \in VCs |->
           IF Frees(i, v) THEN {} ELSE {w \in earlier[i][v] : ~Frees(i, w)}]]
  BY Allocated
<1>2. OrderTypes'
  <2>1. ASSUME NEW i \in Inports, NEW v \in VCs PROVE earlier'[i][v] \in SUBSET VCs
    BY <1>1 DEF OrderInv, OrderTypes
  <2> QED
    BY <1>1, <2>1 DEF OrderInv, OrderTypes
<1>3. ASSUME NEW i \in Inports, NEW w \in VCs
      PROVE  /\ ~OnLink(i, w) /\ ~OnLink(i, w)' /\ (AllHere(i, w)' <=> AllHere(i, w))
  BY <1>1 DEF PacketInv, LinkInv, OnLink, AllHere
<1>4. ASSUME NEW i \in Inports, NEW v \in VCs
      PROVE  /\ Len(buffer'[i][v]) \in Nat
             /\ \A j \in 1 .. Len(buffer'[i][v]) : \E k \in 1 .. Len(buffer[i][v]) :
                  buffer'[i][v][j] = buffer[i][v][k]
             /\ ~Frees(i, v) /\ buffer[i][v] # << >> /\ buffer[i][v][Len(buffer[i][v])].tail =>
                  buffer'[i][v] # << >> /\ buffer'[i][v][Len(buffer'[i][v])].tail
  <2> DEFINE b == buffer[i][v]
             c == buffer'[i][v]
  <2>1. b \in Seq(Flags) /\ Len(b) \in Nat
    BY LengthOf DEF TypeOK, InOK
  <2>2. CASE ~Won(i, v)
    <3>1. c = b
      BY <1>1, <2>2
    <3> HIDE DEF b, c
    <3>2. /\ Len(c) \in Nat /\ \A j \in 1 .. Len(c) : \E k \in 1 .. Len(b) : c[j] = b[k]
          /\ b # << >> /\ b[Len(b)].tail => c # << >> /\ c[Len(c)].tail
      BY <2>1, <3>1
    <3> QED
      BY <3>2 DEF b, c
  <2>3. CASE Won(i, v)
    <3>1. c = Tail(b) /\ b # << >>
      <4>1. c = Tail(b)
        BY <1>1, <2>3
      <4>2. Requesting(i) /\ InvcWinner(i) = v
        BY <2>3 DEF Won, Wins
      <4>3. b # << >>
        BY <4>2, WinnerRequests DEF TypeOK
      <4> QED
        BY <4>1, <4>3
    <3>2. ~Frees(i, v) => ~Head(b).tail
      BY <2>3 DEF Frees
    <3> HIDE DEF b, c
    <3>3. /\ Len(b) \in Nat \ {0} /\ Head(b) = b[1] /\ c \in Seq(Flags) /\ Len(c) = Len(b) - 1
          /\ \A j \in 1 .. Len(b) - 1 : c[j] = b[j + 1]
      BY <2>1, <3>1, TakeFrom
    <3>4. Len(c) \in Nat /\ \A j \in 1 .. Len(c) : \E k \in 1 .. Len(b) : c[j] = b[k]
      BY <3>3
    <3>5. ASSUME ~Frees(i, v), b[Len(b)].tail PROVE c # << >> /\ c[Len(c)].tail
      <4>1. Len(b) # 1
        BY <3>2, <3>3, <3>5
      <4>2. Len(c) > 0 /\ c[Len(c)] = b[Len(b)]
        BY <3>3, <4>1
      <4> QED
        BY <3>3, <3>5, <4>2, LengthOf
    <3> QED
      BY <3>4, <3>5 DEF b, c
  <2> QED
    BY <2>2, <2>3
<1>5. ASSUME NEW i \in Inports, NEW v \in VCs, NEW w \in VCs, WaitsAfter(i, v, w)
      PROVE  WaitsAfter(i, v, w)'
  <2> SUFFICES ASSUME NEW j \in 1 .. Len(buffer'[i][w]), NEW k \in 1 .. Len(buffer'[i][v])
               PROVE  buffer'[i][w][j].wait <= buffer'[i][v][k].wait
    BY DEF WaitsAfter
  <2>1. /\ \E m \in 1 .. Len(buffer[i][w]) : buffer'[i][w][j] = buffer[i][w][m]
        /\ \E n \in 1 .. Len(buffer[i][v]) : buffer'[i][v][k] = buffer[i][v][n]
    BY <1>4
  <2> QED
    BY <1>5, <2>1 DEF WaitsAfter
<1>6. ASSUME NEW i \in Inports, NEW v \in VCs
      PROVE  RestIsThere(i, v)' /\ EarlierAre(i, v)' /\ FlowInv(i, v)'
  <2>1. RestIsThere(i, v) /\ EarlierAre(i, v) /\ FlowInv(i, v)
    BY DEF OrderInv, OrderAt
  <2>2. vcState'[i][v] = IF Frees(i, v) THEN IDLE_ ELSE vcState[i][v]
    BY <1>1
  <2>3. RestIsThere(i, v)'
    BY <1>1, <1>3, <1>4, <2>1, <2>2 DEF RestIsThere, IDLE_, ACTIVE_
  <2>4. earlier'[i][v] = IF Frees(i, v) THEN {} ELSE {w \in earlier[i][v] : ~Frees(i, w)}
    BY <1>1
  <2>5. EarlierAre(i, v)'
    <3>1. vcState'[i][v] = IDLE_ => earlier'[i][v] = {}
      BY <2>1, <2>2, <2>4 DEF EarlierAre
    <3>2. ASSUME NEW w \in earlier'[i][v] PROVE vcState'[i][w] = ACTIVE_ /\ w # v
      <4>1. w \in earlier[i][v] /\ ~Frees(i, w) /\ w \in VCs
        BY <2>4 DEF OrderInv, OrderTypes
      <4> QED
        BY <1>1, <2>1, <4>1 DEF EarlierAre
    <3> QED
      BY <3>1, <3>2 DEF EarlierAre
  <2>6. ASSUME NEW w \in VCs, SameFlow(i, v, w)', w # v, w \in earlier'[i][v]
        PROVE  AllHere(i, w)' /\ WaitsAfter(i, v, w)'
    <3>1. SameFlow(i, v, w) /\ w \in earlier[i][v]
      BY <1>1, <2>4, <2>6 DEF SameFlow, VnetOf
    <3> QED
      BY <1>3, <1>5, <2>1, <2>6, <3>1 DEF FlowInv
  <2>7. FlowInv(i, v)'
    BY <1>3, <2>6 DEF FlowInv
  <2> QED
    BY <2>3, <2>5, <2>7
<1> QED
  BY <1>2, <1>6 DEF OrderInv, OrderAt

LEMMA OrderStep == RouterInv /\ OrderInv /\ [Next]_vars => OrderInv'
<1> SUFFICES ASSUME RouterInv, OrderInv, [Next]_vars PROVE OrderInv'
  OBVIOUS
<1>1. ASSUME UNCHANGED <<inLink, vcState, buffer, earlier, coming, flow>> PROVE OrderInv'
  <2>1. \A i \in Inports : OrderAt(i)'
    BY <1>1, OrderSame DEF OrderInv
  <2> QED
    BY <1>1, <2>1 DEF OrderInv, OrderTypes
<1>2. ASSUME NEW o \in Outports, NEW v \in VCs, CreditArrives(o, v) PROVE OrderInv'
  BY <1>1, <1>2 DEF CreditArrives, inVars
<1>3. CASE Wake
  BY <1>1, <1>3 DEF Wake, inVars, envVars, linkVars
<1>4. CASE OutputUnits
  BY <1>1, <1>4 DEF OutputUnits, inVars, envVars
<1>5. CASE Crossbar
  BY <1>1, <1>5 DEF Crossbar, inVars, linkVars
<1>6. CASE UNCHANGED vars
  BY <1>1, <1>6 DEF vars, inVars, envVars, linkVars
<1> QED
  BY <1>2, <1>3, <1>4, <1>5, <1>6, OrderHeadArrives, OrderFlitArrives, OrderInputUnits,
     OrderSwitchAllocator, OrderTick DEF Next

(* A flit may leave only when no earlier one of its flow for the same      *)
(* outport is left, for that one would be ready too.                       *)
LEMMA NoOvertaking ==
    ASSUME RouterInv, OrderInv, SwitchAllocator, NEW i \in Inports, NEW v \in VCs,
           NEW w \in VCs, SameFlow(i, v, w), EnqueuedBefore(i, w, v),
           outport[i][w] = outport[i][v]
    PROVE  ~Won(i, v)
<1> SUFFICES ASSUME Won(i, v) PROVE FALSE
  OBVIOUS
<1>1. Ready(i, v) /\ SendAllowed(i, v)
  <2>1. Requesting(i) /\ InvcWinner(i) = v
    BY DEF Won, Wins
  <2> QED
    BY <2>1, WinnerRequests DEF Requests, RouterInv, TypeOK
<1>2. ~Ready(i, w)
  BY <1>1 DEF SendAllowed, SameFlow
<1> DEFINE a == buffer[i][w]
           b == buffer[i][v]
<1>3. a # << >>
  <2>1. w # v /\ vcState[i][w] = ACTIVE_ /\ AllHere(i, w)
    BY DEF EnqueuedBefore, OrderInv, OrderAt, EarlierAre, FlowInv
  <2> QED
    BY <2>1 DEF OrderInv, OrderAt, RestIsThere, AllHere
<1>4. \A j \in 1 .. Len(a), k \in 1 .. Len(b) : a[j].wait <= b[k].wait
  BY DEF EnqueuedBefore, OrderInv, OrderAt, EarlierAre, FlowInv, WaitsAfter
<1>5. b # << >> /\ Head(b).wait <= 0
  BY <1>1 DEF Ready, NeedsSA
<1>6. ~(Head(a).wait <= 0)
  BY <1>2, <1>3 DEF Ready, NeedsSA
<1>7. a \in Seq(Flags) /\ b \in Seq(Flags)
  BY DEF RouterInv, TypeOK, InOK
<1> HIDE DEF a, b
<1>8. /\ Len(a) \in Nat \ {0} /\ Head(a) = a[1] /\ Head(a) \in Flags
      /\ Len(b) \in Nat \ {0} /\ Head(b) = b[1] /\ Head(b) \in Flags
  BY <1>3, <1>5, <1>7, TakeFrom
<1>9. a[1].wait <= b[1].wait /\ a[1].wait \in Int /\ b[1].wait \in Int
  BY <1>4, <1>8, SizesAssumption DEF Flags
<1> QED
  BY <1>5, <1>6, <1>8, <1>9

(* OrderedFlows, for any number of ports, VCs, buffers and stages: in an   *)
(* ordered vnet no flit passes an earlier packet of its flow that is for   *)
(* the same outport, whatever output VCs and credits there are.            *)
THEOREM FlowsKeepOrder == Spec => OrderedFlows
<1> DEFINE Kept == \A i \in Inports : \A v, w \in VCs :
             /\ VnetOf(v) \in Ordered /\ VnetOf(w) = VnetOf(v) /\ flow[i][v] = flow[i][w]
             /\ EnqueuedBefore(i, w, v) /\ outport[i][w] = outport[i][v]
             => Len(buffer'[i][v]) >= Len(buffer[i][v])
<1>1. ASSUME RouterInv, OrderInv, [Next]_vars PROVE Kept
  <2> SUFFICES ASSUME NEW i \in Inports, NEW v \in VCs, NEW w \in VCs, SameFlow(i, v, w),
                      EnqueuedBefore(i, w, v), outport[i][w] = outport[i][v]
               PROVE  Len(buffer'[i][v]) >= Len(buffer[i][v])
    BY DEF SameFlow
  <2> DEFINE b == buffer[i][v]
             c == buffer'[i][v]
  <2>1. b \in Seq(Flags) /\ Len(b) \in Nat
    BY <1>1, LengthOf DEF RouterInv, TypeOK, InOK
  <2>2. CASE c = b
    <3> HIDE DEF b, c
    <3>1. Len(c) >= Len(b)
      BY <2>1, <2>2
    <3> QED
      BY <3>1 DEF b, c
  <2>3. CASE InputUnits
    <3>1. CASE c # b
      <4>1. PICK x : x \in Flags /\ c = Append(b, x)
        BY <1>1, <2>3, <3>1, ArrivalAppends
      <4> HIDE DEF b, c
      <4>2. Len(c) = Len(b) + 1
        BY <2>1, <4>1, AppendTo
      <4>3. Len(c) >= Len(b)
        BY <2>1, <4>2
      <4> QED
        BY <4>3 DEF b, c
    <3> QED
      BY <2>2, <3>1
  <2>4. CASE SwitchAllocator
    <3>1. ~Won(i, v)
      BY <1>1, <2>4, NoOvertaking
    <3>2. c = b
      BY <2>4, <3>1, Allocated
    <3> QED
      BY <2>2, <3>2
  <2>5. CASE Tick
    <3>1. c = [k \in DOMAIN b |-> Waited(b[k])]
      BY <2>5 DEF Tick
    <3> HIDE DEF b, c
    <3>2. Len(c) = Len(b)
      BY <2>1, <3>1, WaitedBuffer
    <3>3. Len(c) >= Len(b)
      BY <2>1, <3>2
    <3> QED
      BY <3>3 DEF b, c
  <2>6. CASE ~InputUnits /\ ~SwitchAllocator /\ ~Tick
    <3>1. buffer' = buffer
      BY <1>1, <2>6 DEF Next, HeadArrives, FlitArrives, CreditArrives, Wake, OutputUnits,
                        Crossbar, inVars, vars
    <3> QED
      BY <2>2, <3>1
  <2> QED
    BY <2>3, <2>4, <2>5, <2>6
<1> HIDE DEF Kept
<1>2. Spec => [][Kept]_vars
  BY <1>1, RouterInit, RouterStep, OrderInit, OrderStep, PTL DEF Spec
<1> QED
  BY <1>2 DEF OrderedFlows, Kept

=============================================================================
