----------------------- MODULE NetworkInterfaceProofs -----------------------
(***************************************************************************)
(* What holds of a network interface for every number of vnets, VCs and    *)
(* ports, every depth and every packet length: it does not sleep on work,  *)
(* its credit links do not sleep on credits, every flit is exchanged for   *)
(* its credit, a VC carries one packet at a time, an ordered vnet keeps    *)
(* the order of its messages, and each destination gets one copy.          *)
(***************************************************************************)
EXTENDS NetworkInterface, DataTheorems

-----------------------------------------------------------------------------
(* The interface stays awake                                               *)

Work ==
    \/ \E n \in Vnets : Waiting(n)
    \/ \E v \in VCs : niOutVcs[v] # << >>
    \/ \E p \in InPorts : inFlits[p] # << >>

(* Work left at the end of a tick has its wakeup in the next one.          *)
AwakeInv ==
    /\ stage = "step" /\ Work => 0 \in scheduled
    /\ stage = "done" /\ Work => 1 \in scheduled

LEMMA AwakeStep == AwakeInv /\ [Next]_vars => AwakeInv'
<1> SUFFICES ASSUME AwakeInv, [Next]_vars PROVE AwakeInv'
  OBVIOUS
<1> USE DEF AwakeInv
<1>1. ASSUME NEW n \in Vnets, NEW D \in (SUBSET Nodes) \ {{}}, NEW k \in 1 .. MaxFlits,
             Enqueue(n, SetToSeq(D), k)
      PROVE  AwakeInv'
  BY <1>1 DEF Enqueue
<1>2. ASSUME NEW v \in VCs, CreditArrives(v) PROVE AwakeInv'
  BY <1>2 DEF CreditArrives
<1>3. ASSUME NEW p \in InPorts, NEW v \in VCs, NEW tail \in BOOLEAN, FlitArrives(p, v, tail)
      PROVE  AwakeInv'
  BY <1>3 DEF FlitArrives
<1>4. ASSUME NEW p \in InPorts, CreditLinkWakeup(p) PROVE AwakeInv'
  BY <1>4 DEF CreditLinkWakeup, outVars, Work, Waiting
<1>5. CASE Wake
  BY <1>5 DEF Wake, outVars, inVars, Work, Waiting
<1>6. CASE TakeMessages
  BY <1>6 DEF TakeMessages
<1>7. CASE ScheduleOutputLink
  BY <1>7 DEF ScheduleOutputLink
<1>8. CASE EjectFlits
  BY <1>8 DEF EjectFlits
<1>9. CASE TakeCredits
  <2>1. Work' <=> Work
    BY <1>9 DEF TakeCredits, Work, Waiting
  <2>2. Work => 1 \in scheduled'
    BY <1>9 DEF TakeCredits, Reschedules, Work
  <2> QED
    BY <1>9, <2>1, <2>2 DEF TakeCredits
<1>10. CASE Tick
  <2>1. Work' <=> Work
    BY <1>10 DEF Tick, outVars, Work, Waiting
  <2>2. 1 \in scheduled => 1 - 1 \in scheduled'
    BY <1>10 DEF Tick
  <2> QED
    BY <1>10, <2>1, <2>2 DEF Tick
<1>11. CASE UNCHANGED vars
  BY <1>11 DEF vars, Work, Waiting
<1> QED
  BY <1>1, <1>2, <1>3, <1>4, <1>5, <1>6, <1>7, <1>8, <1>9, <1>10, <1>11 DEF Next

(* A wakeup is scheduled in every tick in which a message, a flit to send  *)
(* or a flit that came in waits (StaysAwake): checkReschedule forgets no   *)
(* reason to wake again.                                                   *)
THEOREM NeverAsleep == Spec => []StaysAwake
<1>1. Init => AwakeInv
  BY DEF Init, AwakeInv, Work, Waiting
<1>2. AwakeInv => StaysAwake
  BY DEF AwakeInv, StaysAwake, Work
<1> QED
  BY <1>1, <1>2, AwakeStep, PTL DEF Spec

-----------------------------------------------------------------------------
(* The receiving side                                                      *)

(* Credits in the queue of an input port, and the wakeups of its link: at  *)
(* most one from an earlier tick, which the link takes in this one before  *)
(* or after the interface adds another.                                    *)
AwakeWith(part, n, wakes) ==
    /\ part \in {"step", "messages", "output", "eject"} => n <= 1 /\ (n = 1 => 0 \in wakes)
    /\ part = "credits" => n <= 2 /\ (n = 2 => 0 \in wakes)
    /\ part = "done" =>
         n <= 2 /\ (n = 2 => wakes = {0, 1}) /\ (n = 1 => wakes # {})
LinkAwake(p) == AwakeWith(stage, Len(outCredits[p]), linkWakes[p])
LinkInv == \A p \in InPorts : LinkAwake(p)

(* The flits taken are all that arrived but the one still on the link; the *)
(* credits given are theirs, in order.                                     *)
Taken(p) == Len(arrived[p]) - Len(inFlits[p])
LastWaits(p) ==
    /\ Len(inFlits[p]) <= 1 /\ Len(arrived[p]) <= MaxArrivals
    /\ inFlits[p] # << >> =>
         Len(arrived[p]) > 0 /\ inFlits[p][1] = arrived[p][Len(arrived[p])]
Exchanged(p) ==
    /\ returned[p] + Len(outCredits[p]) = Taken(p)
    /\ \A i \in 1 .. Len(outCredits[p]) :
         outCredits[p][i] = CreditFor(arrived[p][returned[p] + i])
ExchangeInv == \A p \in InPorts : LastWaits(p) /\ Exchanged(p)

InInv == InTypeOK /\ LinkInv /\ ExchangeInv

(* The four steps that change a link: its own, and those of the interface  *)
(* and of time.                                                            *)
LEMMA LinkTakes ==
    ASSUME NEW part \in {"step", "done"}, NEW n \in Nat, NEW wakes \in SUBSET {0, 1},
           AwakeWith(part, n, wakes), 0 \in wakes
    PROVE  AwakeWith(part, IF n = 0 THEN 0 ELSE n - 1,
                     (wakes \ {0}) \cup (IF n > 1 THEN {1} ELSE {}))
<1>1. CASE part = "step"
  BY <1>1 DEF AwakeWith
<1>2. CASE part = "done"
  <2>1. n \in 0 .. 2
    BY <1>2 DEF AwakeWith
  <2>2. CASE n = 2
    BY <1>2, <2>2 DEF AwakeWith
  <2>3. CASE n \in 0 .. 1
    BY <1>2, <2>3 DEF AwakeWith
  <2> QED
    BY <2>1, <2>2, <2>3
<1> QED
  BY <1>1, <1>2

LEMMA LinkIsGiven ==
    ASSUME NEW n \in Nat, NEW wakes, NEW k \in {n, n + 1}, AwakeWith("eject", n, wakes)
    PROVE  AwakeWith("credits", k, wakes)
BY DEF AwakeWith

LEMMA LinkIsWoken ==
    ASSUME NEW n \in Nat, NEW wakes \in SUBSET {0, 1}, AwakeWith("credits", n, wakes)
    PROVE  AwakeWith("done", n, wakes \cup (IF n > 0 THEN {1} ELSE {}))
<1>1. n \in 0 .. 2
  BY DEF AwakeWith
<1>2. CASE n = 0
  BY <1>2 DEF AwakeWith
<1>3. CASE n = 1
  <2>1. 1 \in wakes \cup (IF n > 0 THEN {1} ELSE {})
    BY <1>3
  <2> QED
    BY <1>3, <2>1 DEF AwakeWith
<1>4. CASE n = 2
  <2>1. 0 \in wakes
    BY <1>4 DEF AwakeWith
  <2>2. (IF n > 0 THEN {1} ELSE {}) = {1}
    BY <1>4
  <2>3. wakes \cup (IF n > 0 THEN {1} ELSE {}) = {0, 1}
    BY <2>1, <2>2
  <2> QED
    BY <1>4, <2>3 DEF AwakeWith
<1> QED
  BY <1>1, <1>2, <1>3, <1>4

LEMMA LinkTicks ==
    ASSUME NEW n \in Nat, NEW wakes \in SUBSET {0, 1}, AwakeWith("done", n, wakes),
           0 \notin wakes
    PROVE  AwakeWith("step", n, {d - 1 : d \in wakes})
<1>1. n <= 1
  BY DEF AwakeWith
<1>2. n = 1 => 1 \in wakes
  BY DEF AwakeWith
<1>3. 1 \in wakes => 0 \in {d - 1 : d \in wakes}
  BY 1 - 1 = 0
<1> QED
  BY <1>1, <1>2, <1>3 DEF AwakeWith

LEMMA InInit == Init => InInv
<1> SUFFICES ASSUME Init PROVE InInv
  OBVIOUS
<1>1. << >> \in Seq(InFlit) /\ << >> \in Seq(OutCredit) /\ Len(<< >>) = 0
  BY EmptySeq
<1> QED
  BY <1>1, InPortsAssumption
  DEF Init, InInv, InTypeOK, LinkInv, LinkAwake, AwakeWith, ExchangeInv, LastWaits, Exchanged, Taken

LEMMA InStepUnchanged ==
    ASSUME InInv, UNCHANGED inVars, stage' \in {"step", "messages", "output", "eject", "done"},
           stage \in {"step", "messages", "output"},
           stage' = "step" => stage = "step"
    PROVE  InInv'
<1> USE DEF InInv
<1>1. InTypeOK'
  BY DEF InTypeOK, inVars
<1>2. LinkInv'
  <2> SUFFICES ASSUME NEW p \in InPorts PROVE LinkAwake(p)'
    BY DEF LinkInv
  <2> DEFINE n == Len(outCredits[p])
  <2>1. n \in Nat /\ AwakeWith(stage, n, linkWakes[p])
    BY LengthOf DEF InTypeOK, LinkInv, LinkAwake
  <2>2. outCredits' = outCredits /\ linkWakes' = linkWakes
    BY DEF inVars
  <2> HIDE DEF n
  <2>3. AwakeWith(stage', n, linkWakes[p])
    BY <2>1 DEF AwakeWith
  <2> QED
    BY <2>2, <2>3 DEF LinkAwake, n
<1>3. ExchangeInv'
  BY DEF ExchangeInv, LastWaits, Exchanged, inVars, Taken
<1> QED
  BY <1>1, <1>2, <1>3

LEMMA InStepFlitArrives ==
    ASSUME InInv, NEW p \in InPorts, NEW v \in VCs, NEW tail \in BOOLEAN,
           FlitArrives(p, v, tail)
    PROVE  InInv'
<1> DEFINE f == [vc |-> v, tail |-> tail]
<1> USE DEF InInv
<1>1. /\ stage = "step" /\ stage' = stage
      /\ inFlits[p] = << >> /\ Len(arrived[p]) < MaxArrivals
      /\ inFlits' = [inFlits EXCEPT ![p] = <<f>>]
      /\ arrived' = [arrived EXCEPT ![p] = Append(@, f)]
      /\ UNCHANGED <<outCredits, returned, linkWakes, toProtocol>>
  BY DEF FlitArrives
<1>2. f \in InFlit
  BY DEF InFlit
<1>3. /\ <<f>> \in Seq(InFlit) /\ Len(<<f>>) = 1 /\ <<f>>[1] = f
      /\ Append(arrived[p], f) \in Seq(InFlit)
      /\ Len(arrived[p]) \in Nat /\ Len(Append(arrived[p], f)) = Len(arrived[p]) + 1
      /\ \A i \in 1 .. Len(arrived[p]) : Append(arrived[p], f)[i] = arrived[p][i]
      /\ Append(arrived[p], f)[Len(arrived[p]) + 1] = f
  BY <1>2, AppendTo, OneElement DEF InTypeOK
<1>4. InTypeOK'
  BY <1>1, <1>3 DEF InTypeOK
<1>5. LinkInv'
  BY <1>1 DEF LinkInv, LinkAwake
<1>6. ExchangeInv'
  <2> SUFFICES ASSUME NEW q \in InPorts PROVE LastWaits(q)' /\ Exchanged(q)'
    BY DEF ExchangeInv
  <2>1. CASE q # p
    BY <1>1, <2>1 DEF ExchangeInv, LastWaits, Exchanged, InTypeOK, Taken
  <2>2. CASE q = p
    <3>1. arrived'[p] = Append(arrived[p], f) /\ inFlits'[p] = <<f>>
      BY <1>1 DEF InTypeOK
    <3>2. /\ Len(inFlits[p]) = 0 /\ Len(outCredits[p]) \in Nat /\ returned[p] \in Nat
          /\ Len(arrived'[p]) = Len(arrived[p]) + 1 /\ Len(inFlits'[p]) = 1
      BY <1>1, <1>3, <3>1, LengthOf DEF InTypeOK
    <3>3. returned[p] + Len(outCredits[p]) = Len(arrived[p])
      <4>1. Exchanged(p) /\ Len(arrived[p]) \in Nat
        BY <1>3 DEF ExchangeInv
      <4> QED
        BY <4>1, <3>2 DEF Exchanged, Taken
    <3>4. \A i \in 1 .. Len(outCredits[p]) : arrived'[p][returned[p] + i] = arrived[p][returned[p] + i]
      BY <1>3, <3>1, <3>2, <3>3
    <3>5. Taken(p)' = Taken(p)
      BY <1>3, <3>2 DEF Taken
    <3>6. LastWaits(p)'
      BY <1>1, <1>3, <3>1, <3>2, InPortsAssumption DEF LastWaits
    <3>7. Exchanged(p)'
      BY <1>1, <3>3, <3>4, <3>5 DEF ExchangeInv, Exchanged
    <3> QED
      BY <2>2, <3>6, <3>7
  <2> QED
    BY <2>1, <2>2
<1> QED
  BY <1>4, <1>5, <1>6

LEMMA InStepCreditLink ==
    ASSUME InInv, NEW p \in InPorts, CreditLinkWakeup(p)
    PROVE  InInv'
<1> USE DEF InInv
<1>1. /\ stage \in {"step", "done"} /\ stage' = stage /\ 0 \in linkWakes[p]
      /\ UNCHANGED <<arrived, inFlits, toProtocol>>
      /\ outCredits' = [outCredits EXCEPT ![p] = IF @ = << >> THEN @ ELSE Tail(@)]
      /\ returned' = [returned EXCEPT ![p] = IF outCredits[p] = << >> THEN @ ELSE @ + 1]
      /\ linkWakes' = [linkWakes EXCEPT ![p] =
           (@ \ {0}) \cup (IF Len(outCredits[p]) > 1 THEN {1} ELSE {})]
  BY DEF CreditLinkWakeup
<1>2. Len(outCredits[p]) \in Nat /\ (outCredits[p] # << >> <=> Len(outCredits[p]) > 0)
  BY LengthOf DEF InTypeOK
<1>3. outCredits[p] # << >> =>
        /\ Tail(outCredits[p]) \in Seq(OutCredit)
        /\ Len(Tail(outCredits[p])) = Len(outCredits[p]) - 1
        /\ \A i \in 1 .. Len(outCredits[p]) - 1 : Tail(outCredits[p])[i] = outCredits[p][i + 1]
  BY TakeFrom DEF InTypeOK
<1>4. InTypeOK'
  BY <1>1, <1>3 DEF InTypeOK
<1>5. LinkInv'
  <2> SUFFICES ASSUME NEW q \in InPorts PROVE LinkAwake(q)'
    BY DEF LinkInv
  <2>1. CASE q # p
    BY <1>1, <2>1 DEF LinkInv, LinkAwake, InTypeOK
  <2>2. CASE q = p
    <3>1. outCredits'[p] = IF outCredits[p] = << >> THEN outCredits[p] ELSE Tail(outCredits[p])
      BY <1>1 DEF InTypeOK
    <3>2. linkWakes'[p] = (linkWakes[p] \ {0}) \cup (IF Len(outCredits[p]) > 1 THEN {1} ELSE {})
      BY <1>1 DEF InTypeOK
    <3> DEFINE n == Len(outCredits[p])
               k == Len(outCredits'[p])
    <3>3. n \in Nat /\ k = (IF n = 0 THEN 0 ELSE n - 1)
      BY <1>2, <1>3, <3>1
    <3>4. linkWakes[p] \in SUBSET {0, 1} /\ AwakeWith(stage, n, linkWakes[p])
      BY DEF InTypeOK, LinkInv, LinkAwake
    <3>5. linkWakes'[p] = (linkWakes[p] \ {0}) \cup (IF n > 1 THEN {1} ELSE {})
      BY <3>2
    <3> HIDE DEF n, k
    <3>6. stage \in {"step", "done"} /\ 0 \in linkWakes[p]
      BY <1>1
    <3>7. AwakeWith(stage, IF n = 0 THEN 0 ELSE n - 1,
                    (linkWakes[p] \ {0}) \cup (IF n > 1 THEN {1} ELSE {}))
      BY <3>3, <3>4, <3>6, LinkTakes
    <3>8. AwakeWith(stage, k, linkWakes'[p])
      BY ONLY <3>3, <3>5, <3>7
    <3> QED
      BY <1>1, <2>2, <3>8 DEF LinkAwake, k
  <2> QED
    BY <2>1, <2>2
<1>6. ExchangeInv'
  <2> SUFFICES ASSUME NEW q \in InPorts PROVE LastWaits(q)' /\ Exchanged(q)'
    BY DEF ExchangeInv
  <2>1. CASE q # p \/ outCredits[p] = << >>
    <3>1. outCredits'[q] = outCredits[q] /\ returned'[q] = returned[q]
      BY <1>1, <2>1 DEF InTypeOK
    <3> QED
      BY <1>1, <3>1 DEF ExchangeInv, LastWaits, Exchanged, Taken
  <2>2. CASE q = p /\ outCredits[p] # << >>
    <3>1. outCredits'[p] = Tail(outCredits[p]) /\ returned'[p] = returned[p] + 1
      BY <1>1, <2>2 DEF InTypeOK
    <3>2. returned[p] \in Nat /\ Taken(p)' = Taken(p)
      BY <1>1 DEF InTypeOK, Taken
    <3>3. returned'[p] + Len(outCredits'[p]) = Taken(p)'
      BY <1>2, <1>3, <2>2, <3>1, <3>2 DEF ExchangeInv, Exchanged
    <3>4. ASSUME NEW i \in 1 .. Len(outCredits'[p])
          PROVE  /\ outCredits'[p][i] = outCredits[p][i + 1]
                 /\ i + 1 \in 1 .. Len(outCredits[p])
                 /\ returned'[p] + i = returned[p] + (i + 1)
      BY <1>2, <1>3, <2>2, <3>1, <3>2
    <3>5. Exchanged(p)'
      BY <1>1, <3>3, <3>4 DEF ExchangeInv, Exchanged
    <3>6. LastWaits(p)'
      BY <1>1 DEF ExchangeInv, LastWaits
    <3> QED
      BY <2>2, <3>5, <3>6
  <2> QED
    BY <2>1, <2>2
<1> QED
  BY <1>4, <1>5, <1>6

LEMMA InStepEject ==
    ASSUME InInv, EjectFlits
    PROVE  InInv'
<1> USE DEF InInv
<1>1. /\ stage = "eject" /\ stage' = "credits"
      /\ UNCHANGED <<arrived, returned, linkWakes>>
      /\ inFlits' = [p \in InPorts |-> IF p \in Ejecting THEN Tail(inFlits[p]) ELSE << >>]
      /\ outCredits' = [p \in InPorts |->
           IF p \in Ejecting THEN Append(outCredits[p], CreditFor(Head(inFlits[p])))
           ELSE outCredits[p]]
  BY DEF EjectFlits
<1>2. ASSUME NEW p \in InPorts, p \in Ejecting
      PROVE  /\ inFlits'[p] = << >> /\ inFlits'[p] \in Seq(InFlit)
             /\ Len(inFlits[p]) = 1 /\ Len(inFlits'[p]) = 0
             /\ Head(inFlits[p]) \in InFlit
             /\ Head(inFlits[p]) = arrived[p][Len(arrived[p])]
             /\ Len(arrived[p]) \in Nat /\ Len(arrived[p]) > 0
  <2> DEFINE n == Len(inFlits[p])
  <2>1. inFlits[p] # << >> /\ inFlits[p] \in Seq(InFlit) /\ inFlits'[p] = Tail(inFlits[p])
    BY <1>1, <1>2 DEF Ejecting, InTypeOK
  <2>2. n \in Nat \ {0} /\ Len(inFlits'[p]) = n - 1 /\ inFlits'[p] \in Seq(InFlit)
    BY <2>1, TakeFrom
  <2>3. n <= 1
    BY DEF ExchangeInv, LastWaits
  <2>4. Head(inFlits[p]) \in InFlit /\ Head(inFlits[p]) = inFlits[p][1]
    BY <2>1, TakeFrom
  <2>5. Len(arrived[p]) \in Nat
    BY LengthOf DEF InTypeOK
  <2>6. Len(arrived[p]) > 0 /\ inFlits[p][1] = arrived[p][Len(arrived[p])]
    BY <2>1 DEF ExchangeInv, LastWaits
  <2> HIDE DEF n
  <2>7. n = 1 /\ n - 1 = 0
    BY <2>2, <2>3
  <2>8. Len(inFlits'[p]) = 0
    BY <2>2, <2>7
  <2>9. inFlits'[p] = << >>
    BY <2>2, <2>8, LengthOf
  <2> QED
    BY <2>2, <2>4, <2>5, <2>6, <2>7, <2>8, <2>9 DEF n
<1>3. ASSUME NEW p \in InPorts, p \notin Ejecting
      PROVE  inFlits'[p] = << >> /\ inFlits[p] = << >> /\ outCredits'[p] = outCredits[p]
  BY <1>1, <1>3 DEF Ejecting
<1>4. ASSUME NEW p \in InPorts, p \in Ejecting
      PROVE  /\ outCredits'[p] = Append(outCredits[p], CreditFor(Head(inFlits[p])))
             /\ outCredits[p] \in Seq(OutCredit) /\ CreditFor(Head(inFlits[p])) \in OutCredit
  BY <1>1, <1>2, <1>4 DEF CreditFor, InFlit, OutCredit, InTypeOK
<1>5. InTypeOK'
  <2>1. << >> \in Seq(InFlit)
    OBVIOUS
  <2>2. inFlits' \in [InPorts -> Seq(InFlit)]
    BY <1>1, <1>2, <1>3, <2>1
  <2>3. outCredits' \in [InPorts -> Seq(OutCredit)]
    <3>1. ASSUME NEW p \in InPorts PROVE outCredits'[p] \in Seq(OutCredit)
      <4>1. CASE p \in Ejecting
        <5>1. /\ outCredits'[p] = Append(outCredits[p], CreditFor(Head(inFlits[p])))
              /\ outCredits[p] \in Seq(OutCredit)
              /\ CreditFor(Head(inFlits[p])) \in OutCredit
          BY <1>4, <4>1
        <5> QED
          BY <5>1, AppendTo
      <4>2. CASE p \notin Ejecting
        BY <1>3, <4>2 DEF InTypeOK
      <4> QED
        BY <4>1, <4>2
    <3> QED
      BY <1>1, <3>1
  <2>4. toProtocol' \in [Vnets -> Nat]
    <3>1. ASSUME NEW n \in Vnets
          PROVE  Cardinality({p \in Ejecting : Head(inFlits[p]).tail
                                /\ VnetOf(Head(inFlits[p]).vc) = n}) \in Nat
      <4>1. IsFiniteSet(InPorts)
        BY FS_Interval, InPortsAssumption DEF InPorts
      <4>2. {p \in Ejecting : Head(inFlits[p]).tail
                                /\ VnetOf(Head(inFlits[p]).vc) = n} \subseteq InPorts
        BY DEF Ejecting
      <4> QED
        BY <4>1, <4>2, FS_Subset, FS_CardinalityType
    <3> DEFINE N(n) == Cardinality({p \in Ejecting : Head(inFlits[p]).tail
                                /\ VnetOf(Head(inFlits[p]).vc) = n})
    <3>2. toProtocol' = [n \in Vnets |-> toProtocol[n] + N(n)] /\ toProtocol \in [Vnets -> Nat]
      BY DEF EjectFlits, InTypeOK
    <3>3. \A n \in Vnets : N(n) \in Nat
      BY <3>1
    <3> HIDE DEF N
    <3> QED
      BY <3>2, <3>3
  <2> QED
    BY <1>1, <2>2, <2>3, <2>4 DEF InTypeOK
<1>6. LinkInv'
  <2> SUFFICES ASSUME NEW p \in InPorts PROVE LinkAwake(p)'
    BY DEF LinkInv
  <2> DEFINE n == Len(outCredits[p])
             k == Len(outCredits'[p])
  <2>1. n \in Nat /\ k \in {n, n + 1}
    BY <1>3, <1>4, AppendTo, LengthOf DEF InTypeOK
  <2>2. AwakeWith("eject", n, linkWakes[p])
    BY <1>1 DEF LinkInv, LinkAwake
  <2> HIDE DEF n, k
  <2>3. AwakeWith("credits", k, linkWakes[p])
    BY <2>1, <2>2, LinkIsGiven
  <2> QED
    BY <1>1, <2>3 DEF LinkAwake, k
<1>7. ExchangeInv'
  <2> SUFFICES ASSUME NEW p \in InPorts PROVE LastWaits(p)' /\ Exchanged(p)'
    BY DEF ExchangeInv
  <2>1. LastWaits(p)'
    <3>1. Len(inFlits'[p]) = 0 /\ inFlits'[p] = << >>
      BY <1>2, <1>3
    <3> QED
      BY <1>1, <3>1 DEF ExchangeInv, LastWaits
  <2>2. CASE p \notin Ejecting
    <3>1. /\ inFlits'[p] = inFlits[p] /\ arrived'[p] = arrived[p] /\ returned'[p] = returned[p]
          /\ outCredits'[p] = outCredits[p]
      BY <1>1, <1>3, <2>2
    <3>2. Exchanged(p)'
      BY <3>1 DEF ExchangeInv, Exchanged, Taken
    <3> QED
      BY <2>1, <3>2
  <2>3. CASE p \in Ejecting
    <3> DEFINE n == Len(outCredits[p])
               k == Len(outCredits'[p])
               a == Len(arrived[p])
               r == returned[p]
    <3>1. n \in Nat /\ a \in Nat \ {0} /\ r \in Nat
      BY <1>2, <2>3, LengthOf DEF InTypeOK
    <3>2. Len(inFlits[p]) = 1 /\ Len(inFlits'[p]) = 0
      BY <1>2, <2>3
    <3>3. r + n = a - 1 /\ Taken(p)' = a - 0
      BY <1>1, <3>2 DEF ExchangeInv, Exchanged, Taken
    <3>4. k = n + 1
      BY <1>4, <2>3, AppendTo
    <3>5. \A i \in 1 .. n : outCredits'[p][i] = CreditFor(arrived[p][r + i])
      BY <1>4, <2>3, AppendTo DEF ExchangeInv, Exchanged
    <3>6. outCredits'[p][n + 1] = CreditFor(arrived[p][a])
      BY <1>2, <1>4, <2>3, AppendTo
    <3>7. Exchanged(p)' <=>
            /\ r + k = Taken(p)'
            /\ \A i \in 1 .. k : outCredits'[p][i] = CreditFor(arrived[p][r + i])
      BY <1>1 DEF Exchanged
    <3> HIDE DEF n, k, a, r
    <3>8. r + (n + 1) = a /\ a - 0 = a
      BY <3>1, <3>3
    <3>9. \A i \in 1 .. n + 1 : outCredits'[p][i] = CreditFor(arrived[p][r + i])
      BY <3>1, <3>5, <3>6, <3>8
    <3>10. r + k = Taken(p)'
      BY <3>3, <3>4, <3>8
    <3>11. \A i \in 1 .. k : outCredits'[p][i] = CreditFor(arrived[p][r + i])
      BY <3>4, <3>9
    <3> QED
      BY <2>1, <3>7, <3>10, <3>11
  <2> QED
    BY <2>1, <2>2, <2>3
<1> QED
  BY <1>5, <1>6, <1>7

LEMMA InStepTakeCredits ==
    ASSUME InInv, TakeCredits
    PROVE  InInv'
<1> USE DEF InInv
<1>1. /\ stage = "credits" /\ stage' = "done"
      /\ UNCHANGED <<arrived, inFlits, outCredits, returned, toProtocol>>
      /\ linkWakes' = [p \in InPorts |-> linkWakes[p] \cup WakesLink(p)]
  BY DEF TakeCredits
<1>2. InTypeOK'
  BY <1>1 DEF InTypeOK, WakesLink
<1>3. LinkInv'
  <2> SUFFICES ASSUME NEW p \in InPorts PROVE LinkAwake(p)'
    BY DEF LinkInv
  <2> DEFINE n == Len(outCredits[p])
  <2>1. n \in Nat /\ AwakeWith("credits", n, linkWakes[p]) /\ linkWakes[p] \in SUBSET {0, 1}
    BY <1>1, LengthOf DEF InTypeOK, LinkInv, LinkAwake
  <2>2. linkWakes'[p] = linkWakes[p] \cup (IF n > 0 THEN {1} ELSE {})
    BY <1>1, LengthOf DEF InTypeOK, WakesLink
  <2> HIDE DEF n
  <2>3. AwakeWith("done", n, linkWakes[p] \cup (IF n > 0 THEN {1} ELSE {}))
    BY <2>1, LinkIsWoken
  <2>4. AwakeWith("done", n, linkWakes'[p])
    BY ONLY <2>2, <2>3
  <2> QED
    BY <1>1, <2>4 DEF LinkAwake, n
<1>4. ExchangeInv'
  BY <1>1 DEF ExchangeInv, LastWaits, Exchanged, Taken
<1> QED
  BY <1>2, <1>3, <1>4

LEMMA InStepTick ==
    ASSUME InInv, Tick
    PROVE  InInv'
<1> USE DEF InInv
<1>1. /\ stage = "done" /\ stage' = "step" /\ \A p \in InPorts : 0 \notin linkWakes[p]
      /\ UNCHANGED <<arrived, inFlits, outCredits, returned, toProtocol>>
      /\ linkWakes' = [p \in InPorts |-> {d - 1 : d \in linkWakes[p]}]
  BY DEF Tick
<1>2. InTypeOK'
  <2>1. ASSUME NEW p \in InPorts PROVE linkWakes'[p] \in SUBSET {0, 1}
    <3>1. linkWakes'[p] = {d - 1 : d \in linkWakes[p]} /\ \A d \in linkWakes[p] : d = 1
      BY <1>1 DEF InTypeOK
    <3> QED
      BY <3>1
  <2> QED
    BY <1>1, <2>1 DEF InTypeOK
<1>3. LinkInv'
  <2> SUFFICES ASSUME NEW p \in InPorts PROVE LinkAwake(p)'
    BY DEF LinkInv
  <2> DEFINE n == Len(outCredits[p])
  <2>1. n \in Nat /\ AwakeWith("done", n, linkWakes[p]) /\ linkWakes[p] \in SUBSET {0, 1}
    BY <1>1, LengthOf DEF InTypeOK, LinkInv, LinkAwake
  <2>2. 0 \notin linkWakes[p] /\ linkWakes'[p] = {d - 1 : d \in linkWakes[p]}
    BY <1>1
  <2> HIDE DEF n
  <2>3. AwakeWith("step", n, {d - 1 : d \in linkWakes[p]})
    BY <2>1, <2>2, LinkTicks
  <2> QED
    BY <1>1, <2>2, <2>3 DEF LinkAwake, n
<1>4. ExchangeInv'
  BY <1>1 DEF ExchangeInv, LastWaits, Exchanged, Taken
<1> QED
  BY <1>2, <1>3, <1>4

LEMMA InStep == InInv /\ [Next]_vars => InInv'
<1> SUFFICES ASSUME InInv, [Next]_vars PROVE InInv'
  OBVIOUS
<1>1. ASSUME NEW n \in Vnets, NEW D \in (SUBSET Nodes) \ {{}}, NEW k \in 1 .. MaxFlits,
             Enqueue(n, SetToSeq(D), k)
      PROVE  InInv'
  BY <1>1, InStepUnchanged DEF Enqueue
<1>2. ASSUME NEW v \in VCs, CreditArrives(v) PROVE InInv'
  BY <1>2, InStepUnchanged DEF CreditArrives
<1>3. ASSUME NEW p \in InPorts, NEW v \in VCs, NEW tail \in BOOLEAN, FlitArrives(p, v, tail)
      PROVE  InInv'
  BY <1>3, InStepFlitArrives
<1>4. ASSUME NEW p \in InPorts, CreditLinkWakeup(p) PROVE InInv'
  BY <1>4, InStepCreditLink
<1>5. CASE Wake
  BY <1>5, InStepUnchanged DEF Wake
<1>6. CASE TakeMessages
  BY <1>6, InStepUnchanged DEF TakeMessages
<1>7. CASE ScheduleOutputLink
  BY <1>7, InStepUnchanged DEF ScheduleOutputLink
<1>8. CASE EjectFlits
  BY <1>8, InStepEject
<1>9. CASE TakeCredits
  BY <1>9, InStepTakeCredits
<1>10. CASE Tick
  BY <1>10, InStepTick
<1>11. CASE UNCHANGED vars
  BY <1>11 DEF vars, InInv, InTypeOK, LinkInv, LinkAwake, ExchangeInv, LastWaits, Exchanged, Taken
<1> QED
  BY <1>1, <1>2, <1>3, <1>4, <1>5, <1>6, <1>7, <1>8, <1>9, <1>10, <1>11 DEF Next

LEMMA InAlways == Spec => []InInv
BY InInit, InStep, PTL DEF Spec

(* A credit never waits at an input port with its credit link asleep       *)
(* (CreditsMove), although the link runs before or after the interface in  *)
(* the tick and is woken by the interface and by itself.                   *)
THEOREM CreditsKeepMoving == Spec => []CreditsMove
<1>1. InInv => CreditsMove
  <2> SUFFICES ASSUME InInv, stage = "step", NEW p \in InPorts, outCredits[p] # << >>
               PROVE  0 \in linkWakes[p]
    BY DEF CreditsMove
  <2> DEFINE n == Len(outCredits[p])
  <2>1. n \in Nat /\ n > 0 /\ AwakeWith("step", n, linkWakes[p])
    BY LengthOf DEF InInv, InTypeOK, LinkInv, LinkAwake
  <2> HIDE DEF n
  <2> QED
    BY <2>1 DEF AwakeWith
<1> QED
  BY <1>1, InAlways, PTL

-----------------------------------------------------------------------------
(* The messages handed to the protocol                                     *)

(* The tails of vnet n on the links now, and their places in what arrived. *)
TailsNow(n) == {p \in Ejecting : Head(inFlits[p]).tail /\ VnetOf(Head(inFlits[p]).vc) = n}
Places(n) == {<<p, Len(arrived[p])>> : p \in TailsNow(n)}

LEMMA TailsFinite ==
    /\ \A n \in Vnets : TailsNow(n) \subseteq InPorts /\ IsFiniteSet(TailsNow(n))
    /\ \A n \in Vnets : IsFiniteSet(TailsEjected(n))
<1>1. IsFiniteSet(InPorts)
  BY FS_Interval, InPortsAssumption DEF InPorts
<1>2. IsFiniteSet(1 .. MaxArrivals)
  BY FS_Interval, InPortsAssumption
<1>3. IsFiniteSet(InPorts \X (1 .. MaxArrivals))
  BY <1>1, <1>2, FS_Product
<1>4. \A n \in Vnets : TailsNow(n) \subseteq InPorts
  BY DEF TailsNow, Ejecting
<1>5. \A n \in Vnets : TailsEjected(n) \subseteq InPorts \X (1 .. MaxArrivals)
  BY DEF TailsEjected
<1> QED
  BY <1>1, <1>3, <1>4, <1>5, FS_Subset

LEMMA PlacesCount ==
    ASSUME NEW n \in Vnets
    PROVE  IsFiniteSet(Places(n)) /\ Cardinality(Places(n)) = Cardinality(TailsNow(n))
<1> DEFINE S == TailsNow(n)
           f == [p \in S |-> <<p, Len(arrived[p])>>]
<1>1. IsFiniteSet(S)
  BY TailsFinite
<1>2. f \in Bijection(S, Places(n))
  <2>1. f \in [S -> Places(n)]
    BY DEF Places
  <2>2. \A a, b \in S : f[a] = f[b] => a = b
    OBVIOUS
  <2>3. \A e \in Places(n) : \E a \in S : f[a] = e
    BY DEF Places
  <2> QED
    BY <2>1, <2>2, <2>3 DEF Bijection, Injection, Surjection, IsInjective
<1> QED
  BY <1>1, <1>2, FS_Bijection DEF ExistsBijection

(* A step that leaves the flits taken so far alone leaves their tails.     *)
LEMMA SameTails ==
    ASSUME \A q \in InPorts : Taken(q)' = Taken(q),
           \A q \in InPorts : \A i \in 1 .. MaxArrivals :
             i <= Taken(q) => arrived'[q][i] = arrived[q][i],
           NEW n
    PROVE  TailsEjected(n)' = TailsEjected(n)
<1>1. \A e \in InPorts \X (1 .. MaxArrivals) : e[1] \in InPorts /\ e[2] \in 1 .. MaxArrivals
  OBVIOUS
<1>2. TailsEjected(n) =
        {e \in InPorts \X (1 .. MaxArrivals) :
           e[2] <= Taken(e[1]) /\ arrived[e[1]][e[2]].tail /\ VnetOf(arrived[e[1]][e[2]].vc) = n}
  BY DEF TailsEjected, Taken
<1>3. TailsEjected(n)' =
        {e \in InPorts \X (1 .. MaxArrivals) :
           e[2] <= Taken(e[1])' /\ arrived'[e[1]][e[2]].tail /\ VnetOf(arrived'[e[1]][e[2]].vc) = n}
  BY DEF TailsEjected, Taken, VnetOf
<1> QED
  BY <1>1, <1>2, <1>3

CountInv == \A n \in Vnets : toProtocol[n] = Cardinality(TailsEjected(n))

LEMMA CountStepEject ==
    ASSUME InInv, CountInv, EjectFlits
    PROVE  CountInv'
<1> SUFFICES ASSUME NEW n \in Vnets
             PROVE  toProtocol'[n] = Cardinality(TailsEjected(n)')
  BY DEF CountInv
<1>1. toProtocol'[n] = Cardinality(TailsEjected(n)) + Cardinality(TailsNow(n))
  BY DEF EjectFlits, CountInv, TailsNow
<1>2. ASSUME NEW p \in InPorts
      PROVE  /\ arrived'[p] = arrived[p]
             /\ Len(arrived[p]) \in 0 .. MaxArrivals
             /\ Taken(p)' = Len(arrived[p])
             /\ p \notin Ejecting => Taken(p) = Len(arrived[p])
             /\ p \in Ejecting =>
                  /\ Taken(p) = Len(arrived[p]) - 1 /\ Len(arrived[p]) > 0
                  /\ Head(inFlits[p]) = arrived[p][Len(arrived[p])]
  <2> DEFINE a == Len(arrived[p])
             k == Len(inFlits[p])
  <2>1. a \in Nat /\ k \in Nat /\ a <= MaxArrivals /\ k <= 1
    BY LengthOf DEF InInv, InTypeOK, ExchangeInv, LastWaits
  <2>2. arrived' = arrived /\ Len(inFlits'[p]) = IF p \in Ejecting THEN k - 1 ELSE 0
    <3>1. CASE p \in Ejecting
      BY <3>1, TakeFrom DEF EjectFlits, Ejecting, InInv, InTypeOK
    <3>2. CASE p \notin Ejecting
      BY <3>2 DEF EjectFlits
    <3> QED
      BY <3>1, <3>2 DEF EjectFlits
  <2>3. p \in Ejecting <=> k > 0
    BY LengthOf DEF Ejecting, InInv, InTypeOK
  <2>4. p \in Ejecting => a > 0 /\ Head(inFlits[p]) = arrived[p][a]
    BY TakeFrom DEF Ejecting, InInv, InTypeOK, ExchangeInv, LastWaits
  <2>5. Taken(p) = a - k /\ Taken(p)' = a - Len(inFlits'[p])
    BY <2>2 DEF Taken
  <2> HIDE DEF a, k
  <2>6. MaxArrivals \in Nat
    BY InPortsAssumption
  <2>7. (p \in Ejecting => k = 1) /\ (p \notin Ejecting => k = 0)
    BY <2>1, <2>3
  <2>8. Taken(p)' = a
    BY <2>1, <2>2, <2>5, <2>7
  <2>9. (p \in Ejecting => Taken(p) = a - 1) /\ (p \notin Ejecting => Taken(p) = a)
    BY <2>1, <2>5, <2>7
  <2> QED
    BY <2>1, <2>2, <2>4, <2>6, <2>8, <2>9 DEF a
<1>3. TailsEjected(n)' = TailsEjected(n) \cup Places(n)
  <2>1. TailsEjected(n) =
          {e \in InPorts \X (1 .. MaxArrivals) :
             e[2] <= Taken(e[1]) /\ arrived[e[1]][e[2]].tail /\ VnetOf(arrived[e[1]][e[2]].vc) = n}
    BY DEF TailsEjected, Taken
  <2>2. TailsEjected(n)' =
          {e \in InPorts \X (1 .. MaxArrivals) :
             e[2] <= Taken(e[1])' /\ arrived'[e[1]][e[2]].tail
             /\ VnetOf(arrived'[e[1]][e[2]].vc) = n}
    BY DEF TailsEjected, Taken, VnetOf
  <2>3. ASSUME NEW p \in InPorts, NEW i \in 1 .. MaxArrivals
        PROVE  <<p, i>> \in Places(n) <=>
                 p \in Ejecting /\ i = Len(arrived[p])
                 /\ arrived[p][i].tail /\ VnetOf(arrived[p][i].vc) = n
    BY <1>2 DEF Places, TailsNow
  <2>4. Places(n) \subseteq InPorts \X (1 .. MaxArrivals)
    <3> SUFFICES ASSUME NEW p \in TailsNow(n)
                 PROVE  p \in InPorts /\ Len(arrived[p]) \in 1 .. MaxArrivals
      BY DEF Places
    <3>1. p \in Ejecting /\ p \in InPorts
      BY DEF TailsNow, Ejecting
    <3> DEFINE a == Len(arrived[p])
    <3>2. a \in 0 .. MaxArrivals /\ a > 0
      BY <1>2, <3>1
    <3> HIDE DEF a
    <3>3. a \in 1 .. MaxArrivals
      BY <3>2, InPortsAssumption
    <3> QED
      BY <3>1, <3>3 DEF a
  <2>5. ASSUME NEW p \in InPorts, NEW i \in 1 .. MaxArrivals
        PROVE  i <= Taken(p)' <=> (i <= Taken(p) \/ (p \in Ejecting /\ i = Len(arrived[p])))
    <3> DEFINE a == Len(arrived[p])
    <3>1. a \in Nat /\ Taken(p)' = a /\ Taken(p) = IF p \in Ejecting THEN a - 1 ELSE a
      BY <1>2
    <3> HIDE DEF a
    <3>2. i <= a <=> (i <= (IF p \in Ejecting THEN a - 1 ELSE a) \/ (p \in Ejecting /\ i = a))
      BY <3>1
    <3> QED
      BY <3>1, <3>2 DEF a
  <2>6. ASSUME NEW p \in InPorts, NEW i \in 1 .. MaxArrivals
        PROVE  <<p, i>> \in TailsEjected(n)' <=> <<p, i>> \in TailsEjected(n) \cup Places(n)
    BY <1>2, <2>1, <2>2, <2>3, <2>5
  <2>7. TailsEjected(n)' \subseteq InPorts \X (1 .. MaxArrivals)
        /\ TailsEjected(n) \cup Places(n) \subseteq InPorts \X (1 .. MaxArrivals)
    BY <2>1, <2>2, <2>4
  <2> QED
    BY <2>6, <2>7
<1>4. TailsEjected(n) \cap Places(n) = {}
  <2> SUFFICES ASSUME NEW p \in TailsNow(n), <<p, Len(arrived[p])>> \in TailsEjected(n)
               PROVE  FALSE
    BY DEF Places
  <2>1. p \in Ejecting /\ p \in InPorts
    BY DEF TailsNow, Ejecting
  <2> DEFINE a == Len(arrived[p])
  <2>2. a <= Taken(p)
    BY DEF TailsEjected, Taken
  <2>3. a \in Nat /\ Taken(p) = a - 1
    BY <1>2, <2>1
  <2> HIDE DEF a
  <2> QED
    BY <2>2, <2>3
<1>5. /\ Cardinality(TailsEjected(n) \cup Places(n)) =
           Cardinality(TailsEjected(n)) + Cardinality(Places(n)) - Cardinality({})
      /\ Cardinality(TailsEjected(n)) \in Nat /\ Cardinality(Places(n)) \in Nat
      /\ Cardinality({}) = 0
  <2>1. IsFiniteSet(TailsEjected(n)) /\ IsFiniteSet(Places(n))
    BY TailsFinite, PlacesCount
  <2>2. Cardinality(TailsEjected(n) \cup Places(n)) =
          Cardinality(TailsEjected(n)) + Cardinality(Places(n))
            - Cardinality(TailsEjected(n) \cap Places(n))
    BY <2>1, FS_Union
  <2>3. Cardinality(TailsEjected(n)) \in Nat /\ Cardinality(Places(n)) \in Nat
    BY <2>1, FS_CardinalityType
  <2> QED
    BY <1>4, <2>2, <2>3, FS_EmptySet
<1>6. Cardinality(Places(n)) = Cardinality(TailsNow(n))
  BY PlacesCount
<1> QED
  BY <1>1, <1>3, <1>5, <1>6

LEMMA CountStep == InInv /\ CountInv /\ [Next]_vars => CountInv'
<1> SUFFICES ASSUME InInv, CountInv, [Next]_vars PROVE CountInv'
  OBVIOUS
<1>1. ASSUME UNCHANGED <<arrived, inFlits, toProtocol>> PROVE CountInv'
  <2>1. \A n : TailsEjected(n)' = TailsEjected(n)
    BY <1>1 DEF TailsEjected, VnetOf
  <2> QED
    BY <1>1, <2>1 DEF CountInv
<1>2. ASSUME NEW p \in InPorts, NEW v \in VCs, NEW tail \in BOOLEAN, FlitArrives(p, v, tail)
      PROVE  CountInv'
  <2> DEFINE f == [vc |-> v, tail |-> tail]
  <2>1. /\ inFlits[p] = << >> /\ inFlits' = [inFlits EXCEPT ![p] = <<f>>]
        /\ arrived' = [arrived EXCEPT ![p] = Append(@, f)]
        /\ toProtocol' = toProtocol
    BY <1>2 DEF FlitArrives
  <2>2. f \in InFlit
    BY DEF InFlit
  <2> HIDE DEF f
  <2>3. ASSUME NEW q \in InPorts
        PROVE  /\ Taken(q)' = Taken(q)
               /\ \A i \in 1 .. MaxArrivals : i <= Taken(q) => arrived'[q][i] = arrived[q][i]
    <3>1. CASE q # p
      BY <2>1, <3>1 DEF Taken, InInv, InTypeOK
    <3>2. CASE q = p
      <4> DEFINE a == Len(arrived[p])
      <4>1. /\ a \in Nat /\ Len(inFlits[p]) = 0
            /\ arrived'[p] = Append(arrived[p], f) /\ inFlits'[p] = <<f>>
        BY <2>1, LengthOf DEF InInv, InTypeOK
      <4>2. /\ Len(arrived'[p]) = a + 1 /\ Len(inFlits'[p]) = 1
            /\ \A i \in 1 .. a : arrived'[p][i] = arrived[p][i]
        BY <2>2, <4>1, AppendTo, OneElement DEF InInv, InTypeOK
      <4>3. Taken(p) = a - 0 /\ Taken(p)' = (a + 1) - 1
        BY <4>1, <4>2 DEF Taken
      <4> HIDE DEF a
      <4>4. Taken(p) = a /\ Taken(p)' = a
        BY <4>1, <4>3
      <4> QED
        BY <3>2, <4>1, <4>2, <4>4
    <3> QED
      BY <3>1, <3>2
  <2>4. \A n : TailsEjected(n)' = TailsEjected(n)
    BY <2>3, SameTails
  <2> QED
    BY <2>1, <2>4 DEF CountInv
<1>3. CASE EjectFlits
  BY <1>3, CountStepEject
<1>4. ASSUME NEW p \in InPorts, CreditLinkWakeup(p) PROVE CountInv'
  BY <1>1, <1>4 DEF CreditLinkWakeup
<1>5. CASE Tick \/ TakeCredits
  BY <1>1, <1>5 DEF Tick, TakeCredits
<1>6. CASE Wake \/ TakeMessages \/ ScheduleOutputLink \/ UNCHANGED vars
  BY <1>1, <1>6 DEF Wake, TakeMessages, ScheduleOutputLink, vars, inVars
<1>7. ASSUME NEW n \in Vnets, NEW D \in (SUBSET Nodes) \ {{}}, NEW k \in 1 .. MaxFlits,
             Enqueue(n, SetToSeq(D), k)
      PROVE  CountInv'
  BY <1>1, <1>7 DEF Enqueue, inVars
<1>8. ASSUME NEW v \in VCs, CreditArrives(v) PROVE CountInv'
  BY <1>1, <1>8 DEF CreditArrives, inVars
<1> QED
  BY <1>2, <1>3, <1>4, <1>5, <1>6, <1>7, <1>8 DEF Next

(* Each flit that arrives is answered by one credit, in the order of the   *)
(* flits and free exactly for the tails, and each tail hands one message   *)
(* to the protocol (Exchange).                                             *)
THEOREM FlitsAreExchanged == Spec => []Exchange
<1>1. Init => CountInv
  <2> SUFFICES ASSUME Init, NEW n \in Vnets PROVE toProtocol[n] = Cardinality(TailsEjected(n))
    BY DEF CountInv
  <2>1. TailsEjected(n) = {}
    BY DEF Init, TailsEjected
  <2> QED
    BY <2>1, FS_EmptySet DEF Init
<1>2. InInv /\ CountInv => Exchange
  <2> SUFFICES ASSUME InInv, CountInv PROVE Exchange
    OBVIOUS
  <2>1. ASSUME NEW p \in InPorts
        PROVE  /\ DOMAIN outCredits[p] = 1 .. Len(outCredits[p])
               /\ Exchanged(p)
    BY LengthOf DEF InInv, InTypeOK, ExchangeInv
  <2> QED
    BY <2>1 DEF CountInv, Exchange, Exchanged, Taken, CreditFor
<1> QED
  BY <1>1, <1>2, CountStep, InAlways, PTL DEF Spec

-----------------------------------------------------------------------------
(* The sending side: types                                                 *)

LEMMA VcsOfVnets ==
    /\ \A v \in VCs : v \in Int /\ VnetOf(v) \in Vnets /\ PortOf[VnetOf(v)] \in Ports
    /\ \A n \in Vnets, k \in 0 .. VcPerVnet - 1 :
         VcOf(n, k) \in VCs /\ VnetOf(VcOf(n, k)) = n /\ VcOf(n, k) - VcOf(n, 0) = k
<1>1. ASSUME NEW v \in VCs
      PROVE  v \in Int /\ VnetOf(v) \in Vnets /\ PortOf[VnetOf(v)] \in Ports
  <2>1. v \in 0 .. NumVnets * VcPerVnet - 1
    BY DEF VCs
  <2>2. v \div VcPerVnet \in 0 .. NumVnets - 1
    BY <2>1, DivBelow, VcsAssumption
  <2>3. v \in Int
    BY <2>1
  <2> QED
    BY <2>2, <2>3, PortsAssumption DEF VnetOf, Vnets, Ports
<1>2. ASSUME NEW n \in Vnets, NEW k \in 0 .. VcPerVnet - 1
      PROVE  VcOf(n, k) \in VCs /\ VnetOf(VcOf(n, k)) = n /\ VcOf(n, k) - VcOf(n, 0) = k
  <2>1. /\ n \in 0 .. NumVnets - 1 /\ n \in Nat /\ NumVnets \in Nat
        /\ VcPerVnet \in Nat \ {0}
    BY VcsAssumption DEF Vnets
  <2>2. n * VcPerVnet + k \in 0 .. NumVnets * VcPerVnet - 1
    <3> DEFINE m == NumVnets
               d == VcPerVnet
    <3>1. m \in Nat /\ d \in Nat \ {0} /\ n \in 0 .. m - 1 /\ k \in 0 .. d - 1
      BY <2>1
    <3> HIDE DEF m, d
    <3>2. n * d + k \in 0 .. m * d - 1
      BY ONLY <3>1, SumBelow
    <3> QED
      BY <3>2 DEF m, d
  <2>3. (n * VcPerVnet + k) \div VcPerVnet = n
    BY <2>1, DivOfSum
  <2>5. VcOf(n, k) \in VCs
    BY <2>2 DEF VcOf, VCs
  <2>6. VnetOf(VcOf(n, k)) = n
    BY <2>3 DEF VcOf, VnetOf
  <2>7. VcOf(n, k) - VcOf(n, 0) = k
    <3> DEFINE a == n * VcPerVnet
    <3>1. a \in Int /\ k \in Int
      BY <2>1
    <3>2. VcOf(n, k) = a + k /\ VcOf(n, 0) = a + 0
      BY DEF VcOf
    <3> HIDE DEF a
    <3> QED
      BY <3>1, <3>2
  <2> QED
    BY <2>5, <2>6, <2>7
<1> QED
  BY <1>1, <1>2

LEMMA VcsOfVnetFinite == IsFiniteSet(0 .. VcPerVnet - 1)
<1>1. VcPerVnet - 1 \in Int
  BY VcsAssumption
<1> QED
  BY <1>1, FS_Interval

LEMMA ServedAre ==
    ASSUME NEW n \in Vnets
    PROVE  /\ Served(n) \subseteq FreeVcs(n) /\ FreeVcs(n) \subseteq 0 .. VcPerVnet - 1
           /\ Cardinality(Served(n)) \in Nat
           /\ \A k \in Served(n) : Waiting(n) /\ Turn(n, k) \in Nat
                                   /\ Turn(n, k) < Len(Head(messages[n]).dests)
<1>1. FreeVcs(n) \subseteq 0 .. VcPerVnet - 1
  BY DEF FreeVcs
<1>2. IsFiniteSet(0 .. VcPerVnet - 1)
  BY VcsOfVnetFinite
<1>3. \A S : S \subseteq FreeVcs(n) => Cardinality(S) \in Nat
  <2> SUFFICES ASSUME NEW S, S \subseteq FreeVcs(n) PROVE Cardinality(S) \in Nat
    OBVIOUS
  <2>1. IsFiniteSet(S)
    BY <1>1, <1>2, FS_Subset
  <2> QED
    BY <2>1, FS_CardinalityType
<1>4. Served(n) \subseteq FreeVcs(n)
  BY DEF Served
<1>5. \A k : Turn(n, k) \in Nat
  BY <1>3 DEF Turn
<1> QED
  BY <1>1, <1>3, <1>4, <1>5 DEF Served

(* What is left of a packet, once its first flits are sent.                *)
Rest(m, d, n) == [k \in 1 .. n |-> [msg |-> m, dest |-> d, tail |-> k = n]]

LEMMA RestIs ==
    ASSUME NEW m \in Msgs, NEW d \in Nodes, NEW n \in Nat \ {0}
    PROVE  /\ Rest(m, d, n) \in Seq(FlitsOfNi) /\ Rest(m, d, n) # << >>
           /\ Len(Rest(m, d, n)) = n
           /\ Head(Rest(m, d, n)).tail <=> n = 1
           /\ Tail(Rest(m, d, n)) = IF n = 1 THEN << >> ELSE Rest(m, d, n - 1)
<1> DEFINE q == Rest(m, d, n)
<1>1. q \in [1 .. n -> FlitsOfNi]
  BY DEF Rest, FlitsOfNi
<1>2. q \in Seq(FlitsOfNi) /\ Len(q) = n
  BY <1>1, SeqDef
<1>3. \A k \in 1 .. n : q[k] = [msg |-> m, dest |-> d, tail |-> k = n]
  BY DEF Rest
<1> HIDE DEF q
<1>4. q # << >>
  BY <1>2, LengthOf
<1>5. /\ Head(q) = q[1] /\ Tail(q) \in Seq(FlitsOfNi) /\ Len(Tail(q)) = n - 1
      /\ \A i \in 1 .. n - 1 : Tail(q)[i] = q[i + 1]
  BY <1>2, <1>4, TakeFrom
<1>6. Head(q).tail <=> n = 1
  <2>1. 1 \in 1 .. n
    OBVIOUS
  <2>2. q[1] = [msg |-> m, dest |-> d, tail |-> 1 = n]
    BY <1>3, <2>1
  <2>3. Head(q) = [msg |-> m, dest |-> d, tail |-> 1 = n]
    BY <1>5, <2>2
  <2> DEFINE b == 1 = n
             x == Head(q)
  <2>4. x = [msg |-> m, dest |-> d, tail |-> b]
    BY <2>3
  <2> HIDE DEF b, x
  <2>5. x.tail = b
    BY <2>4
  <2>6. x.tail <=> b
    BY <2>5
  <2> QED
    BY <2>6 DEF b, x
<1>7. CASE n = 1
  <2>1. Tail(q) = << >>
    BY <1>2, <1>4, <1>7, TakeOnly
  <2> QED
    BY <1>2, <1>4, <1>6, <1>7, <2>1 DEF q
<1>8. CASE n # 1
  <2> DEFINE t == Tail(q)
             r == Rest(m, d, n - 1)
  <2>1. n - 1 \in Nat \ {0}
    BY <1>8
  <2>2. r \in [1 .. n - 1 -> FlitsOfNi]
    BY <2>1 DEF Rest, FlitsOfNi
  <2>3. \A i \in 1 .. n - 1 : r[i] = [msg |-> m, dest |-> d, tail |-> i = n - 1]
    BY DEF Rest
  <2>4. t \in [1 .. n - 1 -> FlitsOfNi]
    <3>1. t \in Seq(FlitsOfNi) /\ Len(t) = n - 1
      BY <1>5
    <3> HIDE DEF t
    <3> QED
      BY <3>1
  <2> HIDE DEF t, r
  <2>5. \A i \in 1 .. n - 1 : i + 1 \in 1 .. n /\ (i + 1 = n <=> i = n - 1)
    BY <2>1
  <2>6. \A i \in 1 .. n - 1 : t[i] = r[i]
    <3> TAKE i \in 1 .. n - 1
    <3>1. t[i] = q[i + 1]
      BY <1>5 DEF t
    <3> QED
      BY <1>3, <2>3, <2>5, <3>1
  <2>7. t = r
    BY <2>2, <2>4, <2>6
  <2> QED
    BY <1>2, <1>4, <1>6, <1>8, <2>7 DEF q, r, t
<1> QED
  BY <1>7, <1>8

(* A VC that is allocated was idle and gets a whole packet.                *)
LEMMA NewPacketIs ==
    ASSUME OutTypeOK, NEW v \in Allocated
    PROVE  /\ v \in VCs /\ vcState[v] = IDLE_
           /\ \E m \in Msgs, d \in Nodes, n \in Nat \ {0} : NewPacket(v) = Rest(m, d, n)
<1>0. PICK n \in Vnets : \E k \in Served(n) : v = VcOf(n, k)
  BY DEF Allocated
<1>1. PICK k \in Served(n) : v = VcOf(n, k)
  BY <1>0
<1>2. /\ k \in 0 .. VcPerVnet - 1 /\ k \in FreeVcs(n) /\ Waiting(n) /\ Turn(n, k) \in Nat
      /\ Turn(n, k) < Len(Head(messages[n]).dests)
  BY ServedAre
<1>3. v \in VCs /\ VnetOf(v) = n /\ v - VcOf(n, 0) = k
  BY <1>1, <1>2, VcsOfVnets
<1>4. vcState[v] = IDLE_
  BY <1>1, <1>2 DEF FreeVcs
<1> DEFINE m == Head(messages[n])
           t == Turn(n, k)
           d == m.dests[t + 1]
<1>5. m \in Message
  <2>1. messages[n] \in Seq(Message) /\ messages[n] # << >>
    BY <1>2 DEF OutTypeOK, Waiting
  <2> QED
    BY <2>1, TakeFrom
<1>6. d \in Nodes
  <2>1. m.dests \in Seq(Nodes)
    BY <1>5 DEF Message
  <2> DEFINE q == m.dests
             l == Len(q)
  <2>2. l \in Nat /\ \A i \in 1 .. l : q[i] \in Nodes
    BY <2>1, LengthOf
  <2>3. t \in Nat /\ t < l
    BY <1>2
  <2> HIDE DEF q, t, l
  <2>4. t + 1 \in 1 .. l
    BY <2>2, <2>3
  <2> QED
    BY <2>2, <2>4 DEF q
<1>7. NewPacket(v) = Rest(m.id, d, m.size)
  BY <1>3 DEF NewPacket, Packet, Rest
<1>8. m.id \in Msgs /\ m.size \in Nat \ {0}
  BY <1>5, SizesAssumption DEF Message
<1> HIDE DEF m, d
<1> QED
  BY <1>3, <1>4, <1>6, <1>7, <1>8

LEMMA RemainingIs ==
    ASSUME OutTypeOK, NEW n \in Vnets, Waiting(n)
    PROVE  Remaining(n) \in Seq(Message)
<1> DEFINE q == messages[n]
           m == Head(q)
           k == Cardinality(Served(n))
           s == SubSeq(m.dests, k + 1, Len(m.dests))
<1>1. q \in Seq(Message) /\ q # << >>
  BY DEF OutTypeOK, Waiting
<1>2. m \in Message /\ Tail(q) \in Seq(Message)
  BY <1>1, TakeFrom
<1>3. k \in Nat
  BY ServedAre
<1>4. s \in Seq(Nodes)
  <2> DEFINE l == Len(m.dests)
             e == m.dests
  <2>1. m.dests \in Seq(Nodes)
    BY <1>2 DEF Message
  <2>2. l \in Nat /\ \A i \in 1 .. l : e[i] \in Nodes
    BY <2>1, LengthOf
  <2>3. \A i \in k + 1 .. l : e[i] \in Nodes
    <3> HIDE DEF k, l, e
    <3> QED
      BY <1>3, <2>2
  <2>4. k + 1 \in Int /\ l \in Int
    BY <1>3, <2>2
  <2> HIDE DEF k, l, e
  <2>5. SubSeq(e, k + 1, l) \in Seq(Nodes)
    BY <2>3, <2>4, SubSeqProperties
  <2> QED
    BY <2>5 DEF k, l, e
<1>5. [m EXCEPT !.dests = s] \in Message
  <2> HIDE DEF s
  <2> QED
    BY <1>2, <1>4 DEF Message
<1>6. << [m EXCEPT !.dests = s] >> \o Tail(q) \in Seq(Message)
  <2> DEFINE x == [m EXCEPT !.dests = s]
  <2>1. << x >> \in Seq(Message)
    BY <1>5, OneElement
  <2> HIDE DEF x
  <2> QED
    BY <1>2, <2>1, ConcatProperties DEF x
<1>7. Remaining(n) = IF k = Len(m.dests) THEN Tail(q) ELSE << [m EXCEPT !.dests = s] >> \o Tail(q)
  BY DEF Remaining
<1> QED
  BY <1>2, <1>6, <1>7

LEMMA WinnersAre ==
    ASSUME OutTypeOK
    PROVE  /\ \A p \in Ports : Candidates(p) # {} => Winner(p) \in Candidates(p)
           /\ \A v \in Winners : v \in VCs /\ niOutVcs[v] # << >> /\ credits[v] > 0
<1>1. ASSUME NEW p \in Ports, Candidates(p) # {} PROVE Winner(p) \in Candidates(p)
  <2> DEFINE S == Candidates(p)
             n == Cardinality(VCs)
             r == roundRobin[p] + 1
  <2>1. S \in SUBSET Int
    <3>1. \A v \in S : v \in VCs
      BY DEF Candidates
    <3> QED
      BY <3>1, VcsOfVnets
  <2>2. n \in Nat \ {0} /\ r \in Int
    <3>1. NumVnets * VcPerVnet \in Nat \ {0}
      BY VcsAssumption
    <3> DEFINE k == NumVnets * VcPerVnet
    <3>2. k \in Nat \ {0} /\ VCs = 0 .. k - 1
      BY <3>1 DEF VCs
    <3> HIDE DEF k
    <3>3. n = k - 1 - 0 + 1
      BY <3>2, FS_Interval
    <3>4. roundRobin[p] \in Int
      BY VcsOfVnets DEF OutTypeOK
    <3> QED
      BY <3>2, <3>3, <3>4
  <2>3. \E x \in S : \A y \in S : (x - r) % n <= (y - r) % n
    <3> HIDE DEF S, n, r
    <3> QED
      BY <1>1, <2>1, <2>2, FirstInRound DEF S
  <2>4. \A x \in S : x - r = x - roundRobin[p] - 1
    <3>1. roundRobin[p] \in Int
      BY VcsOfVnets DEF OutTypeOK
    <3> HIDE DEF S
    <3> QED
      BY <2>1, <3>1
  <2>5. \E x \in S : \A y \in S : (x - roundRobin[p] - 1) % n <= (y - roundRobin[p] - 1) % n
    <3> HIDE DEF S, n, r
    <3> QED
      BY <2>3, <2>4
  <2> QED
    BY <2>5 DEF Winner
<1>2. ASSUME NEW v \in Winners
      PROVE  v \in VCs /\ niOutVcs[v] # << >> /\ credits[v] > 0
  <2>1. PICK p \in Ports : Candidates(p) # {} /\ v = Winner(p)
    BY DEF Winners
  <2>2. v \in Candidates(p)
    BY <1>1, <2>1
  <2> QED
    BY <2>2 DEF Candidates, IsCandidate
<1> QED
  BY <1>1, <1>2

LEMMA OutTypeInit == Init => OutTypeOK
<1> SUFFICES ASSUME Init PROVE OutTypeOK
  OBVIOUS
<1>1. \A S : << >> \in Seq(S)
  OBVIOUS
<1>2. 0 \in 0 .. VcPerVnet - 1 /\ 0 \in VCs
  <2>1. NumVnets * VcPerVnet \in Nat \ {0}
    BY VcsAssumption
  <2> QED
    BY <2>1, VcsAssumption DEF VCs
<1> QED
  BY <1>1, <1>2, SizesAssumption DEF Init, OutTypeOK

LEMMA OutTypeEnqueue ==
    ASSUME OutTypeOK, NEW n \in Vnets, NEW D \in (SUBSET Nodes) \ {{}}, NEW k \in 1 .. MaxFlits,
           Enqueue(n, SetToSeq(D), k)
    PROVE  OutTypeOK'
<1> DEFINE m == Cardinality(Accepted) + 1
           x == [id |-> m, dests |-> SetToSeq(D), size |-> k]
<1>1. SetToSeq(D) \in Seq(Nodes)
  <2>1. IsFiniteSet(D)
    BY NodesAssumption, FS_Subset
  <2>2. SetToSeq(D) \in Seq(D)
    BY <2>1, SetAsSeq
  <2> QED
    BY <2>2
<1>2. x \in Message
  BY <1>1 DEF Message, Enqueue
<1>3. messages' = [messages EXCEPT ![n] = Append(@, x)]
      /\ UNCHANGED <<vcState, credits, niOutVcs, earlier, allocator, roundRobin, creditIn,
                     downstream>>
  BY DEF Enqueue
<1> HIDE DEF x
<1>4. Append(messages[n], x) \in Seq(Message)
  BY <1>2, AppendTo DEF OutTypeOK
<1> QED
  BY <1>3, <1>4 DEF OutTypeOK

LEMMA OutTypeCreditArrives ==
    ASSUME OutTypeOK, NEW v \in VCs, CreditArrives(v)
    PROVE  OutTypeOK'
<1> DEFINE p == PortOf[VnetOf(v)]
           x == [vc |-> v, free |-> Head(downstream[v])]
<1>1. Head(downstream[v]) \in BOOLEAN /\ Tail(downstream[v]) \in Seq(BOOLEAN)
  BY TakeFrom DEF CreditArrives, OutTypeOK
<1>2. << x >> \in Seq(OutCredit)
  <2>1. x \in OutCredit
    BY <1>1 DEF OutCredit
  <2> HIDE DEF x
  <2> QED
    BY <2>1, OneElement
<1>3. /\ creditIn' = [creditIn EXCEPT ![p] = << x >>]
      /\ downstream' = [downstream EXCEPT ![v] = Tail(@)]
      /\ UNCHANGED <<messages, vcState, credits, niOutVcs, earlier, allocator, roundRobin>>
  BY DEF CreditArrives
<1> HIDE DEF x, p
<1> QED
  BY <1>1, <1>2, <1>3 DEF OutTypeOK

LEMMA OutTypeTakeMessages ==
    ASSUME OutTypeOK, TakeMessages
    PROVE  OutTypeOK'
<1>1. messages' \in [Vnets -> Seq(Message)]
  BY RemainingIs DEF TakeMessages
<1>2. niOutVcs' \in [VCs -> Seq(FlitsOfNi)]
  <2>1. ASSUME NEW v \in VCs, v \in Allocated PROVE niOutVcs[v] \o NewPacket(v) \in Seq(FlitsOfNi)
    <3>1. PICK m \in Msgs, d \in Nodes, n \in Nat \ {0} : NewPacket(v) = Rest(m, d, n)
      BY <2>1, NewPacketIs
    <3>2. NewPacket(v) \in Seq(FlitsOfNi)
      BY <3>1, RestIs
    <3>3. niOutVcs[v] \in Seq(FlitsOfNi)
      BY <2>1 DEF OutTypeOK
    <3> QED
      BY <3>2, <3>3, ConcatProperties
  <2>2. niOutVcs' = [v \in VCs |->
          IF v \in Allocated THEN niOutVcs[v] \o NewPacket(v) ELSE niOutVcs[v]]
    BY DEF TakeMessages
  <2> QED
    BY <2>1, <2>2 DEF OutTypeOK
<1>3. vcState' \in [VCs -> {IDLE_, ACTIVE_}] /\ earlier' \in [VCs -> SUBSET VCs]
  BY DEF TakeMessages, OutTypeOK
<1>4. allocator' \in [Vnets -> 0 .. VcPerVnet - 1]
  <2>1. ASSUME NEW n \in Vnets, Served(n) # {}
        PROVE  NextVc(LastServed(n)) \in 0 .. VcPerVnet - 1
    <3> DEFINE S == Served(n)
               a == allocator[n]
    <3>1. a \in Int /\ VcPerVnet \in Nat \ {0}
      BY VcsAssumption DEF OutTypeOK
    <3>2. S \in SUBSET Int
      <4>1. S \subseteq 0 .. VcPerVnet - 1
        BY ServedAre
      <4> QED
        BY <4>1
    <3>3. \E x \in S : \A y \in S : ~((x - a) % VcPerVnet < (y - a) % VcPerVnet)
      <4> HIDE DEF S, a
      <4> QED
        BY <2>1, <3>1, <3>2, LastInRound DEF S
    <3>4. LastServed(n) \in S
      BY <3>3 DEF LastServed, Before
    <3>5. LastServed(n) + 1 \in Int
      BY <3>2, <3>4
    <3> QED
      BY <3>1, <3>5, InARound DEF NextVc
  <2>2. allocator' = [n \in Vnets |->
          IF Served(n) # {} THEN NextVc(LastServed(n)) ELSE allocator[n]]
    BY DEF TakeMessages
  <2> QED
    BY <2>1, <2>2 DEF OutTypeOK
<1>5. UNCHANGED <<credits, roundRobin, creditIn, downstream>>
  BY DEF TakeMessages
<1> QED
  BY <1>1, <1>2, <1>3, <1>4, <1>5 DEF OutTypeOK

LEMMA OutTypeScheduleOutputLink ==
    ASSUME OutTypeOK, ScheduleOutputLink
    PROVE  OutTypeOK'
<1>1. \A v \in Winners : /\ Tail(niOutVcs[v]) \in Seq(FlitsOfNi)
                         /\ Head(niOutVcs[v]).tail \in BOOLEAN
  <2> SUFFICES ASSUME NEW v \in Winners
               PROVE  /\ Tail(niOutVcs[v]) \in Seq(FlitsOfNi)
                      /\ Head(niOutVcs[v]).tail \in BOOLEAN
    OBVIOUS
  <2>1. niOutVcs[v] \in Seq(FlitsOfNi) /\ niOutVcs[v] # << >>
    BY WinnersAre DEF OutTypeOK
  <2>2. Tail(niOutVcs[v]) \in Seq(FlitsOfNi) /\ Head(niOutVcs[v]) \in FlitsOfNi
    BY <2>1, TakeFrom
  <2> QED
    BY <2>2 DEF FlitsOfNi
<1>2. niOutVcs' \in [VCs -> Seq(FlitsOfNi)]
  BY <1>1 DEF ScheduleOutputLink, OutTypeOK
<1>3. downstream' \in [VCs -> Seq(BOOLEAN)]
  <2>1. ASSUME NEW v \in Winners, v \in VCs
        PROVE  Append(downstream[v], Head(niOutVcs[v]).tail) \in Seq(BOOLEAN)
    <3>1. downstream[v] \in Seq(BOOLEAN)
      BY <2>1 DEF OutTypeOK
    <3> QED
      BY <1>1, <3>1, AppendTo
  <2>2. downstream' = [v \in VCs |->
          IF v \in Winners THEN Append(downstream[v], Head(niOutVcs[v]).tail)
          ELSE downstream[v]]
    BY DEF ScheduleOutputLink
  <2> QED
    BY <2>1, <2>2 DEF OutTypeOK
<1>4. roundRobin' \in [Ports -> VCs]
  BY WinnersAre DEF ScheduleOutputLink, Candidates, OutTypeOK
<1>5. credits' \in [VCs -> Int] /\ earlier' \in [VCs -> SUBSET VCs]
  BY DEF ScheduleOutputLink, OutTypeOK
<1>6. UNCHANGED <<messages, vcState, allocator, creditIn>>
  BY DEF ScheduleOutputLink
<1> QED
  BY <1>2, <1>3, <1>4, <1>5, <1>6 DEF OutTypeOK

LEMMA OutTypeTakeCredits ==
    ASSUME OutTypeOK, TakeCredits
    PROVE  OutTypeOK'
<1>1. creditIn' \in [Ports -> Seq(OutCredit)]
  <2>1. \A p \in Ports : creditIn[p] # << >> => Tail(creditIn[p]) \in Seq(OutCredit)
    BY TakeFrom DEF OutTypeOK
  <2> QED
    BY <2>1 DEF TakeCredits
<1>2. credits' \in [VCs -> Int] /\ vcState' \in [VCs -> {IDLE_, ACTIVE_}]
  BY DEF TakeCredits, OutTypeOK
<1>3. UNCHANGED <<messages, niOutVcs, earlier, allocator, roundRobin, downstream>>
  BY DEF TakeCredits
<1> QED
  BY <1>1, <1>2, <1>3 DEF OutTypeOK

-----------------------------------------------------------------------------
(* The sending side: one packet per VC                                     *)

WakeupsOK ==
    /\ stage \in {"step", "messages", "output", "eject", "credits", "done"}
    /\ scheduled \subseteq {0, 1}
    /\ stage # "step" => 0 \notin scheduled

(* A credit link carries one credit, of a VC of its port.                  *)
CreditsInPlace ==
    \A p \in Ports : creditIn[p] # << >> =>
        Len(creditIn[p]) = 1 /\ PortOf[VnetOf(Head(creditIn[p]).vc)] = p

(* The flits left of one packet; flits, credits and free slots are Depth;  *)
(* nothing follows a tail until the free signal is back; an idle VC is     *)
(* drained.                                                                *)
OfOnePacket(v) ==
    \/ niOutVcs[v] = << >>
    \/ \E m \in Msgs, d \in Nodes, n \in Nat \ {0} : niOutVcs[v] = Rest(m, d, n)
Balance(v) ==
    /\ credits[v] >= 0
    /\ credits[v] + Len(downstream[v]) + One(Credited(v)) = Depth
TailIsLast(v) ==
    /\ Freed(v) => downstream[v] = << >> /\ niOutVcs[v] = << >>
    /\ \A j \in 1 .. Len(downstream[v]) :
         downstream[v][j] => j = Len(downstream[v]) /\ niOutVcs[v] = << >>
IdleIsDrained(v) ==
    vcState[v] = IDLE_ => niOutVcs[v] = << >> /\ downstream[v] = << >> /\ ~Credited(v)
OutVcInv(v) == OfOnePacket(v) /\ Balance(v) /\ TailIsLast(v) /\ IdleIsDrained(v)

OutInv == WakeupsOK /\ OutTypeOK /\ CreditsInPlace /\ \A v \in VCs : OutVcInv(v)

LEMMA FreedIsCredited == \A v : Freed(v) => Credited(v)
BY DEF Freed, Credited

LEMMA OutInit == Init => OutInv
<1> SUFFICES ASSUME Init PROVE OutInv
  OBVIOUS
<1>1. Len(<< >>) = 0
  BY EmptySeq
<1>2. WakeupsOK /\ CreditsInPlace
  BY DEF Init, WakeupsOK, CreditsInPlace
<1>3. ASSUME NEW v \in VCs PROVE OutVcInv(v)
  <2>1. ~Credited(v) /\ ~Freed(v)
    BY DEF Init, Credited, Freed
  <2>2. niOutVcs[v] = << >> /\ downstream[v] = << >> /\ credits[v] = Depth
    BY DEF Init
  <2>3. Balance(v)
    BY <1>1, <2>1, <2>2, SizesAssumption DEF Balance, One
  <2>4. TailIsLast(v)
    BY <1>1, <2>1, <2>2 DEF TailIsLast
  <2> QED
    BY <2>1, <2>2, <2>3, <2>4 DEF OutVcInv, OfOnePacket, IdleIsDrained
<1> QED
  BY <1>2, <1>3, OutTypeInit DEF OutInv

(* A step that leaves the VCs and their credits.                           *)
LEMMA VcSame ==
    ASSUME NEW v \in VCs, OutVcInv(v),
           UNCHANGED <<vcState, credits, niOutVcs, creditIn, downstream>>
    PROVE  OutVcInv(v)'
BY DEF OutVcInv, OfOnePacket, Balance, TailIsLast, IdleIsDrained, Credited, Freed, One

LEMMA VcTakeMessages ==
    ASSUME OutInv, TakeMessages, NEW v \in VCs
    PROVE  OutVcInv(v)'
<1>1. OutVcInv(v) /\ niOutVcs[v] \in Seq(FlitsOfNi)
  BY DEF OutInv, OutTypeOK
<1>2. /\ UNCHANGED <<credits, creditIn, downstream>>
      /\ (Credited(v)' <=> Credited(v)) /\ (Freed(v)' <=> Freed(v))
  BY DEF TakeMessages, Credited, Freed
<1>3. /\ niOutVcs'[v] = IF v \in Allocated THEN niOutVcs[v] \o NewPacket(v) ELSE niOutVcs[v]
      /\ vcState'[v] = IF v \in Allocated THEN ACTIVE_ ELSE vcState[v]
  BY DEF TakeMessages
<1>4. CASE v \notin Allocated
  BY <1>1, <1>2, <1>3, <1>4
  DEF OutVcInv, OfOnePacket, Balance, TailIsLast, IdleIsDrained, One
<1>5. CASE v \in Allocated
  <2>1. PICK m \in Msgs, d \in Nodes, n \in Nat \ {0} : NewPacket(v) = Rest(m, d, n)
    BY <1>5, NewPacketIs DEF OutInv
  <2>2. niOutVcs[v] = << >> /\ downstream[v] = << >> /\ ~Credited(v) /\ ~Freed(v)
    BY <1>1, <1>5, NewPacketIs, FreedIsCredited DEF OutInv, OutVcInv, IdleIsDrained
  <2>3. Rest(m, d, n) \in Seq(FlitsOfNi)
    BY RestIs
  <2>4. << >> \o Rest(m, d, n) = Rest(m, d, n)
    BY <2>3, ConcatEmptySeq
  <2>5. niOutVcs'[v] = Rest(m, d, n)
    BY <1>3, <1>5, <2>1, <2>2, <2>4
  <2>6. OfOnePacket(v)'
    BY <2>5 DEF OfOnePacket
  <2>7. TailIsLast(v)'
    <3>1. Len(downstream'[v]) = 0
      BY <1>2, <2>2, EmptySeq
    <3> QED
      BY <1>2, <2>2, <3>1 DEF TailIsLast
  <2>8. Balance(v)'
    BY <1>1, <1>2 DEF OutVcInv, Balance, One
  <2>9. IdleIsDrained(v)'
    BY <1>3, <1>5 DEF IdleIsDrained, IDLE_, ACTIVE_
  <2> QED
    BY <2>6, <2>7, <2>8, <2>9 DEF OutVcInv
<1> QED
  BY <1>4, <1>5

(* A flit leaves, with a credit.                                           *)
LEMMA VcScheduleOutputLink ==
    ASSUME OutInv, ScheduleOutputLink, NEW v \in VCs
    PROVE  OutVcInv(v)'
<1>1. OutVcInv(v) /\ OutTypeOK
  BY DEF OutInv
<1>2. /\ UNCHANGED <<vcState, creditIn>>
      /\ (Credited(v)' <=> Credited(v)) /\ (Freed(v)' <=> Freed(v))
  BY DEF ScheduleOutputLink, Credited, Freed
<1>3. /\ niOutVcs'[v] = IF v \in Winners THEN Tail(niOutVcs[v]) ELSE niOutVcs[v]
      /\ credits'[v] = IF v \in Winners THEN credits[v] - 1 ELSE credits[v]
      /\ downstream'[v] = IF v \in Winners THEN Append(downstream[v], Head(niOutVcs[v]).tail)
                          ELSE downstream[v]
  BY DEF ScheduleOutputLink
<1>4. CASE v \notin Winners
  BY <1>1, <1>2, <1>3, <1>4
  DEF OutVcInv, OfOnePacket, Balance, TailIsLast, IdleIsDrained, One
<1>5. CASE v \in Winners
  <2> DEFINE t == Head(niOutVcs[v]).tail
             q == downstream[v]
             l == Len(q)
             c == credits[v]
             b == One(Credited(v))
  <2>1. niOutVcs[v] # << >> /\ c > 0 /\ vcState[v] # IDLE_
    BY <1>1, <1>5, WinnersAre DEF OutVcInv, IdleIsDrained
  <2>2. PICK m \in Msgs, d \in Nodes, n \in Nat \ {0} : niOutVcs[v] = Rest(m, d, n)
    BY <1>1, <2>1 DEF OutVcInv, OfOnePacket
  <2>3. /\ t <=> n = 1
        /\ niOutVcs'[v] = IF n = 1 THEN << >> ELSE Rest(m, d, n - 1)
    <3>1. /\ Head(Rest(m, d, n)).tail <=> n = 1
          /\ Tail(Rest(m, d, n)) = IF n = 1 THEN << >> ELSE Rest(m, d, n - 1)
      BY RestIs
    <3>2. niOutVcs'[v] = Tail(Rest(m, d, n))
      BY <1>3, <1>5, <2>2
    <3>3. t <=> n = 1
      BY <2>2, <3>1
    <3> HIDE DEF t
    <3> QED
      BY <3>1, <3>2, <3>3
  <2>4. ~Freed(v) /\ \A j \in 1 .. l : ~q[j]
    BY <1>1, <2>1 DEF OutVcInv, TailIsLast
  <2>5. q \in Seq(BOOLEAN) /\ t \in BOOLEAN
    <3>1. niOutVcs[v] \in Seq(FlitsOfNi) /\ q \in Seq(BOOLEAN)
      BY <1>1 DEF OutTypeOK
    <3>2. Head(niOutVcs[v]) \in FlitsOfNi
      BY <2>1, <3>1, TakeFrom
    <3> QED
      BY <3>1, <3>2 DEF FlitsOfNi
  <2>6. downstream'[v] = Append(q, t)
    BY <1>3, <1>5
  <2>7. /\ l \in Nat /\ Len(Append(q, t)) = l + 1 /\ Append(q, t)[l + 1] = t
        /\ \A j \in 1 .. l : Append(q, t)[j] = q[j]
    BY <2>5, AppendTo
  <2>8. OfOnePacket(v)'
    <3>1. CASE n = 1
      BY <2>3, <3>1 DEF OfOnePacket
    <3>2. CASE n # 1
      <4>1. n - 1 \in Nat \ {0} /\ niOutVcs'[v] = Rest(m, d, n - 1)
        BY <2>3, <3>2
      <4> QED
        BY <4>1 DEF OfOnePacket
    <3> QED
      BY <3>1, <3>2
  <2>9. TailIsLast(v)'
    <3>1. t => niOutVcs'[v] = << >>
      BY <2>3
    <3>2. Len(downstream'[v]) = l + 1 /\ ~Freed(v)'
      BY <1>2, <2>4, <2>6, <2>7
    <3>3. \A j \in 1 .. l + 1 : downstream'[v][j] => j = l + 1 /\ t
      <4>1. \A j \in 1 .. l : ~downstream'[v][j]
        BY <2>4, <2>6, <2>7
      <4>2. downstream'[v][l + 1] = t
        BY <2>6, <2>7
      <4> HIDE DEF q, t, l
      <4> QED
        BY <2>7, <4>1, <4>2
    <3> HIDE DEF q, t, l
    <3> QED
      BY <3>1, <3>2, <3>3 DEF TailIsLast
  <2>10. Balance(v)'
    <3>1. c \in Int /\ b \in {0, 1} /\ c >= 0 /\ c + l + b = Depth
      BY <1>1 DEF OutVcInv, Balance, OutTypeOK, One
    <3>2. credits'[v] = c - 1 /\ Len(downstream'[v]) = l + 1 /\ One(Credited(v))' = b
      BY <1>2, <1>3, <1>5, <2>6, <2>7 DEF One
    <3>3. c - 1 >= 0 /\ (c - 1) + (l + 1) + b = Depth
      <4> HIDE DEF c, l, b
      <4> QED
        BY <2>1, <2>7, <3>1, SizesAssumption
    <3>4. Balance(v)' <=> (credits'[v] >= 0
             /\ credits'[v] + Len(downstream'[v]) + One(Credited(v))' = Depth)
      BY DEF Balance, One
    <3> HIDE DEF c, l, b
    <3> QED
      BY <3>2, <3>3, <3>4
  <2>11. IdleIsDrained(v)'
    BY <1>2, <2>1 DEF IdleIsDrained
  <2> QED
    BY <2>8, <2>9, <2>10, <2>11 DEF OutVcInv
<1> QED
  BY <1>4, <1>5

(* What a credit that comes back says of the VCs.                          *)
LEMMA CreditComes ==
    ASSUME OutInv, NEW u \in VCs, CreditArrives(u)
    PROVE  /\ CreditsInPlace' /\ ~Credited(u) /\ Credited(u)'
           /\ Freed(u)' <=> Head(downstream[u]) = TRUE
           /\ \A v \in VCs \ {u} : (Credited(v)' <=> Credited(v)) /\ (Freed(v)' <=> Freed(v))
<1> DEFINE p == PortOf[VnetOf(u)]
           x == [vc |-> u, free |-> Head(downstream[u])]
<1>1. /\ p \in Ports /\ creditIn[p] = << >> /\ creditIn \in [Ports -> Seq(OutCredit)]
      /\ creditIn' = [creditIn EXCEPT ![p] = << x >>]
  BY VcsOfVnets DEF CreditArrives, OutInv, OutTypeOK
<1>2. x \in OutCredit /\ x.vc = u /\ x.free = Head(downstream[u])
  <2>1. downstream[u] \in Seq(BOOLEAN) /\ downstream[u] # << >>
    BY DEF CreditArrives, OutInv, OutTypeOK
  <2>2. Head(downstream[u]) \in BOOLEAN
    BY <2>1, TakeFrom
  <2> QED
    BY <2>2 DEF OutCredit
<1>3. PortOf[VnetOf(x.vc)] = p
  BY <1>2
<1>4. Freed(u)' <=> creditIn'[p] # << >> /\ Head(creditIn'[p]) = [vc |-> u, free |-> TRUE]
  <2>1. \A q \in Ports : creditIn'[q] # << >> /\ Head(creditIn'[q]).vc = u => q = p
    <3> HIDE DEF x
    <3>1. ASSUME NEW q \in Ports, creditIn'[q] # << >>, Head(creditIn'[q]).vc = u, q # p
          PROVE  FALSE
      <4>1. creditIn'[q] = creditIn[q]
        BY <1>1, <3>1
      <4>2. PortOf[VnetOf(Head(creditIn[q]).vc)] = q
        BY <3>1, <4>1 DEF OutInv, CreditsInPlace
      <4> QED
        BY <3>1, <4>1, <4>2
    <3> QED
      BY <3>1
  <2>2. [vc |-> u, free |-> TRUE].vc = u
    OBVIOUS
  <2> HIDE DEF p
  <2> QED
    BY <1>1, <2>1, <2>2 DEF Freed
<1> HIDE DEF x, p
<1>5. creditIn'[p] = << x >> /\ \A q \in Ports \ {p} : creditIn'[q] = creditIn[q]
  BY <1>1
<1>6. << x >> # << >> /\ Len(<< x >>) = 1 /\ Head(<< x >>) = x
  BY <1>2, OneElement
<1>7. CreditsInPlace'
  <2> SUFFICES ASSUME NEW q \in Ports, creditIn'[q] # << >>
               PROVE  Len(creditIn'[q]) = 1 /\ PortOf[VnetOf(Head(creditIn'[q]).vc)] = q
    BY DEF CreditsInPlace
  <2>1. CASE q = p
    BY <1>3, <1>5, <1>6, <2>1
  <2>2. CASE q # p
    <3>1. creditIn'[q] = creditIn[q]
      BY <1>5, <2>2
    <3> QED
      BY <3>1 DEF OutInv, CreditsInPlace
  <2> QED
    BY <2>1, <2>2
<1>8. ~Credited(u)
  BY <1>1 DEF p, OutInv, CreditsInPlace, Credited
<1>9. Credited(u)'
  BY <1>1, <1>2, <1>5, <1>6 DEF Credited
<1>10. Freed(u)' <=> Head(downstream[u]) = TRUE
  <2>1. Freed(u)' <=> x = [vc |-> u, free |-> TRUE]
    BY <1>4, <1>5, <1>6
  <2>2. x = [vc |-> u, free |-> TRUE] <=> x.free = TRUE
    BY <1>2 DEF OutCredit
  <2> QED
    BY <1>2, <2>1, <2>2
<1>11. ASSUME NEW v \in VCs \ {u}
       PROVE  (Credited(v)' <=> Credited(v)) /\ (Freed(v)' <=> Freed(v))
  <2>1. \A q \in Ports : (creditIn'[q] # << >> /\ Head(creditIn'[q]).vc = v)
                           <=> (creditIn[q] # << >> /\ Head(creditIn[q]).vc = v)
    BY <1>1, <1>2, <1>5, <1>6
  <2>2. Credited(v)' <=> Credited(v)
    BY <2>1 DEF Credited
  <2>3. \A q \in Ports : (creditIn'[q] # << >> /\ Head(creditIn'[q]) = [vc |-> v, free |-> TRUE])
                           <=> (creditIn[q] # << >> /\ Head(creditIn[q]) = [vc |-> v, free |-> TRUE])
    BY <1>1, <1>2, <1>5, <1>6
  <2>4. Freed(v)' <=> Freed(v)
    BY <2>3 DEF Freed
  <2> QED
    BY <2>2, <2>4
<1>12. \A v \in VCs \ {u} : (Credited(v)' <=> Credited(v)) /\ (Freed(v)' <=> Freed(v))
  BY <1>11
<1> QED
  BY ONLY <1>7, <1>8, <1>9, <1>10, <1>12

LEMMA VcCreditArrives ==
    ASSUME OutInv, NEW u \in VCs, CreditArrives(u), NEW v \in VCs
    PROVE  OutVcInv(v)'
<1>1. OutVcInv(v)
  BY DEF OutInv
<1>2. /\ UNCHANGED <<vcState, credits, niOutVcs>>
      /\ downstream'[v] = IF v = u THEN Tail(downstream[v]) ELSE downstream[v]
  BY DEF CreditArrives, OutInv, OutTypeOK
<1>3. CASE v # u
  <2>1. (Credited(v)' <=> Credited(v)) /\ (Freed(v)' <=> Freed(v))
    <3>1. \A w \in VCs \ {u} : (Credited(w)' <=> Credited(w)) /\ (Freed(w)' <=> Freed(w))
      BY CreditComes
    <3>2. v \in VCs \ {u}
      BY <1>3
    <3> QED
      BY ONLY <3>1, <3>2
  <2> QED
    BY <1>1, <1>2, <1>3, <2>1 DEF OutVcInv, OfOnePacket, Balance, TailIsLast, IdleIsDrained, One
<1>4. CASE v = u
  <2> DEFINE q == downstream[v]
             l == Len(q)
             c == credits[v]
  <2>1. q \in Seq(BOOLEAN) /\ q # << >> /\ c \in Int
    BY <1>4 DEF CreditArrives, OutInv, OutTypeOK
  <2>2. ~Credited(v) /\ Credited(v)' /\ (Freed(v)' <=> Head(q) = TRUE)
    <3>1. ~Credited(u) /\ Credited(u)' /\ (Freed(u)' <=> Head(downstream[u]) = TRUE)
      BY CreditComes
    <3> QED
      BY ONLY <1>4, <3>1
  <2>3. /\ l \in Nat \ {0} /\ Head(q) = q[1] /\ Len(Tail(q)) = l - 1
        /\ \A j \in 1 .. l - 1 : Tail(q)[j] = q[j + 1]
    BY <2>1, TakeFrom
  <2>4. \A j \in 1 .. l : q[j] => j = l /\ niOutVcs[v] = << >>
    BY <1>1 DEF OutVcInv, TailIsLast
  <2>5. downstream'[v] = Tail(q) /\ vcState[v] # IDLE_
    BY <1>1, <1>2, <1>4, <2>1 DEF OutVcInv, IdleIsDrained
  <2>6. Head(q) = TRUE => l = 1 /\ niOutVcs[v] = << >>
    <3> HIDE DEF q, l
    <3>1. 1 \in 1 .. l
      BY <2>3
    <3>2. q[1] = TRUE => 1 = l /\ niOutVcs[v] = << >>
      BY <2>4, <3>1
    <3> QED
      BY <2>3, <3>2
  <2>7. TailIsLast(v)'
    <3>1. Freed(v)' => downstream'[v] = << >> /\ niOutVcs'[v] = << >>
      <4>1. l = 1 => Tail(q) = << >>
        BY <2>1, TakeOnly
      <4> QED
        BY <1>2, <2>2, <2>5, <2>6, <4>1
    <3>2. Len(downstream'[v]) = l - 1
      BY <2>3, <2>5
    <3>3. \A j \in 1 .. l - 1 : downstream'[v][j] => j = l - 1 /\ niOutVcs'[v] = << >>
      <4>1. \A j \in 1 .. l - 1 : downstream'[v][j] = q[j + 1]
        BY <2>3, <2>5
      <4> HIDE DEF q, l
      <4>2. \A j \in 1 .. l - 1 : j + 1 \in 1 .. l /\ (j + 1 = l => j = l - 1)
        BY <2>3
      <4> QED
        BY <1>2, <2>4, <4>1, <4>2
    <3> HIDE DEF q, l
    <3> QED
      BY <3>1, <3>2, <3>3 DEF TailIsLast
  <2>8. Balance(v)'
    <3>1. c >= 0 /\ c + l + 0 = Depth
      <4>1. c >= 0 /\ c + l + One(Credited(v)) = Depth
        BY <1>1 DEF OutVcInv, Balance
      <4>2. One(Credited(v)) = 0
        BY <2>2 DEF One
      <4> QED
        BY <4>1, <4>2
    <3>2. credits'[v] = c /\ Len(downstream'[v]) = l - 1 /\ One(Credited(v))' = 1
      <4>1. One(Credited(v))' = 1
        BY <2>2 DEF One
      <4>2. Len(downstream'[v]) = l - 1
        BY <2>3, <2>5
      <4> QED
        BY <1>2, <4>1, <4>2
    <3>3. c >= 0 /\ c + (l - 1) + 1 = Depth
      <4> HIDE DEF c, l
      <4> QED
        BY <2>1, <2>3, <3>1, SizesAssumption
    <3>4. Balance(v)' <=> (credits'[v] >= 0
             /\ credits'[v] + Len(downstream'[v]) + One(Credited(v))' = Depth)
      BY DEF Balance, One
    <3> HIDE DEF c, l
    <3> QED
      BY <3>2, <3>3, <3>4
  <2>9. OfOnePacket(v)' /\ IdleIsDrained(v)'
    BY <1>1, <1>2, <2>5 DEF OutVcInv, OfOnePacket, IdleIsDrained
  <2> QED
    BY <2>7, <2>8, <2>9 DEF OutVcInv
<1> QED
  BY <1>3, <1>4

LEMMA VcTakeCredits ==
    ASSUME OutInv, TakeCredits
    PROVE  CreditsInPlace' /\ \A v \in VCs : OutVcInv(v)'
<1>1. \A p \in Ports : creditIn'[p] = << >>
  <2> SUFFICES ASSUME NEW p \in Ports PROVE creditIn'[p] = << >>
    OBVIOUS
  <2>1. creditIn[p] # << >> => Tail(creditIn[p]) = << >>
    BY TakeOnly DEF OutInv, OutTypeOK, CreditsInPlace
  <2> QED
    BY <2>1 DEF TakeCredits
<1>2. ASSUME NEW v \in VCs PROVE OutVcInv(v)'
  <2>1. OutVcInv(v)
    BY DEF OutInv
  <2>2. /\ UNCHANGED <<niOutVcs, downstream>>
        /\ credits'[v] = IF Credited(v) THEN credits[v] + 1 ELSE credits[v]
        /\ vcState'[v] = IF Freed(v) THEN IDLE_ ELSE vcState[v]
    BY DEF TakeCredits
  <2>3. ~Credited(v)' /\ ~Freed(v)'
    BY <1>1 DEF Credited, Freed
  <2>4. Balance(v)'
    <3> DEFINE c == credits[v]
               l == Len(downstream[v])
               b == One(Credited(v))
    <3>1. c \in Int /\ l \in Nat /\ c >= 0 /\ c + l + b = Depth
      BY <2>1, LengthOf DEF OutVcInv, Balance, OutInv, OutTypeOK
    <3>2. b \in {0, 1} /\ credits'[v] = c + b
      BY <2>2, <3>1 DEF One
    <3>3. Len(downstream'[v]) = l /\ One(Credited(v))' = 0
      BY <2>2, <2>3 DEF One
    <3>4. c + b >= 0 /\ (c + b) + l + 0 = Depth
      <4> HIDE DEF c, l, b
      <4> QED
        BY <3>1, <3>2, SizesAssumption
    <3>5. Balance(v)' <=> (credits'[v] >= 0
             /\ credits'[v] + Len(downstream'[v]) + One(Credited(v))' = Depth)
      BY DEF Balance, One
    <3> HIDE DEF c, l, b
    <3> QED
      BY <3>2, <3>3, <3>4, <3>5
  <2>5. TailIsLast(v)' /\ IdleIsDrained(v)' /\ OfOnePacket(v)'
    BY <2>1, <2>2, <2>3 DEF OutVcInv, TailIsLast, IdleIsDrained, OfOnePacket
  <2> QED
    BY <2>4, <2>5 DEF OutVcInv
<1> QED
  BY <1>1, <1>2 DEF CreditsInPlace

LEMMA OutStep == OutInv /\ [Next]_vars => OutInv'
<1> SUFFICES ASSUME OutInv, [Next]_vars PROVE OutInv'
  OBVIOUS
<1>1. WakeupsOK'
  <2>1. WakeupsOK
    BY DEF OutInv
  <2>2. 0 \in {0, 1} /\ 1 \in {0, 1} /\ 1 # 0
    OBVIOUS
  <2>3. CASE Tick
    <3>1. scheduled \subseteq {1} /\ stage' = "step" /\ scheduled' = {d - 1 : d \in scheduled}
      BY <2>1, <2>3 DEF WakeupsOK, Tick
    <3>2. scheduled' \subseteq {0}
      BY <3>1, 1 - 1 = 0
    <3> QED
      BY <3>1, <3>2 DEF WakeupsOK
  <2>4. CASE ~Tick
    BY <2>1, <2>2, <2>4
    DEF WakeupsOK, Next, Enqueue, CreditArrives, FlitArrives, CreditLinkWakeup, Wake,
        TakeMessages, ScheduleOutputLink, EjectFlits, TakeCredits, vars
  <2> QED
    BY <2>3, <2>4
<1>2. ASSUME NEW u \in VCs, CreditArrives(u) PROVE OutInv'
  <2>1. OutTypeOK'
    BY <1>2, OutTypeCreditArrives DEF OutInv
  <2>2. CreditsInPlace'
    BY <1>2, CreditComes
  <2>3. \A v \in VCs : OutVcInv(v)'
    BY <1>2, VcCreditArrives
  <2> QED
    BY <1>1, <2>1, <2>2, <2>3 DEF OutInv
<1>3. ASSUME NEW n \in Vnets, NEW D \in (SUBSET Nodes) \ {{}}, NEW k \in 1 .. MaxFlits,
             Enqueue(n, SetToSeq(D), k)
      PROVE  OutInv'
  <2>1. OutTypeOK'
    BY <1>3, OutTypeEnqueue DEF OutInv
  <2>2. UNCHANGED <<vcState, credits, niOutVcs, creditIn, downstream>>
    BY <1>3 DEF Enqueue
  <2>3. CreditsInPlace'
    BY <2>2 DEF OutInv, CreditsInPlace
  <2> QED
    BY <1>1, <2>1, <2>2, <2>3, VcSame DEF OutInv
<1>4. CASE TakeMessages
  <2>1. CreditsInPlace'
    BY <1>4 DEF TakeMessages, OutInv, CreditsInPlace
  <2> QED
    BY <1>1, <1>4, <2>1, OutTypeTakeMessages, VcTakeMessages DEF OutInv
<1>5. CASE ScheduleOutputLink
  <2>1. CreditsInPlace'
    BY <1>5 DEF ScheduleOutputLink, OutInv, CreditsInPlace
  <2> QED
    BY <1>1, <1>5, <2>1, OutTypeScheduleOutputLink, VcScheduleOutputLink DEF OutInv
<1>6. CASE TakeCredits
  BY <1>1, <1>6, OutTypeTakeCredits, VcTakeCredits DEF OutInv
<1>7. ASSUME UNCHANGED outVars PROVE OutInv'
  <2>1. OutTypeOK' /\ CreditsInPlace'
    BY <1>7 DEF outVars, OutInv, OutTypeOK, CreditsInPlace
  <2> QED
    BY <1>1, <1>7, <2>1, VcSame DEF OutInv, outVars
<1>8. CASE Wake \/ Tick \/ EjectFlits \/ UNCHANGED vars
  <2>1. UNCHANGED outVars
    BY <1>8 DEF Wake, Tick, EjectFlits, vars, outVars
  <2> QED
    BY <1>7, <2>1
<1>9. ASSUME NEW p \in InPorts, CreditLinkWakeup(p) PROVE OutInv'
  BY <1>7, <1>9 DEF CreditLinkWakeup
<1>10. ASSUME NEW p \in InPorts, NEW v \in VCs, NEW tail \in BOOLEAN, FlitArrives(p, v, tail)
       PROVE  OutInv'
  BY <1>7, <1>10 DEF FlitArrives
<1> QED
  BY <1>2, <1>3, <1>4, <1>5, <1>6, <1>8, <1>9, <1>10 DEF Next

LEMMA OutAlways == Spec => []OutInv
BY OutInit, OutStep, PTL DEF Spec

(* The messages, VCs, credits and flits of the interface keep their types  *)
(* (TypeOK), whatever its nodes, its ports and its vnets.                  *)
THEOREM InterfaceTypes == Spec => []TypeOK
<1>1. OutInv /\ InInv => TypeOK
  BY DEF OutInv, WakeupsOK, InInv, TypeOK
<1> QED
  BY <1>1, OutAlways, InAlways, PTL

(* An IDLE_ VC has all its credits.                                        *)
LEMMA IdleHasCredits ==
    ASSUME OutInv, NEW v \in VCs, vcState[v] = IDLE_
    PROVE  niOutVcs[v] = << >> /\ downstream[v] = << >> /\ credits[v] = Depth /\ ~Credited(v)
<1>1. niOutVcs[v] = << >> /\ downstream[v] = << >> /\ ~Credited(v)
  BY DEF OutInv, OutVcInv, IdleIsDrained
<1>2. credits[v] + Len(downstream[v]) + One(Credited(v)) = Depth
  BY DEF OutInv, OutVcInv, Balance
<1>3. One(Credited(v)) = 0
  BY <1>1 DEF One
<1>4. Len(downstream[v]) = 0
  BY <1>1, EmptySeq
<1>5. credits[v] \in Int
  BY DEF OutInv, OutTypeOK
<1>6. credits[v] = Depth
  <2> DEFINE c == credits[v]
  <2>1. c + 0 + 0 = Depth
    BY <1>2, <1>3, <1>4
  <2>2. c \in Int
    BY <1>5
  <2> HIDE DEF c
  <2>3. c = Depth
    BY <2>1, <2>2, SizesAssumption
  <2> QED
    BY <2>3 DEF c
<1> QED
  BY <1>1, <1>6

(* What is left of a packet is flits of it, of which the last is the tail. *)
LEMMA RestIsOfOne ==
    ASSUME NEW m \in Msgs, NEW d \in Nodes, NEW n \in Nat \ {0},
           NEW j \in DOMAIN Rest(m, d, n)
    PROVE  /\ Rest(m, d, n)[j].msg = m /\ Rest(m, d, n)[j].dest = d
           /\ Rest(m, d, n)[j].tail <=> j = n
BY DEF Rest

(* The flits in a VC are of one packet, which ends with its tail, and an   *)
(* IDLE_ VC has all its credits and nothing on the way (OnePacketPerVc):   *)
(* a VC is never given to a packet before the free signal of the last one. *)
THEOREM OnePacketPerVcAlways == Spec => []OnePacketPerVc
<1>1. OutInv => OnePacketPerVc
  <2> SUFFICES ASSUME OutInv, NEW v \in VCs
               PROVE  /\ \A j, k \in DOMAIN niOutVcs[v] :
                           /\ niOutVcs[v][j].msg = niOutVcs[v][k].msg
                           /\ niOutVcs[v][j].dest = niOutVcs[v][k].dest
                           /\ niOutVcs[v][j].tail <=> j = Len(niOutVcs[v])
                      /\ vcState[v] = IDLE_ =>
                           /\ niOutVcs[v] = << >> /\ downstream[v] = << >>
                           /\ credits[v] = Depth /\ ~Credited(v)
    BY DEF OnePacketPerVc
  <2>1. OfOnePacket(v)
    BY DEF OutInv, OutVcInv
  <2>2. ASSUME NEW j \in DOMAIN niOutVcs[v], NEW k \in DOMAIN niOutVcs[v]
        PROVE  /\ niOutVcs[v][j].msg = niOutVcs[v][k].msg
               /\ niOutVcs[v][j].dest = niOutVcs[v][k].dest
               /\ niOutVcs[v][j].tail <=> j = Len(niOutVcs[v])
    <3>1. niOutVcs[v] # << >>
      BY <2>2
    <3>2. PICK m \in Msgs, d \in Nodes, n \in Nat \ {0} : niOutVcs[v] = Rest(m, d, n)
      BY <2>1, <3>1 DEF OfOnePacket
    <3>3. Len(Rest(m, d, n)) = n
      BY RestIs
    <3>4. /\ Rest(m, d, n)[j].msg = m /\ Rest(m, d, n)[j].dest = d
          /\ Rest(m, d, n)[j].tail <=> j = n
      BY <2>2, <3>2, RestIsOfOne
    <3>5. Rest(m, d, n)[k].msg = m /\ Rest(m, d, n)[k].dest = d
      BY <2>2, <3>2, RestIsOfOne
    <3> QED
      BY <3>2, <3>3, <3>4, <3>5
  <2>3. vcState[v] = IDLE_ => /\ niOutVcs[v] = << >> /\ downstream[v] = << >>
                              /\ credits[v] = Depth /\ ~Credited(v)
    BY IdleHasCredits
  <2> QED
    BY <2>2, <2>3
<1> QED
  BY <1>1, OutAlways, PTL

-----------------------------------------------------------------------------
(* The messages that wait                                                  *)

(* The messages are numbered as they are accepted.                         *)
LastId == Cardinality(Accepted)
Numbered == LastId \in Nat /\ Accepted = 1 .. LastId

(* A queue holds messages in the order in which they were accepted; each   *)
(* of their destinations is listed once.                                   *)
QueueInv(n) ==
    LET q == messages[n] IN
    /\ \A i \in 1 .. Len(q) : i <= q[i].id /\ q[i].id <= LastId /\ IsInjective(q[i].dests)
    /\ \A i, j \in 1 .. Len(q) : i < j => q[i].id < q[j].id

MsgInv == Numbered /\ \A n \in Vnets : QueueInv(n)

(* What is left of a queue when k destinations of its first message have   *)
(* been served.                                                            *)
LeftOf(q, r, k) ==
    /\ q \in Seq(Message) /\ q # << >> /\ Len(q) \in Nat \ {0} /\ Head(q) = q[1]
    /\ Len(q[1].dests) \in Nat /\ k \in Nat
    /\ k = Len(q[1].dests) =>
         /\ Len(r) = Len(q) - 1
         /\ \A i \in 1 .. Len(q) - 1 : r[i] = q[i + 1]
    /\ k # Len(q[1].dests) =>
         /\ Len(r) = Len(q)
         /\ r[1] = [q[1] EXCEPT !.dests = SubSeq(@, k + 1, Len(@))]
         /\ \A i \in 2 .. Len(q) : r[i] = q[i]

LEMMA RemainingParts ==
    ASSUME OutTypeOK, NEW n \in Vnets, Waiting(n)
    PROVE  LeftOf(messages[n], Remaining(n), Cardinality(Served(n)))
<1> DEFINE q == messages[n]
           r == Remaining(n)
           k == Cardinality(Served(n))
<1>1. q \in Seq(Message) /\ q # << >>
  BY DEF OutTypeOK, Waiting
<1>2. /\ Len(q) \in Nat \ {0} /\ Head(q) = q[1] /\ q[1] \in Message
      /\ Tail(q) \in Seq(Message) /\ Len(Tail(q)) = Len(q) - 1
      /\ \A i \in 1 .. Len(q) - 1 : Tail(q)[i] = q[i + 1]
  BY <1>1, TakeFrom
<1>3. Len(q[1].dests) \in Nat
  <2>1. q[1].dests \in Seq(Nodes)
    BY <1>2 DEF Message
  <2> QED
    BY <2>1, LengthOf
<1>4. k \in Nat
  BY ServedAre
<1>5. CASE k = Len(q[1].dests)
  <2>1. r = Tail(q)
    BY <1>2, <1>5 DEF Remaining
  <2> QED
    BY <1>1, <1>2, <1>3, <1>4, <1>5, <2>1 DEF LeftOf
<1>6. CASE k # Len(q[1].dests)
  <2> DEFINE x == [q[1] EXCEPT !.dests = SubSeq(@, k + 1, Len(@))]
             t == Tail(q)
  <2>1. r = << x >> \o t
    BY <1>2, <1>6 DEF Remaining
  <2>2. Len(t) \in Nat /\ Len(t) = Len(q) - 1 /\ \A i \in 1 .. Len(t) : t[i] = q[i + 1]
    BY <1>2
  <2> HIDE DEF x, t
  <2>3. << x >> \in Seq({x}) /\ Len(<< x >>) = 1 /\ << x >>[1] = x
    OBVIOUS
  <2>4. t \in Seq(Message)
    BY <1>2 DEF t
  <2>5. /\ Len(r) = 1 + Len(t)
        /\ \A i \in 1 .. Len(r) : r[i] = IF i <= 1 THEN << x >>[i] ELSE t[i - 1]
    BY <2>1, <2>3, <2>4, ConcatProperties
  <2>6. Len(r) = Len(q) /\ 1 \in 1 .. Len(r)
    BY <1>2, <2>2, <2>5
  <2>7. r[1] = x
    BY <2>3, <2>5, <2>6
  <2>8. ASSUME NEW i \in 2 .. Len(q) PROVE r[i] = q[i]
    <3>1. i \in 1 .. Len(r) /\ ~(i <= 1) /\ i - 1 \in 1 .. Len(t) /\ (i - 1) + 1 = i
      BY <1>2, <2>2, <2>6
    <3> QED
      BY <2>2, <2>5, <3>1
  <2> QED
    BY <1>1, <1>2, <1>3, <1>4, <1>6, <2>6, <2>7, <2>8 DEF x, LeftOf
<1> QED
  BY <1>5, <1>6

(* The rest of a sequence; it lists nothing twice if the whole does not.   *)
LEMMA PartOfSeq ==
    ASSUME NEW S, NEW s \in Seq(S), NEW k \in Nat, NEW p, p = SubSeq(s, k + 1, Len(s))
    PROVE  /\ p \in Seq(S)
           /\ k <= Len(s) => Len(p) = Len(s) - k
           /\ \A i \in 1 .. Len(p) : k + i \in 1 .. Len(s) /\ p[i] = s[k + i]
<1> DEFINE l == Len(s)
<1>1. l \in Nat /\ DOMAIN s = 1 .. l /\ \A i \in 1 .. l : s[i] \in S
  BY LengthOf
<1>2. \A i \in k + 1 .. l : s[i] \in S
  <2> HIDE DEF l
  <2> QED
    BY <1>1
<1>3. /\ p \in Seq(S) /\ Len(p) = (IF k + 1 <= l THEN l - (k + 1) + 1 ELSE 0)
      /\ \A i \in 1 .. l - (k + 1) + 1 : p[i] = s[(k + 1) + i - 1]
  <2> HIDE DEF l
  <2>1. k + 1 \in Int /\ l \in Int /\ p = SubSeq(s, k + 1, l)
    BY <1>1 DEF l
  <2> QED
    BY <1>2, <2>1, SubSeqProperties
<1> HIDE DEF l
<1>4. k <= l => Len(p) = l - k
  BY <1>1, <1>3
<1>5. ASSUME NEW i \in 1 .. Len(p) PROVE k + i \in 1 .. l /\ p[i] = s[k + i]
  <2>1. k + 1 <= l /\ Len(p) = l - k
    BY <1>1, <1>3
  <2>2. i \in 1 .. l - (k + 1) + 1 /\ (k + 1) + i - 1 = k + i /\ k + i \in 1 .. l
    BY <1>1, <2>1
  <2> QED
    BY <1>3, <2>2
<1> QED
  BY <1>3, <1>4, <1>5 DEF l

LEMMA PartListsOnce ==
    ASSUME NEW S, NEW s \in Seq(S), NEW k \in Nat, NEW p, p = SubSeq(s, k + 1, Len(s)),
           IsInjective(s)
    PROVE  IsInjective(p)
<1>1. p \in Seq(S) /\ \A i \in 1 .. Len(p) : k + i \in 1 .. Len(s) /\ p[i] = s[k + i]
  BY PartOfSeq
<1>2. DOMAIN p = 1 .. Len(p) /\ Len(p) \in Nat /\ DOMAIN s = 1 .. Len(s)
  BY <1>1, LengthOf
<1>3. ASSUME NEW i \in 1 .. Len(p), NEW j \in 1 .. Len(p), p[i] = p[j] PROVE i = j
  <2>1. k + i \in 1 .. Len(s) /\ k + j \in 1 .. Len(s) /\ s[k + i] = s[k + j]
    BY <1>1, <1>3
  <2>2. k + i = k + j
    BY <1>2, <2>1 DEF IsInjective
  <2>3. \A x : x \in 1 .. Len(p) => x \in Int
    OBVIOUS
  <2>4. i \in Int /\ j \in Int
    BY <2>3
  <2> QED
    BY <2>2, <2>4
<1> QED
  BY <1>2, <1>3 DEF IsInjective

LEMMA MsgInit == Init => MsgInv
<1> SUFFICES ASSUME Init PROVE MsgInv
  OBVIOUS
<1>1. Accepted = {} /\ LastId = 0
  BY FS_EmptySet DEF Init, Accepted, LastId
<1>2. \A n \in Vnets : QueueInv(n)
  BY DEF Init, QueueInv
<1> QED
  BY <1>1, <1>2 DEF MsgInv, Numbered

(* What the driver's enqueue does.                                         *)
LEMMA EnqueueIs ==
    ASSUME OutTypeOK, MsgInv,
           NEW n \in Vnets, NEW D \in (SUBSET Nodes) \ {{}}, NEW k \in 1 .. MaxFlits,
           Enqueue(n, SetToSeq(D), k)
    PROVE  /\ Numbered' /\ LastId' = LastId + 1 /\ LastId + 1 \in Msgs
           /\ promised' = promised \cup {<<LastId + 1, d>> : d \in ToSet(SetToSeq(D))}
           /\ SetToSeq(D) \in Seq(Nodes) /\ IsInjective(SetToSeq(D)) /\ Len(SetToSeq(D)) > 0
           /\ messages' = [messages EXCEPT ![n] =
                Append(@, [id |-> LastId + 1, dests |-> SetToSeq(D), size |-> k])]
           /\ UNCHANGED <<niOutVcs, earlier, sent>>
<1> DEFINE e == SetToSeq(D)
<1>1. e \in Seq(Nodes) /\ IsInjective(e) /\ Len(e) > 0
  <2>1. IsFiniteSet(D)
    BY NodesAssumption, FS_Subset
  <2>2. e \in Seq(D) /\ IsInjective(e) /\ Len(e) = Cardinality(D) /\ Cardinality(D) \in Nat
    BY <2>1, SetAsSeqIs
  <2>3. Cardinality(D) # 0
    BY <2>1, FS_EmptySet
  <2> QED
    BY <2>2, <2>3
<1>2. /\ LastId + 1 \in Msgs
      /\ promised' = promised \cup {<<LastId + 1, d>> : d \in ToSet(e)}
      /\ messages' = [messages EXCEPT ![n] =
           Append(@, [id |-> LastId + 1, dests |-> e, size |-> k])]
      /\ UNCHANGED <<niOutVcs, earlier, sent>>
  BY DEF Enqueue, LastId
<1> HIDE DEF e
<1>3. ToSet(e) # {}
  <2>1. 1 \in DOMAIN e
    BY <1>1, LengthOf
  <2> QED
    BY <2>1 DEF ToSet
<1>4. LastId \in Nat /\ Accepted = 1 .. LastId
  BY DEF MsgInv, Numbered
<1>5. Accepted' = Accepted \cup {LastId + 1}
  <2> DEFINE more == {<<LastId + 1, d>> : d \in ToSet(e)}
  <2>1. Accepted' = Accepted \cup {x[1] : x \in more}
    BY <1>2 DEF Accepted
  <2>2. {x[1] : x \in more} = {LastId + 1}
    <3>1. \A d : <<LastId + 1, d>>[1] = LastId + 1
      OBVIOUS
    <3>2. ASSUME NEW y \in {x[1] : x \in more} PROVE y = LastId + 1
      <4>1. PICK x \in more : y = x[1]
        OBVIOUS
      <4>2. PICK d \in ToSet(e) : x = <<LastId + 1, d>>
        OBVIOUS
      <4> QED
        BY <4>1, <4>2
    <3>3. LastId + 1 \in {x[1] : x \in more}
      <4>1. PICK d : d \in ToSet(e)
        BY <1>3
      <4>2. <<LastId + 1, d>> \in more
        BY <4>1
      <4> HIDE DEF more
      <4> QED
        BY <3>1, <4>2
    <3> HIDE DEF more
    <3> QED
      BY <3>2, <3>3
  <2> QED
    BY <2>1, <2>2
<1>6. Accepted' = 1 .. LastId + 1
  BY <1>4, <1>5
<1>7. LastId' = LastId + 1
  <2>1. Cardinality(1 .. LastId + 1) = LastId + 1
    BY <1>4, FS_Interval
  <2>2. LastId' = Cardinality(Accepted')
    BY DEF LastId
  <2> QED
    BY <1>6, <2>1, <2>2
<1>8. Numbered'
  BY <1>4, <1>6, <1>7 DEF Numbered
<1> QED
  BY <1>1, <1>2, <1>7, <1>8 DEF e

LEMMA MsgEnqueue ==
    ASSUME OutTypeOK, MsgInv,
           NEW n \in Vnets, NEW D \in (SUBSET Nodes) \ {{}}, NEW k \in 1 .. MaxFlits,
           Enqueue(n, SetToSeq(D), k)
    PROVE  MsgInv'
<1> DEFINE x == [id |-> LastId + 1, dests |-> SetToSeq(D), size |-> k]
           q == messages[n]
           a == Append(q, x)
<1>1. /\ Numbered' /\ LastId' = LastId + 1 /\ IsInjective(SetToSeq(D))
      /\ messages' = [messages EXCEPT ![n] = a] /\ x \in Message
      /\ q \in Seq(Message) /\ messages \in [Vnets -> Seq(Message)]
  BY EnqueueIs DEF OutTypeOK, Message
<1>2. x.id = LastId + 1 /\ IsInjective(x.dests)
  BY <1>1
<1> HIDE DEF x
<1>3. /\ Len(q) \in Nat /\ Len(a) = Len(q) + 1 /\ a[Len(q) + 1] = x
      /\ \A i \in 1 .. Len(q) : a[i] = q[i]
  BY <1>1, AppendTo
<1> HIDE DEF a
<1>4. LastId \in Nat
  BY DEF MsgInv, Numbered
<1>5. ASSUME NEW w \in Vnets PROVE QueueInv(w)'
  <2>1. QueueInv(w)
    BY DEF MsgInv
  <2>2. \A i \in 1 .. Len(messages[w]) : messages[w][i].id \in Int
    <3>1. messages[w] \in Seq(Message)
      BY <1>1
    <3>2. \A m \in Message : m.id \in Int
      BY DEF Message, Msgs
    <3> QED
      BY <3>1, <3>2, LengthOf
  <2>3. CASE w # n
    <3>1. messages'[w] = messages[w]
      BY <1>1, <2>3
    <3>2. \A i \in 1 .. Len(messages[w]) : messages[w][i].id <= LastId + 1
      BY <1>4, <2>1, <2>2 DEF QueueInv
    <3> QED
      BY <1>1, <2>1, <3>1, <3>2 DEF QueueInv
  <2>4. CASE w = n
    <3>1. messages'[w] = a
      BY <1>1, <2>4
    <3>2. /\ \A i \in 1 .. Len(q) : i <= q[i].id /\ q[i].id <= LastId /\ IsInjective(q[i].dests)
          /\ \A i, j \in 1 .. Len(q) : i < j => q[i].id < q[j].id
          /\ \A i \in 1 .. Len(q) : q[i].id \in Int
      BY <2>1, <2>2, <2>4 DEF QueueInv
    <3> HIDE DEF q
    <3>3. Len(q) <= LastId
      <4>1. CASE Len(q) = 0
        BY <1>4, <4>1
      <4>2. CASE Len(q) # 0
        <5>1. Len(q) \in 1 .. Len(q)
          BY <1>3, <4>2
        <5>2. Len(q) <= q[Len(q)].id /\ q[Len(q)].id <= LastId /\ q[Len(q)].id \in Int
          BY <3>2, <5>1
        <5> QED
          BY <1>3, <1>4, <5>2
      <4> QED
        BY <4>1, <4>2
    <3>4. ASSUME NEW i \in 1 .. Len(a)
          PROVE  i <= a[i].id /\ a[i].id <= LastId + 1 /\ IsInjective(a[i].dests)
      <4>1. CASE i \in 1 .. Len(q)
        <5>1. i <= q[i].id /\ q[i].id <= LastId /\ q[i].id \in Int /\ IsInjective(q[i].dests)
          BY <3>2, <4>1
        <5> QED
          BY <1>3, <1>4, <4>1, <5>1
      <4>2. CASE i = Len(q) + 1
        BY <1>2, <1>3, <1>4, <3>3, <4>2
      <4> QED
        BY <1>3, <4>1, <4>2
    <3>5. ASSUME NEW i \in 1 .. Len(a), NEW j \in 1 .. Len(a), i < j
          PROVE  a[i].id < a[j].id
      <4>1. i \in 1 .. Len(q) /\ a[i] = q[i] /\ q[i].id <= LastId /\ q[i].id \in Int
        BY <1>3, <3>2, <3>5
      <4>2. CASE j \in 1 .. Len(q)
        BY <1>3, <3>2, <3>5, <4>1, <4>2
      <4>3. CASE j = Len(q) + 1
        BY <1>2, <1>3, <1>4, <4>1, <4>3
      <4> QED
        BY <1>3, <4>2, <4>3
    <3> QED
      BY <1>1, <3>1, <3>4, <3>5 DEF QueueInv
  <2> QED
    BY <2>3, <2>4
<1> QED
  BY <1>1, <1>5 DEF MsgInv

(* The ids in a queue and the destinations of its messages.                *)
LEMMA MessagesAre ==
    ASSUME OutTypeOK, NEW n \in Vnets, NEW i \in 1 .. Len(messages[n])
    PROVE  /\ messages[n][i] \in Message /\ messages[n][i].id \in Msgs
           /\ messages[n][i].id \in Int /\ messages[n][i].dests \in Seq(Nodes)
<1>1. messages[n] \in Seq(Message)
  BY DEF OutTypeOK
<1>2. messages[n][i] \in Message
  BY <1>1, LengthOf
<1> QED
  BY <1>2 DEF Message, Msgs

(* Every message left in a queue is one that was there, one place further  *)
(* or at the same place, and the first one may have lost destinations.     *)
LEMMA QueueMoves ==
    ASSUME OutTypeOK, TakeMessages, NEW n \in Vnets, NEW i \in 1 .. Len(messages'[n])
    PROVE  \E s \in {0, 1} :
             /\ Len(messages'[n]) = Len(messages[n]) - s
             /\ \A j \in 1 .. Len(messages'[n]) :
                  /\ j + s \in 1 .. Len(messages[n])
                  /\ messages'[n][j].id = messages[n][j + s].id
                  /\ IsInjective(messages[n][j + s].dests) => IsInjective(messages'[n][j].dests)
<1> DEFINE q == messages[n]
           r == messages'[n]
           k == Cardinality(Served(n))
<1>1. messages' = [w \in Vnets |-> IF Waiting(w) THEN Remaining(w) ELSE << >>]
  BY DEF TakeMessages
<1>2. Waiting(n)
  BY <1>1
<1>3. r = Remaining(n) /\ q = messages[n] /\ k = Cardinality(Served(n))
  BY <1>1, <1>2
<1> HIDE DEF q, r, k
<1>4. /\ q \in Seq(Message) /\ Len(q) \in Nat \ {0} /\ Len(q[1].dests) \in Nat /\ k \in Nat
      /\ k = Len(q[1].dests) =>
           Len(r) = Len(q) - 1 /\ \A j \in 1 .. Len(q) - 1 : r[j] = q[j + 1]
      /\ k # Len(q[1].dests) =>
           /\ Len(r) = Len(q)
           /\ r[1] = [q[1] EXCEPT !.dests = SubSeq(@, k + 1, Len(@))]
           /\ \A j \in 2 .. Len(q) : r[j] = q[j]
  <2>1. LeftOf(q, r, k)
    BY <1>2, <1>3, RemainingParts
  <2> QED
    BY <2>1 DEF LeftOf
<1>5. q[1] \in Message
  BY <1>4, LengthOf
<1>6. CASE k = Len(q[1].dests)
  <2>1. /\ Len(r) = Len(q) - 1
        /\ \A j \in 1 .. Len(r) : j + 1 \in 1 .. Len(q) /\ r[j] = q[j + 1]
    BY <1>4, <1>6
  <2> QED
    BY <2>1 DEF q, r
<1>7. CASE k # Len(q[1].dests)
  <2>1. r[1].id = q[1].id /\ (IsInjective(q[1].dests) => IsInjective(r[1].dests))
    <3> DEFINE s == q[1].dests
               p == SubSeq(s, k + 1, Len(s))
    <3>1. r[1] = [q[1] EXCEPT !.dests = p] /\ p = SubSeq(s, k + 1, Len(s))
      BY <1>4, <1>7
    <3>2. s \in Seq(Nodes)
      BY <1>5 DEF Message
    <3> HIDE DEF s, p
    <3>3. ASSUME IsInjective(s) PROVE IsInjective(p)
      <4>1. k \in Nat /\ p = SubSeq(s, k + 1, Len(s))
        BY <1>4, <3>1
      <4> QED
        BY ONLY <3>2, <3>3, <4>1, PartListsOnce
    <3>4. r[1].id = q[1].id /\ r[1].dests = p
      BY <1>5, <3>1 DEF Message
    <3> QED
      BY <3>3, <3>4 DEF s
  <2>2. ASSUME NEW j \in 1 .. Len(r)
        PROVE  /\ j + 0 \in 1 .. Len(q) /\ r[j].id = q[j + 0].id
               /\ IsInjective(q[j + 0].dests) => IsInjective(r[j].dests)
    <3>1. j + 0 = j /\ j \in 1 .. Len(q) /\ (j # 1 => j \in 2 .. Len(q))
      BY <1>4, <1>7
    <3>2. CASE j = 1
      BY <2>1, <3>1, <3>2
    <3>3. CASE j # 1
      <4>1. r[j] = q[j]
        BY <1>4, <1>7, <3>1, <3>3
      <4> QED
        BY <3>1, <4>1
    <3> QED
      BY <3>2, <3>3
  <2>3. Len(r) = Len(q) - 0
    BY <1>4, <1>7
  <2> QED
    BY <2>2, <2>3 DEF q, r
<1> QED
  BY <1>6, <1>7

LEMMA MsgTakeMessages ==
    ASSUME OutTypeOK, MsgInv, TakeMessages
    PROVE  MsgInv'
<1>1. LastId' = LastId /\ Accepted' = Accepted
  BY DEF TakeMessages, LastId, Accepted
<1>2. ASSUME NEW n \in Vnets PROVE QueueInv(n)'
  <2> DEFINE q == messages[n]
             r == messages'[n]
  <2>1. /\ \A i \in 1 .. Len(q) : i <= q[i].id /\ q[i].id <= LastId /\ IsInjective(q[i].dests)
        /\ \A i, j \in 1 .. Len(q) : i < j => q[i].id < q[j].id
    BY DEF MsgInv, QueueInv
  <2>2. \A i \in 1 .. Len(q) : q[i].id \in Int
    BY MessagesAre
  <2>3. ASSUME NEW i \in 1 .. Len(r)
        PROVE  \E s \in {0, 1} :
                 \A j \in 1 .. Len(r) :
                  /\ j + s \in 1 .. Len(q)
                  /\ r[j].id = q[j + s].id
                  /\ IsInjective(q[j + s].dests) => IsInjective(r[j].dests)
    BY QueueMoves
  <2> HIDE DEF q, r
  <2>4. ASSUME NEW i \in 1 .. Len(r)
        PROVE  i <= r[i].id /\ r[i].id <= LastId /\ IsInjective(r[i].dests)
    <3>1. PICK s \in {0, 1} : /\ i + s \in 1 .. Len(q) /\ r[i].id = q[i + s].id
                              /\ IsInjective(q[i + s].dests) => IsInjective(r[i].dests)
      BY <2>3
    <3>2. /\ i + s <= q[i + s].id /\ q[i + s].id <= LastId /\ IsInjective(q[i + s].dests)
          /\ q[i + s].id \in Int
      BY <2>1, <2>2, <3>1
    <3>3. i <= i + s /\ i \in Int
      OBVIOUS
    <3> QED
      BY <3>1, <3>2, <3>3
  <2>5. ASSUME NEW i \in 1 .. Len(r), NEW j \in 1 .. Len(r), i < j
        PROVE  r[i].id < r[j].id
    <3>1. PICK s \in {0, 1} :
            \A h \in 1 .. Len(r) : h + s \in 1 .. Len(q) /\ r[h].id = q[h + s].id
      BY <2>3
    <3>2. i + s < j + s
      BY <2>5
    <3> QED
      BY <2>1, <3>1, <3>2
  <2> QED
    BY <1>1, <2>4, <2>5 DEF QueueInv, q, r
<1> QED
  BY <1>1, <1>2 DEF MsgInv, Numbered

LEMMA MsgStep == OutTypeOK /\ MsgInv /\ [Next]_vars => MsgInv'
<1> SUFFICES ASSUME OutTypeOK, MsgInv, [Next]_vars PROVE MsgInv'
  OBVIOUS
<1>1. ASSUME NEW n \in Vnets, NEW D \in (SUBSET Nodes) \ {{}}, NEW k \in 1 .. MaxFlits,
             Enqueue(n, SetToSeq(D), k)
      PROVE  MsgInv'
  BY <1>1, MsgEnqueue
<1>2. CASE TakeMessages
  BY <1>2, MsgTakeMessages
<1>3. ASSUME UNCHANGED <<messages, promised>> PROVE MsgInv'
  BY <1>3 DEF MsgInv, Numbered, QueueInv, LastId, Accepted
<1>4. ASSUME NEW v \in VCs, CreditArrives(v) PROVE MsgInv'
  BY <1>3, <1>4 DEF CreditArrives
<1>5. ASSUME NEW p \in InPorts, NEW v \in VCs, NEW tail \in BOOLEAN, FlitArrives(p, v, tail)
      PROVE  MsgInv'
  BY <1>3, <1>5 DEF FlitArrives, outVars
<1>6. ASSUME NEW p \in InPorts, CreditLinkWakeup(p) PROVE MsgInv'
  BY <1>3, <1>6 DEF CreditLinkWakeup, outVars
<1>7. CASE Wake \/ ScheduleOutputLink \/ EjectFlits \/ TakeCredits \/ Tick \/ UNCHANGED vars
  BY <1>3, <1>7 DEF Wake, ScheduleOutputLink, EjectFlits, TakeCredits, Tick, vars, outVars
<1> QED
  BY <1>1, <1>2, <1>4, <1>5, <1>6, <1>7 DEF Next

-----------------------------------------------------------------------------
(* Ordered vnets                                                           *)

MsgOf(v) == Head(niOutVcs[v]).msg
DestOf(v) == Head(niOutVcs[v]).dest
TurnOf(v) == Turn(VnetOf(v), v - VcOf(VnetOf(v), 0))
Filled(v) == niOutVcs[v] # << >>

(* The flits of a VC are of a message not after those that still wait in   *)
(* the buffer, and a VC with flits of an earlier message was filled in an  *)
(* earlier tick.                                                           *)
InOrder(v) ==
    Filled(v) =>
        /\ MsgOf(v) <= LastId
        /\ \A i \in 1 .. Len(messages[VnetOf(v)]) : MsgOf(v) <= messages[VnetOf(v)][i].id
        /\ \A w \in VCs :
             VnetOf(w) = VnetOf(v) /\ Filled(w) /\ MsgOf(w) < MsgOf(v) => w \in earlier[v]

OrderInv == \A v \in VCs : InOrder(v)

LEMMA HeadOfRest ==
    ASSUME NEW m \in Msgs, NEW d \in Nodes, NEW n \in Nat \ {0}
    PROVE  /\ Head(Rest(m, d, n)).msg = m /\ Head(Rest(m, d, n)).dest = d
           /\ Head(Rest(m, d, n)) = Rest(m, d, n)[1]
<1>1. Rest(m, d, n) \in Seq(FlitsOfNi) /\ Rest(m, d, n) # << >>
  BY RestIs
<1>2. Head(Rest(m, d, n)) = Rest(m, d, n)[1]
  BY <1>1, TakeFrom
<1>3. Rest(m, d, n)[1] = [msg |-> m, dest |-> d, tail |-> 1 = n]
  BY DEF Rest
<1> QED
  BY <1>2, <1>3

LEMMA MsgOfFilled ==
    ASSUME OutInv, NEW v \in VCs, Filled(v)
    PROVE  MsgOf(v) \in Msgs /\ MsgOf(v) \in Int
<1>1. PICK m \in Msgs, d \in Nodes, n \in Nat \ {0} : niOutVcs[v] = Rest(m, d, n)
  BY DEF OutInv, OutVcInv, OfOnePacket, Filled
<1>2. MsgOf(v) = m
  BY <1>1, HeadOfRest DEF MsgOf
<1> QED
  BY <1>2 DEF Msgs

(* A VC that is filled by wakeup gets flits of the first message.          *)
LEMMA FilledNow ==
    ASSUME OutInv, TakeMessages, NEW v \in Allocated
    PROVE  /\ v \in VCs /\ VnetOf(v) \in Vnets /\ 1 \in 1 .. Len(messages[VnetOf(v)])
           /\ ~Filled(v) /\ niOutVcs'[v] = NewPacket(v) /\ Filled(v)'
           /\ MsgOf(v)' = messages[VnetOf(v)][1].id
           /\ DestOf(v)' = messages[VnetOf(v)][1].dests[TurnOf(v) + 1]
<1>1. PICK n \in Vnets : \E k \in Served(n) : v = VcOf(n, k)
  BY DEF Allocated
<1>2. PICK k \in Served(n) : v = VcOf(n, k)
  BY <1>1
<1>3. /\ k \in 0 .. VcPerVnet - 1 /\ Waiting(n) /\ Turn(n, k) \in Nat
      /\ Turn(n, k) < Len(Head(messages[n]).dests)
  BY ServedAre
<1>4. v \in VCs /\ VnetOf(v) = n
  BY <1>2, <1>3, VcsOfVnets
<1> DEFINE m == messages[n][1]
           t == Turn(n, v - VcOf(n, 0))
<1>5. messages[n] \in Seq(Message) /\ messages[n] # << >>
  BY <1>3 DEF OutInv, OutTypeOK, Waiting
<1>6. Len(messages[n]) \in Nat \ {0} /\ Head(messages[n]) = m /\ m \in Message
  BY <1>5, TakeFrom
<1>7. NewPacket(v) = Packet(m, m.dests[t + 1])
  BY <1>4, <1>6 DEF NewPacket
<1>8. niOutVcs'[v] = niOutVcs[v] \o NewPacket(v)
  BY <1>4 DEF TakeMessages
<1>9. PICK i \in Msgs, d \in Nodes, l \in Nat \ {0} : NewPacket(v) = Rest(i, d, l)
  BY NewPacketIs DEF OutInv
<1>10. niOutVcs[v] = << >>
  <2>1. vcState[v] = IDLE_
    BY NewPacketIs DEF OutInv
  <2> QED
    BY <1>4, <2>1, IdleHasCredits
<1>11. niOutVcs'[v] = NewPacket(v)
  <2>1. Rest(i, d, l) \in Seq(FlitsOfNi)
    BY RestIs
  <2>2. << >> \o Rest(i, d, l) = Rest(i, d, l)
    BY <2>1, ConcatEmptySeq
  <2> QED
    BY <1>8, <1>9, <1>10, <2>2
<1>12. NewPacket(v) # << >> /\ Head(NewPacket(v)) = NewPacket(v)[1]
  BY <1>9, RestIs, HeadOfRest
<1>13. NewPacket(v)[1].msg = m.id /\ NewPacket(v)[1].dest = m.dests[t + 1]
  <2>1. m.size \in Nat \ {0}
    BY <1>6, SizesAssumption DEF Message
  <2>2. 1 \in 1 .. m.size
    BY <2>1
  <2> HIDE DEF m
  <2>3. Packet(m, m.dests[t + 1])[1] =
          [msg |-> m.id, dest |-> m.dests[t + 1], tail |-> 1 = m.size]
    BY <2>2 DEF Packet
  <2> QED
    BY <1>7, <2>3
<1> QED
  BY <1>4, <1>6, <1>10, <1>11, <1>12, <1>13 DEF Filled, MsgOf, DestOf, TurnOf

(* A VC that has flits after one was sent had them before.                 *)
LEMMA FilledStill ==
    ASSUME OutInv, ScheduleOutputLink, NEW v \in VCs, Filled(v)'
    PROVE  Filled(v) /\ MsgOf(v)' = MsgOf(v) /\ DestOf(v)' = DestOf(v) /\ v \notin Ended
<1>1. niOutVcs'[v] = IF v \in Winners THEN Tail(niOutVcs[v]) ELSE niOutVcs[v]
  BY DEF ScheduleOutputLink
<1>2. CASE v \notin Winners
  BY <1>1, <1>2 DEF Filled, MsgOf, DestOf, Ended
<1>3. CASE v \in Winners
  <2>1. Filled(v)
    BY <1>3, WinnersAre DEF OutInv, Filled
  <2>2. PICK m \in Msgs, d \in Nodes, n \in Nat \ {0} : niOutVcs[v] = Rest(m, d, n)
    BY <2>1 DEF OutInv, OutVcInv, OfOnePacket, Filled
  <2>3. Tail(niOutVcs[v]) = (IF n = 1 THEN << >> ELSE Rest(m, d, n - 1))
        /\ (Head(niOutVcs[v]).tail <=> n = 1)
    BY <2>2, RestIs
  <2>4. niOutVcs'[v] = IF n = 1 THEN << >> ELSE Rest(m, d, n - 1)
    BY <1>1, <1>3, <2>3
  <2>5. MsgOf(v) = m /\ DestOf(v) = d
    BY <2>2, HeadOfRest DEF MsgOf, DestOf
  <2>6. n # 1 /\ n - 1 \in Nat \ {0}
    BY <2>4 DEF Filled
  <2>7. MsgOf(v)' = m /\ DestOf(v)' = d
    <3>1. Head(Rest(m, d, n - 1)).msg = m /\ Head(Rest(m, d, n - 1)).dest = d
      BY <2>6, HeadOfRest
    <3> QED
      BY <2>6, <2>4, <3>1 DEF MsgOf, DestOf
  <2> QED
    BY <2>1, <2>3, <2>6, <2>7, <2>5 DEF Ended
<1> QED
  BY <1>2, <1>3

LEMMA OrderTakeMessages ==
    ASSUME OutInv, MsgInv, OrderInv, TakeMessages, NEW v \in VCs
    PROVE  InOrder(v)'
<1> DEFINE n == VnetOf(v)
           q == messages[n]
           r == messages'[n]
<1>0. OutTypeOK /\ n \in Vnets /\ LastId' = LastId /\ LastId \in Nat
  BY VcsOfVnets DEF OutInv, TakeMessages, LastId, Accepted, MsgInv, Numbered
<1>1. SUFFICES ASSUME Filled(v)'
               PROVE  /\ MsgOf(v)' <= LastId
                      /\ \A i \in 1 .. Len(r) : MsgOf(v)' <= r[i].id
                      /\ \A w \in VCs :
                           VnetOf(w) = n /\ Filled(w)' /\ MsgOf(w)' < MsgOf(v)'
                           => w \in earlier'[v]
  BY <1>0 DEF InOrder
<1>2. ASSUME NEW w \in VCs, w \notin Allocated
      PROVE  (Filled(w)' <=> Filled(w)) /\ MsgOf(w)' = MsgOf(w)
  BY <1>2 DEF TakeMessages, Filled, MsgOf
<1>3. /\ \A i \in 1 .. Len(q) : i <= q[i].id /\ q[i].id <= LastId
      /\ \A i, j \in 1 .. Len(q) : i < j => q[i].id < q[j].id
      /\ \A i \in 1 .. Len(q) : q[i].id \in Int
  BY <1>0, MessagesAre DEF MsgInv, QueueInv
<1>4. earlier'[v] = IF v \in Allocated
                    THEN {w \in VCs : VnetOf(w) = n /\ Filled(w)}
                    ELSE earlier[v] \ Allocated
  BY DEF TakeMessages, Filled
<1>5. MsgOf(v)' \in Int /\ MsgOf(v)' <= LastId /\ \A i \in 1 .. Len(q) : MsgOf(v)' <= q[i].id
  <2>1. CASE v \in Allocated
    <3>1. 1 \in 1 .. Len(q) /\ MsgOf(v)' = q[1].id
      BY <2>1, FilledNow
    <3>2. ASSUME NEW i \in 1 .. Len(q) PROVE q[1].id <= q[i].id
      <4>1. i = 1 \/ 1 < i
        OBVIOUS
      <4> HIDE DEF q
      <4> QED
        BY <1>3, <3>1, <4>1
    <3> HIDE DEF q
    <3> QED
      BY <1>3, <3>1, <3>2
  <2>2. CASE v \notin Allocated
    <3>1. Filled(v) /\ MsgOf(v)' = MsgOf(v)
      BY <1>1, <1>2, <2>2
    <3> QED
      BY <3>1, MsgOfFilled DEF OrderInv, InOrder
  <2> QED
    BY <2>1, <2>2
<1>6. ASSUME NEW i \in 1 .. Len(r) PROVE MsgOf(v)' <= r[i].id
  <2>1. \E s \in {0, 1} : i + s \in 1 .. Len(q) /\ r[i].id = q[i + s].id
    BY <1>0, QueueMoves
  <2> HIDE DEF q, r
  <2> QED
    BY <1>5, <2>1
<1>7. ASSUME NEW w \in VCs, VnetOf(w) = n, Filled(w)', MsgOf(w)' < MsgOf(v)'
      PROVE  w \in earlier'[v]
  <2>1. w \notin Allocated
    <3>1. ASSUME w \in Allocated PROVE FALSE
      <4>1. 1 \in 1 .. Len(q) /\ MsgOf(w)' = q[1].id
        BY <1>7, <3>1, FilledNow
      <4> HIDE DEF q
      <4>2. MsgOf(v)' <= MsgOf(w)' /\ MsgOf(w)' \in Int
        BY <1>3, <1>5, <4>1
      <4> QED
        BY <1>5, <1>7, <4>2
    <3> QED
      BY <3>1
  <2>2. Filled(w) /\ MsgOf(w)' = MsgOf(w)
    BY <1>2, <1>7, <2>1
  <2>3. CASE v \in Allocated
    BY <1>4, <1>7, <2>2, <2>3
  <2>4. CASE v \notin Allocated
    <3>1. Filled(v) /\ MsgOf(v)' = MsgOf(v)
      BY <1>1, <1>2, <2>4
    <3>2. w \in earlier[v]
      BY <1>7, <2>2, <3>1 DEF OrderInv, InOrder
    <3> QED
      BY <1>4, <2>1, <2>4, <3>2
  <2> QED
    BY <2>3, <2>4
<1> QED
  BY <1>5, <1>6, <1>7

LEMMA OrderScheduleOutputLink ==
    ASSUME OutInv, OrderInv, ScheduleOutputLink, NEW v \in VCs
    PROVE  InOrder(v)'
<1>0. LastId' = LastId /\ messages' = messages
  BY DEF ScheduleOutputLink, LastId, Accepted
<1>1. SUFFICES ASSUME Filled(v)'
               PROVE  /\ MsgOf(v)' <= LastId
                      /\ \A i \in 1 .. Len(messages[VnetOf(v)]) :
                           MsgOf(v)' <= messages[VnetOf(v)][i].id
                      /\ \A w \in VCs :
                           VnetOf(w) = VnetOf(v) /\ Filled(w)' /\ MsgOf(w)' < MsgOf(v)'
                           => w \in earlier'[v]
  BY <1>0 DEF InOrder
<1>2. Filled(v) /\ MsgOf(v)' = MsgOf(v) /\ v \notin Ended
  BY <1>1, FilledStill
<1>3. ASSUME NEW w \in VCs, VnetOf(w) = VnetOf(v), Filled(w)', MsgOf(w)' < MsgOf(v)'
      PROVE  w \in earlier'[v]
  <2>1. Filled(w) /\ MsgOf(w)' = MsgOf(w) /\ w \notin Ended
    BY <1>3, FilledStill
  <2>2. w \in earlier[v]
    BY <1>2, <1>3, <2>1 DEF OrderInv, InOrder
  <2>3. earlier'[v] = earlier[v] \ Ended
    BY <1>2 DEF ScheduleOutputLink
  <2> QED
    BY <2>1, <2>2, <2>3
<1> QED
  BY <1>2, <1>3 DEF OrderInv, InOrder

LEMMA OrderEnqueue ==
    ASSUME OutInv, MsgInv, OrderInv, NEW v \in VCs,
           NEW n \in Vnets, NEW D \in (SUBSET Nodes) \ {{}}, NEW k \in 1 .. MaxFlits,
           Enqueue(n, SetToSeq(D), k)
    PROVE  InOrder(v)'
<1> DEFINE x == [id |-> LastId + 1, dests |-> SetToSeq(D), size |-> k]
           q == messages[n]
           a == Append(q, x)
<1>0. OutTypeOK /\ LastId \in Nat /\ VnetOf(v) \in Vnets
  BY VcsOfVnets DEF OutInv, MsgInv, Numbered
<1>1. /\ LastId' = LastId + 1 /\ messages' = [messages EXCEPT ![n] = a] /\ x \in Message
      /\ q \in Seq(Message) /\ messages \in [Vnets -> Seq(Message)]
      /\ UNCHANGED <<niOutVcs, earlier>>
  BY <1>0, EnqueueIs DEF OutTypeOK, Message
<1>2. x.id = LastId + 1
  OBVIOUS
<1> HIDE DEF x
<1>3. /\ Len(q) \in Nat /\ Len(a) = Len(q) + 1 /\ a[Len(q) + 1] = x
      /\ \A i \in 1 .. Len(q) : a[i] = q[i]
  BY <1>1, AppendTo
<1> HIDE DEF a
<1>4. /\ Filled(v)' <=> Filled(v)
      /\ MsgOf(v)' = MsgOf(v)
      /\ \A w \in VCs : (Filled(w)' <=> Filled(w)) /\ MsgOf(w)' = MsgOf(w)
      /\ earlier' = earlier
  BY <1>1 DEF Filled, MsgOf
<1>5. SUFFICES ASSUME Filled(v)
               PROVE  /\ MsgOf(v) <= LastId + 1
                      /\ \A i \in 1 .. Len(messages'[VnetOf(v)]) :
                           MsgOf(v) <= messages'[VnetOf(v)][i].id
                      /\ \A w \in VCs :
                           VnetOf(w) = VnetOf(v) /\ Filled(w) /\ MsgOf(w) < MsgOf(v)
                           => w \in earlier[v]
  BY <1>1, <1>4 DEF InOrder
<1>6. /\ MsgOf(v) <= LastId /\ MsgOf(v) \in Int
      /\ \A i \in 1 .. Len(messages[VnetOf(v)]) : MsgOf(v) <= messages[VnetOf(v)][i].id
      /\ \A w \in VCs :
           VnetOf(w) = VnetOf(v) /\ Filled(w) /\ MsgOf(w) < MsgOf(v) => w \in earlier[v]
  BY <1>5, MsgOfFilled DEF OrderInv, InOrder
<1>7. MsgOf(v) <= LastId + 1
  BY <1>0, <1>6
<1>8. ASSUME NEW i \in 1 .. Len(messages'[VnetOf(v)])
      PROVE  MsgOf(v) <= messages'[VnetOf(v)][i].id
  <2>1. CASE VnetOf(v) # n
    <3>1. messages'[VnetOf(v)] = messages[VnetOf(v)]
      BY <1>0, <1>1, <2>1
    <3> QED
      BY <1>6, <3>1
  <2>2. CASE VnetOf(v) = n
    <3>1. messages'[VnetOf(v)] = a /\ q = messages[VnetOf(v)]
      BY <1>0, <1>1, <2>2
    <3>2. i \in 1 .. Len(q) \/ i = Len(q) + 1
      BY <1>3, <3>1
    <3> HIDE DEF q
    <3> QED
      BY <1>2, <1>3, <1>6, <1>7, <3>1, <3>2
  <2> QED
    BY <2>1, <2>2
<1> QED
  BY <1>6, <1>7, <1>8

LEMMA OrderStep == OutInv /\ MsgInv /\ OrderInv /\ [Next]_vars => OrderInv'
<1> SUFFICES ASSUME OutInv, MsgInv, OrderInv, [Next]_vars PROVE OrderInv'
  OBVIOUS
<1>1. ASSUME NEW n \in Vnets, NEW D \in (SUBSET Nodes) \ {{}}, NEW k \in 1 .. MaxFlits,
             Enqueue(n, SetToSeq(D), k)
      PROVE  OrderInv'
  BY <1>1, OrderEnqueue DEF OrderInv
<1>2. CASE TakeMessages
  BY <1>2, OrderTakeMessages DEF OrderInv
<1>3. CASE ScheduleOutputLink
  BY <1>3, OrderScheduleOutputLink DEF OrderInv
<1>4. ASSUME UNCHANGED <<messages, niOutVcs, earlier, promised>> PROVE OrderInv'
  BY <1>4 DEF OrderInv, InOrder, Filled, MsgOf, LastId, Accepted
<1>5. ASSUME NEW v \in VCs, CreditArrives(v) PROVE OrderInv'
  BY <1>4, <1>5 DEF CreditArrives
<1>6. ASSUME NEW p \in InPorts, NEW v \in VCs, NEW tail \in BOOLEAN, FlitArrives(p, v, tail)
      PROVE  OrderInv'
  BY <1>4, <1>6 DEF FlitArrives, outVars
<1>7. ASSUME NEW p \in InPorts, CreditLinkWakeup(p) PROVE OrderInv'
  BY <1>4, <1>7 DEF CreditLinkWakeup, outVars
<1>8. CASE Wake \/ EjectFlits \/ TakeCredits \/ Tick \/ UNCHANGED vars
  BY <1>4, <1>8 DEF Wake, EjectFlits, TakeCredits, Tick, vars, outVars
<1> QED
  BY <1>1, <1>2, <1>3, <1>5, <1>6, <1>7, <1>8 DEF Next

LEMMA OrderAlways == Spec => [](OutInv /\ MsgInv /\ OrderInv)
<1>1. Init => OrderInv
  BY DEF Init, OrderInv, InOrder, Filled
<1>2. OutInv => OutTypeOK
  BY DEF OutInv
<1> QED
  BY <1>1, <1>2, OutInit, OutStep, MsgInit, MsgStep, OrderStep, PTL DEF Spec

(* In an ordered vnet a flit never leaves before the flits of an earlier   *)
(* message (OrderKept), whatever the ports, the credits and the order in   *)
(* which the VCs were free.                                                *)
THEOREM OrderAlwaysKept == Spec => OrderKept
<1>1. ASSUME OutInv, OrderInv, Next, NEW v \in VCs, NEW w \in VCs,
             VnetOf(v) \in Ordered, VnetOf(w) = VnetOf(v), Filled(v), Filled(w),
             MsgOf(w) < MsgOf(v)
      PROVE  Len(niOutVcs'[v]) >= Len(niOutVcs[v])
  <2>1. niOutVcs[v] \in Seq(FlitsOfNi) /\ Len(niOutVcs[v]) \in Nat
    BY <1>1, LengthOf DEF OutInv, OutTypeOK
  <2>2. ASSUME niOutVcs'[v] = niOutVcs[v] PROVE Len(niOutVcs'[v]) >= Len(niOutVcs[v])
    BY <2>1, <2>2
  <2>3. CASE TakeMessages
    <3>1. v \notin Allocated
      BY <1>1, <2>3, FilledNow
    <3> QED
      BY <2>2, <2>3, <3>1 DEF TakeMessages
  <2>4. CASE ScheduleOutputLink
    <3>1. w \in earlier[v]
      BY <1>1 DEF OrderInv, InOrder
    <3>2. ~IsCandidate(v)
      BY <1>1, <3>1 DEF IsCandidate, Filled
    <3>3. v \notin Winners
      <4>1. ASSUME v \in Winners PROVE FALSE
        <5>1. PICK p \in Ports : Candidates(p) # {} /\ v = Winner(p)
          BY <4>1 DEF Winners
        <5>2. v \in Candidates(p)
          BY <1>1, <5>1, WinnersAre DEF OutInv
        <5> QED
          BY <3>2, <5>2 DEF Candidates
      <4> QED
        BY <4>1
    <3> QED
      BY <2>2, <2>4, <3>3 DEF ScheduleOutputLink
  <2>5. CASE \/ \E n \in Vnets, D \in (SUBSET Nodes) \ {{}}, k \in 1 .. MaxFlits :
                  Enqueue(n, SetToSeq(D), k)
             \/ \E u \in VCs : CreditArrives(u)
             \/ \E p \in InPorts, u \in VCs, tail \in BOOLEAN : FlitArrives(p, u, tail)
             \/ \E p \in InPorts : CreditLinkWakeup(p)
             \/ Wake \/ EjectFlits \/ TakeCredits \/ Tick
    <3>1. niOutVcs' = niOutVcs
      BY <2>5 DEF Enqueue, CreditArrives, FlitArrives, CreditLinkWakeup, Wake, EjectFlits,
                  TakeCredits, Tick, outVars
    <3> QED
      BY <2>2, <3>1
  <2> QED
    BY <1>1, <2>3, <2>4, <2>5 DEF Next
<1>2. OutInv /\ OrderInv /\ [Next]_vars =>
        [\A v, w \in VCs :
           /\ VnetOf(v) \in Ordered /\ VnetOf(w) = VnetOf(v)
           /\ niOutVcs[v] # << >> /\ niOutVcs[w] # << >>
           /\ Head(niOutVcs[w]).msg < Head(niOutVcs[v]).msg
           => Len(niOutVcs'[v]) >= Len(niOutVcs[v])]_vars
  BY <1>1 DEF Filled, MsgOf
<1> QED
  BY <1>2, OrderAlways, PTL DEF Spec, OrderKept

-----------------------------------------------------------------------------
(* Copies                                                                  *)

(* The VCs served are served in turn, from the first destination on.       *)
InTurn(n, k, l) ==
    /\ k \in Nat /\ k <= l
    /\ \A x \in Served(n) : Turn(n, x) \in 0 .. k - 1
    /\ \A x, y \in Served(n) : Turn(n, x) = Turn(n, y) => x = y
    /\ \A t \in 0 .. k - 1 : \E x \in Served(n) : Turn(n, x) = t

LEMMA TurnsAre ==
    ASSUME OutTypeOK, NEW n \in Vnets, Waiting(n)
    PROVE  InTurn(n, Cardinality(Served(n)), Len(messages[n][1].dests))
<1> DEFINE F == FreeVcs(n)
           a == allocator[n]
           l == Len(messages[n][1].dests)
           rank == [k \in F |-> (k - a) % VcPerVnet]
           turn == [k \in F |-> Cardinality({j \in F : rank[j] < rank[k]})]
<1>1. /\ VcPerVnet \in Nat \ {0} /\ a \in 0 .. VcPerVnet - 1
      /\ F \subseteq 0 .. VcPerVnet - 1 /\ IsFiniteSet(F)
  <2>1. VcPerVnet \in Nat \ {0} /\ a \in 0 .. VcPerVnet - 1
    BY VcsAssumption DEF OutTypeOK
  <2>2. F \subseteq 0 .. VcPerVnet - 1
    BY ServedAre
  <2>3. IsFiniteSet(0 .. VcPerVnet - 1)
    BY VcsOfVnetFinite
  <2> QED
    BY <2>1, <2>2, <2>3, FS_Subset
<1>2. l \in Nat /\ Head(messages[n]) = messages[n][1]
  <2>1. LeftOf(messages[n], Remaining(n), Cardinality(Served(n)))
    BY RemainingParts
  <2> QED
    BY <2>1 DEF LeftOf
<1>3. rank \in [F -> Int] /\ IsInjective(rank)
  <2>1. ASSUME NEW k \in F PROVE k - a \in Int /\ (k - a) % VcPerVnet \in Int
    <3>1. k - a \in Int
      <4>1. k \in 0 .. VcPerVnet - 1
        BY <1>1
      <4> HIDE DEF a
      <4> QED
        BY <1>1, <4>1
    <3>2. (k - a) % VcPerVnet \in 0 .. VcPerVnet - 1
      <4> HIDE DEF a
      <4> QED
        BY ONLY <1>1, <3>1, InARound
    <3> QED
      BY <1>1, <3>1, <3>2
  <2>2. ASSUME NEW j \in F, NEW k \in F, (j - a) % VcPerVnet = (k - a) % VcPerVnet
        PROVE  j = k
    <3>1. j \in 0 .. VcPerVnet - 1 /\ k \in 0 .. VcPerVnet - 1
      BY <1>1
    <3> HIDE DEF a, F
    <3> QED
      BY ONLY <1>1, <2>2, <3>1, RoundIsInjective
  <2> HIDE DEF F, a
  <2> QED
    BY <2>1, <2>2 DEF IsInjective
<1>4. ASSUME NEW k \in F PROVE turn[k] = Turn(n, k)
  <2>1. {j \in F : rank[j] < rank[k]} = {j \in FreeVcs(n) : Before(n, j, k)}
    BY <1>4 DEF Before
  <2> QED
    BY <1>4, <2>1 DEF Turn
<1>5. turn = [k \in F |-> Cardinality({j \in F : rank[j] < rank[k]})]
  OBVIOUS
<1> HIDE DEF rank, turn
<1>6. turn \in Bijection(F, 0 .. Cardinality(F) - 1)
  BY <1>1, <1>3, <1>5, RanksCount
<1>7. Served(n) = {k \in F : turn[k] < l}
  BY <1>2, <1>4 DEF Served
<1> HIDE DEF l, F
<1>8. CountedOff(Served(n), turn, l)
  <2> DEFINE S == Served(n)
  <2>1. IsFiniteSet(F) /\ l \in Nat /\ S = {k \in F : turn[k] < l}
    BY <1>1, <1>2, <1>7
  <2> HIDE DEF S
  <2>2. CountedOff(S, turn, l)
    BY ONLY <1>6, <2>1, FirstByRank
  <2> QED
    BY <2>2 DEF S
<1>9. \A k \in Served(n) : turn[k] = Turn(n, k)
  BY <1>4, <1>7
<1> QED
  BY <1>8, <1>9 DEF InTurn, CountedOff, l

(* The VCs with flits of the copy of message m for destination d, and the  *)
(* places of the messages that it is still to be made from.                *)
Carriers(m, d) == {v \in VCs : Filled(v) /\ MsgOf(v) = m /\ DestOf(v) = d}
Lists(x, m, d) == x.id = m /\ \E i \in 1 .. Len(x.dests) : x.dests[i] = d
Origins(m, d) ==
    {e \in Vnets \X Int :
       e[2] \in 1 .. Len(messages[e[1]]) /\ Lists(messages[e[1]][e[2]], m, d)}

(* A copy is sent, or in one VC, or still to be made at one place.         *)
AtOnePlace(s, A, B) ==
    \/ s = 1 /\ A = {} /\ B = {}
    \/ s = 0 /\ (\E v : A = {v}) /\ B = {}
    \/ s = 0 /\ A = {} /\ (\E e : B = {e})
Nowhere(s, A, B) == s = 0 /\ A = {} /\ B = {}

CopyOK(m, d) ==
    /\ <<m, d>> \in promised => AtOnePlace(sent[m][d], Carriers(m, d), Origins(m, d))
    /\ <<m, d>> \notin promised => Nowhere(sent[m][d], Carriers(m, d), Origins(m, d))
CopyInv == \A m \in Msgs, d \in Nodes : CopyOK(m, d)

(* The destination of its first message that a vnet serves now.            *)
ServedNow(n, d) ==
    Waiting(n) /\ \E t \in 1 .. Cardinality(Served(n)) : messages[n][1].dests[t] = d

LEMMA OriginIs ==
    ASSUME NEW m, NEW d, NEW n \in Vnets, NEW i \in Int
    PROVE  <<n, i>> \in Origins(m, d) <=> i \in 1 .. Len(messages[n]) /\ Lists(messages[n][i], m, d)
BY DEF Origins

LEMMA OriginsPairs ==
    ASSUME NEW m, NEW d, NEW e \in Origins(m, d)
    PROVE  \E n \in Vnets, i \in Int : e = <<n, i>>
BY DEF Origins

LEMMA OriginIsNow ==
    ASSUME NEW m, NEW d, NEW n \in Vnets, NEW i \in Int
    PROVE  <<n, i>> \in Origins(m, d)' <=> i \in 1 .. Len(messages'[n]) /\ Lists(messages'[n][i], m, d)
BY DEF Origins, Lists

LEMMA OriginsNowPairs ==
    ASSUME NEW m, NEW d, NEW e \in Origins(m, d)'
    PROVE  \E n \in Vnets, i \in Int : e = <<n, i>>
BY DEF Origins

(* The messages left are the same, but for the destinations served.        *)
LEMMA OriginsMove ==
    ASSUME OutTypeOK, MsgInv, TakeMessages, NEW m, NEW d, NEW n \in Vnets
    PROVE  \E s \in {0, 1} : \A j \in Int :
             <<n, j>> \in Origins(m, d)' <=>
               /\ <<n, j + s>> \in Origins(m, d)
               /\ ~(j + s = 1 /\ ServedNow(n, d))
<1> DEFINE q == messages[n]
           r == messages'[n]
           k == Cardinality(Served(n))
<1>1. r = IF Waiting(n) THEN Remaining(n) ELSE << >>
  BY DEF TakeMessages
<1>2. SUFFICES \E s \in {0, 1} : \A j \in Int :
                 j \in 1 .. Len(r) /\ Lists(r[j], m, d) <=>
                   /\ j + s \in 1 .. Len(q) /\ Lists(q[j + s], m, d)
                   /\ ~(j + s = 1 /\ ServedNow(n, d))
  <2>1. \A j \in Int, s \in {0, 1} : j + s \in Int
    OBVIOUS
  <2>2. \A j \in Int : <<n, j>> \in Origins(m, d)' <=> j \in 1 .. Len(r) /\ Lists(r[j], m, d)
    BY OriginIsNow
  <2>3. \A j \in Int : <<n, j>> \in Origins(m, d) <=> j \in 1 .. Len(q) /\ Lists(q[j], m, d)
    BY OriginIs
  <2> HIDE DEF q, r
  <2> QED
    BY <1>2, <2>1, <2>2, <2>3
<1>3. CASE ~Waiting(n)
  <2>1. q = << >> /\ r = << >>
    BY <1>1, <1>3 DEF Waiting
  <2>2. Len(q) = 0 /\ Len(r) = 0
    BY <2>1
  <2> HIDE DEF q, r
  <2>3. \A j \in Int : ~(j \in 1 .. Len(r)) /\ ~(j + 0 \in 1 .. Len(q))
    BY <2>2
  <2> QED
    BY <2>3
<1>4. CASE Waiting(n)
  <2> DEFINE l == Len(q[1].dests)
  <2>1. LeftOf(q, r, k)
    BY <1>1, <1>4, RemainingParts
  <2>2. InTurn(n, k, l)
    BY <1>4, TurnsAre
  <2>3. ServedNow(n, d) <=> \E t \in 1 .. k : q[1].dests[t] = d
    BY <1>4 DEF ServedNow
  <2>4. 1 \in 1 .. Len(q) /\ q[1] \in Message /\ IsInjective(q[1].dests)
    <3>1. Len(q) \in Nat \ {0}
      BY <2>1 DEF LeftOf
    <3>2. 1 \in 1 .. Len(q)
      BY <3>1
    <3> QED
      BY <3>2, MessagesAre DEF MsgInv, QueueInv
  <2>5. k \in Nat /\ l \in Nat /\ k <= l
    BY <2>1, <2>2 DEF LeftOf, InTurn
  <2> HIDE DEF q, r, k
  <2>6. CASE k = l
    <3>1. Len(q) \in Nat \ {0} /\ Len(r) = Len(q) - 1 /\ \A j \in 1 .. Len(q) - 1 : r[j] = q[j + 1]
      BY <2>1, <2>6 DEF LeftOf
    <3>2. Lists(q[1], m, d) => ServedNow(n, d)
      BY <2>3, <2>6 DEF Lists
    <3>3. ASSUME NEW j \in Int
          PROVE  j \in 1 .. Len(r) /\ Lists(r[j], m, d) <=>
                   /\ j + 1 \in 1 .. Len(q) /\ Lists(q[j + 1], m, d)
                   /\ ~(j + 1 = 1 /\ ServedNow(n, d))
      <4>1. CASE j \in 1 .. Len(r)
        BY <3>1, <4>1
      <4>2. CASE j = 0
        BY <3>2, <4>2
      <4>3. CASE j \notin 0 .. Len(r)
        BY <3>1, <4>3
      <4> QED
        BY <3>1, <4>1, <4>2, <4>3
    <3> QED
      BY <3>3
  <2>7. CASE k # l
    <3> DEFINE s == q[1].dests
               p == SubSeq(s, k + 1, Len(s))
    <3>1. /\ Len(q) \in Nat \ {0} /\ Len(r) = Len(q) /\ \A j \in 2 .. Len(q) : r[j] = q[j]
          /\ r[1] = [q[1] EXCEPT !.dests = p]
      BY <2>1, <2>7 DEF LeftOf
    <3>2. s \in Seq(Nodes) /\ p = SubSeq(s, k + 1, Len(s)) /\ IsInjective(s)
      BY <2>4 DEF Message
    <3>3. r[1].id = q[1].id /\ r[1].dests = p
      BY <2>4, <3>1 DEF Message
    <3>4. l = Len(s)
      OBVIOUS
    <3>5. ServedNow(n, d) <=> \E t \in 1 .. k : s[t] = d
      BY <2>3
    <3> HIDE DEF s, p, l
    <3>6. /\ Len(p) = l - k
          /\ \A i \in 1 .. Len(p) : k + i \in 1 .. Len(s) /\ p[i] = s[k + i]
      BY <2>5, <3>2, <3>4, PartOfSeq
    <3>7. (\E i \in 1 .. Len(p) : p[i] = d) <=> (\E i \in 1 .. l : s[i] = d) /\ ~ServedNow(n, d)
      <4>1. ASSUME NEW i \in 1 .. Len(p), p[i] = d
            PROVE  (\E h \in 1 .. l : s[h] = d) /\ ~ServedNow(n, d)
        <5>1. k + i \in 1 .. l /\ s[k + i] = d
          BY <3>4, <3>6, <4>1
        <5>2. ASSUME NEW t \in 1 .. k, s[t] = d PROVE FALSE
          <6>1. t \in 1 .. l /\ DOMAIN s = 1 .. l
            BY <2>5, <3>2, <3>4, LengthOf
          <6>2. t = k + i
            BY <3>2, <5>1, <5>2, <6>1 DEF IsInjective
          <6> QED
            BY <2>5, <3>6, <6>2
        <5> QED
          BY <3>5, <5>1, <5>2
      <4>2. ASSUME NEW i \in 1 .. l, s[i] = d, ~ServedNow(n, d)
            PROVE  \E h \in 1 .. Len(p) : p[h] = d
        <5>1. ~(i \in 1 .. k)
          BY <3>5, <4>2
        <5>2. i - k \in 1 .. Len(p) /\ k + (i - k) = i
          BY <2>5, <3>6, <5>1
        <5> QED
          BY <3>6, <4>2, <5>2
      <4> QED
        BY <4>1, <4>2
    <3>8. Lists(r[1], m, d) <=> Lists(q[1], m, d) /\ ~ServedNow(n, d)
      BY <3>3, <3>4, <3>7 DEF Lists, s
    <3>9. ASSUME NEW j \in Int
          PROVE  j \in 1 .. Len(r) /\ Lists(r[j], m, d) <=>
                   /\ j + 0 \in 1 .. Len(q) /\ Lists(q[j + 0], m, d)
                   /\ ~(j + 0 = 1 /\ ServedNow(n, d))
      <4>1. j + 0 = j
        OBVIOUS
      <4>2. CASE j = 1
        BY <3>1, <3>8, <4>1, <4>2
      <4>3. CASE j # 1
        <5>1. j \in 1 .. Len(q) => r[j] = q[j]
          BY <3>1, <4>3
        <5> QED
          BY <3>1, <4>1, <4>3, <5>1
      <4> QED
        BY <4>2, <4>3
    <3> QED
      BY <3>9
  <2> QED
    BY <2>6, <2>7 DEF q, r
<1> QED
  BY <1>3, <1>4

(* Each destination served gets a VC of its own.                           *)
LEMMA OwnVc ==
    ASSUME OutTypeOK, NEW n \in Vnets, Waiting(n)
    PROVE  /\ \A v \in Allocated :
                VnetOf(v) = n => TurnOf(v) + 1 \in 1 .. Cardinality(Served(n))
           /\ \A v, w \in Allocated :
                VnetOf(v) = n /\ VnetOf(w) = n /\ TurnOf(v) = TurnOf(w) => v = w
           /\ \A t \in 1 .. Cardinality(Served(n)) :
                \E v \in Allocated : VnetOf(v) = n /\ TurnOf(v) + 1 = t
<1> DEFINE k == Cardinality(Served(n))
<1>1. InTurn(n, k, Len(messages[n][1].dests))
  BY TurnsAre
<1>2. ASSUME NEW v \in Allocated, VnetOf(v) = n
      PROVE  \E x \in Served(n) : v = VcOf(n, x) /\ TurnOf(v) = Turn(n, x)
  <2>1. PICK h \in Vnets : \E x \in Served(h) : v = VcOf(h, x)
    BY DEF Allocated
  <2>2. PICK x \in Served(h) : v = VcOf(h, x)
    BY <2>1
  <2>3. x \in 0 .. VcPerVnet - 1
    BY ServedAre
  <2>4. h = n /\ v - VcOf(n, 0) = x
    BY <1>2, <2>2, <2>3, VcsOfVnets
  <2> QED
    BY <1>2, <2>2, <2>4 DEF TurnOf
<1>3. ASSUME NEW x \in Served(n)
      PROVE  /\ VcOf(n, x) \in Allocated /\ VnetOf(VcOf(n, x)) = n
             /\ TurnOf(VcOf(n, x)) = Turn(n, x)
  <2>1. x \in 0 .. VcPerVnet - 1
    BY ServedAre
  <2>2. VcOf(n, x) \in VCs /\ VnetOf(VcOf(n, x)) = n /\ VcOf(n, x) - VcOf(n, 0) = x
    BY <2>1, VcsOfVnets
  <2> QED
    BY <2>2 DEF Allocated, TurnOf
<1>4. ASSUME NEW v \in Allocated, VnetOf(v) = n PROVE TurnOf(v) + 1 \in 1 .. k
  <2>1. TurnOf(v) \in 0 .. k - 1 /\ k \in Nat
    BY <1>1, <1>2, <1>4 DEF InTurn
  <2> HIDE DEF k
  <2> QED
    BY <2>1
<1>5. ASSUME NEW v \in Allocated, NEW w \in Allocated, VnetOf(v) = n, VnetOf(w) = n,
             TurnOf(v) = TurnOf(w)
      PROVE  v = w
  BY <1>1, <1>2, <1>5 DEF InTurn
<1>6. ASSUME NEW t \in 1 .. k PROVE \E v \in Allocated : VnetOf(v) = n /\ TurnOf(v) + 1 = t
  <2>1. t - 1 \in 0 .. k - 1 /\ k \in Nat /\ (t - 1) + 1 = t
    BY <1>1 DEF InTurn
  <2>2. PICK x \in Served(n) : Turn(n, x) = t - 1
    BY <1>1, <2>1 DEF InTurn
  <2> QED
    BY <1>3, <2>1, <2>2
<1> QED
  BY <1>4, <1>5, <1>6

(* The VCs that carry a copy after wakeup has taken the messages.          *)
LEMMA CarriersMove ==
    ASSUME OutInv, TakeMessages, NEW m, NEW d
    PROVE  Carriers(m, d)' = Carriers(m, d) \cup
             {v \in Allocated : /\ messages[VnetOf(v)][1].id = m
                                /\ messages[VnetOf(v)][1].dests[TurnOf(v) + 1] = d}
<1>1. ASSUME NEW v \in VCs, v \notin Allocated
      PROVE  v \in Carriers(m, d)' <=> v \in Carriers(m, d)
  BY <1>1 DEF TakeMessages, Carriers, Filled, MsgOf, DestOf
<1>2. ASSUME NEW v \in VCs, v \in Allocated
      PROVE  /\ v \notin Carriers(m, d)
             /\ v \in Carriers(m, d)' <=>
                  /\ messages[VnetOf(v)][1].id = m
                  /\ messages[VnetOf(v)][1].dests[TurnOf(v) + 1] = d
  <2>1. /\ ~Filled(v) /\ Filled(v)'
        /\ MsgOf(v)' = messages[VnetOf(v)][1].id
        /\ DestOf(v)' = messages[VnetOf(v)][1].dests[TurnOf(v) + 1]
    BY <1>2, FilledNow
  <2> QED
    BY <2>1 DEF Carriers
<1>3. Carriers(m, d) \subseteq VCs /\ Carriers(m, d)' \subseteq VCs /\ Allocated \subseteq VCs
  BY DEF Carriers, Allocated
<1> QED
  BY <1>1, <1>2, <1>3

LEMMA CopyTakeMessages ==
    ASSUME OutInv, MsgInv, TakeMessages, NEW m \in Msgs, NEW d \in Nodes, CopyOK(m, d)
    PROVE  CopyOK(m, d)'
<1> DEFINE A == Carriers(m, d)
           B == Origins(m, d)
           New == {v \in Allocated : /\ messages[VnetOf(v)][1].id = m
                                     /\ messages[VnetOf(v)][1].dests[TurnOf(v) + 1] = d}
<1>1. sent' = sent /\ promised' = promised /\ A' = A \cup New /\ OutTypeOK
  BY CarriersMove DEF TakeMessages, OutInv
<1>2. ASSUME NEW n \in Vnets
      PROVE  \E s \in {0, 1} : \A j \in Int :
               <<n, j>> \in B' <=> <<n, j + s>> \in B /\ ~(j + s = 1 /\ ServedNow(n, d))
  BY <1>1, OriginsMove
<1>3. ASSUME NEW v \in New
      PROVE  VnetOf(v) \in Vnets /\ <<VnetOf(v), 1>> \in B /\ ServedNow(VnetOf(v), d)
  <2> DEFINE n == VnetOf(v)
             x == messages[n][1]
             k == Cardinality(Served(n))
             l == Len(x.dests)
  <2>1. v \in Allocated /\ n \in Vnets /\ 1 \in 1 .. Len(messages[n])
    BY FilledNow
  <2>2. Waiting(n)
    <3>1. messages[n] \in Seq(Message) /\ Len(messages[n]) \in Nat
      BY <1>1, <2>1, LengthOf DEF OutTypeOK
    <3>2. Len(messages[n]) > 0
      <4> DEFINE h == Len(messages[n])
      <4>1. h \in Nat /\ 1 \in 1 .. h
        BY <2>1, <3>1
      <4> HIDE DEF h
      <4>2. h > 0
        BY <4>1
      <4> QED
        BY <4>2 DEF h
    <3> QED
      BY <3>1, <3>2, LengthOf DEF Waiting
  <2>3. TurnOf(v) + 1 \in 1 .. k
    BY <1>1, <2>1, <2>2, OwnVc
  <2>4. InTurn(n, k, l)
    BY <1>1, <2>1, <2>2, TurnsAre
  <2>5. x \in Message /\ x.dests \in Seq(Nodes) /\ l \in Nat
    <3>1. x \in Message /\ x.dests \in Seq(Nodes)
      BY <1>1, <2>1, MessagesAre
    <3> QED
      BY <3>1, LengthOf
  <2>6. TurnOf(v) + 1 \in 1 .. l
    <3>1. k \in Nat /\ k <= l
      BY <2>4 DEF InTurn
    <3> HIDE DEF k, l
    <3> QED
      BY <2>3, <2>5, <3>1
  <2>7. x.id = m /\ x.dests[TurnOf(v) + 1] = d
    OBVIOUS
  <2>8. ServedNow(n, d)
    BY <2>2, <2>3, <2>7 DEF ServedNow
  <2>9. <<n, 1>> \in B
    BY <2>1, <2>6, <2>7, OriginIs DEF Lists
  <2> QED
    BY <2>1, <2>8, <2>9
<1>4. ASSUME B = {} PROVE New = {} /\ B' = {}
  <2>1. New = {}
    BY <1>3, <1>4
  <2>2. ASSUME NEW e \in B' PROVE FALSE
    <3>1. PICK n \in Vnets, j \in Int : e = <<n, j>>
      BY OriginsNowPairs
    <3>2. PICK s \in {0, 1} : \A i \in Int :
            <<n, i>> \in B' <=> <<n, i + s>> \in B /\ ~(i + s = 1 /\ ServedNow(n, d))
      BY <1>2
    <3> HIDE DEF B
    <3> QED
      BY <1>4, <2>2, <3>1, <3>2
  <2> QED
    BY <2>1, <2>2
<1>5. ASSUME NEW e, B = {e}
      PROVE  \/ (\E v : New = {v}) /\ B' = {}
             \/ New = {} /\ \E x : B' = {x}
  <2>1. PICK n \in Vnets, i \in Int : e = <<n, i>>
    BY <1>5, OriginsPairs
  <2>2. PICK s \in {0, 1} : \A j \in Int :
          <<n, j>> \in B' <=> <<n, j + s>> \in B /\ ~(j + s = 1 /\ ServedNow(n, d))
    BY <1>2
  <2>3. ASSUME NEW h \in Vnets, NEW j \in Int, <<h, j>> \in B'
        PROVE  h = n /\ j = i - s /\ ~(i = 1 /\ ServedNow(n, d))
    <3>1. PICK z \in {0, 1} : \A y \in Int :
            <<h, y>> \in B' <=> <<h, y + z>> \in B /\ ~(y + z = 1 /\ ServedNow(h, d))
      BY <1>2
    <3>2. <<h, j + z>> \in B
      BY <2>3, <3>1
    <3>3. h = n
      BY <1>5, <2>1, <3>2
    <3>4. <<n, j + s>> \in B /\ ~(j + s = 1 /\ ServedNow(n, d))
      BY <2>2, <2>3, <3>3
    <3>5. j + s = i
      BY <1>5, <2>1, <3>4
    <3> QED
      BY <3>3, <3>4, <3>5
  <2>4. CASE i = 1 /\ ServedNow(n, d)
    <3>1. B' = {}
      <4>1. ASSUME NEW x \in B' PROVE FALSE
        <5>1. PICK h \in Vnets, j \in Int : x = <<h, j>>
          BY OriginsNowPairs
        <5> HIDE DEF B
        <5> QED
          BY <2>3, <2>4, <4>1, <5>1
      <4> QED
        BY <4>1
    <3>2. PICK t \in 1 .. Cardinality(Served(n)) : messages[n][1].dests[t] = d
      BY <2>4 DEF ServedNow
    <3>3. PICK v \in Allocated : VnetOf(v) = n /\ TurnOf(v) + 1 = t
      BY <1>1, <2>4, <3>2, OwnVc DEF ServedNow
    <3>4. messages[n][1].id = m
      <4>1. <<n, 1>> \in B
        BY <1>5, <2>1, <2>4
      <4> QED
        BY <4>1, OriginIs DEF Lists
    <3>5. v \in New
      BY <3>2, <3>3, <3>4
    <3>6. ASSUME NEW w \in New PROVE w = v
      <4>1. w \in Allocated /\ VnetOf(w) = n
        BY <1>3, <1>5, <2>1
      <4>2. TurnOf(v) + 1 \in 1 .. Cardinality(Served(n)) /\ TurnOf(w) + 1 \in 1 .. Cardinality(Served(n))
        BY <1>1, <2>4, <3>3, <4>1, OwnVc DEF ServedNow
      <4>3. messages[n][1].dests[TurnOf(w) + 1] = d /\ messages[n][1].dests[TurnOf(v) + 1] = d
        BY <3>2, <3>3, <4>1
      <4>4. TurnOf(w) = TurnOf(v)
        <5> DEFINE q == messages[n][1].dests
                   k == Cardinality(Served(n))
                   l == Len(q)
                   x == TurnOf(w)
                   y == TurnOf(v)
        <5>1. x \in Int /\ y \in Int
          <6>1. ASSUME NEW u \in Allocated PROVE TurnOf(u) \in Int
            <7>1. VnetOf(u) \in Vnets
              BY FilledNow
            <7>2. FreeVcs(VnetOf(u)) \subseteq 0 .. VcPerVnet - 1
              BY <7>1, ServedAre
            <7>3. ASSUME NEW S, S \subseteq FreeVcs(VnetOf(u)) PROVE Cardinality(S) \in Int
              <8>1. IsFiniteSet(0 .. VcPerVnet - 1)
                BY VcsOfVnetFinite
              <8>2. IsFiniteSet(S)
                BY <7>2, <7>3, <8>1, FS_Subset
              <8> QED
                BY <8>2, FS_CardinalityType
            <7> QED
              BY <7>3 DEF TurnOf, Turn
          <6> QED
            BY <4>1, <6>1
        <5>2. 1 \in 1 .. Len(messages[n])
          <6>1. 1 \in 1 .. Len(messages[VnetOf(v)])
            BY FilledNow
          <6> QED
            BY <3>3, <6>1
        <5>3. q \in Seq(Nodes) /\ IsInjective(q)
          BY <1>1, <5>2, MessagesAre DEF MsgInv, QueueInv
        <5>4. DOMAIN q = 1 .. l /\ l \in Nat
          BY <5>3, LengthOf
        <5>5. k \in Nat /\ k <= l
          <6>1. InTurn(n, k, l)
            BY <1>1, <2>4, TurnsAre DEF ServedNow
          <6> QED
            BY <6>1 DEF InTurn
        <5>6. x + 1 \in 1 .. k /\ y + 1 \in 1 .. k /\ q[x + 1] = q[y + 1]
          BY <4>2, <4>3
        <5> HIDE DEF q, k, l, x, y
        <5>7. x + 1 \in 1 .. l /\ y + 1 \in 1 .. l
          BY <5>4, <5>5, <5>6
        <5>8. x + 1 = y + 1
          BY <5>3, <5>4, <5>6, <5>7 DEF IsInjective
        <5>9. x = y
          BY <5>1, <5>8
        <5> QED
          BY <5>9 DEF x, y
      <4> QED
        BY <1>1, <2>4, <3>3, <4>1, <4>4, OwnVc DEF ServedNow
    <3>7. New = {v}
      BY <3>5, <3>6
    <3> QED
      BY <3>1, <3>7
  <2>5. CASE ~(i = 1 /\ ServedNow(n, d))
    <3>1. New = {}
      <4>1. ASSUME NEW w \in New PROVE FALSE
        <5>1. <<VnetOf(w), 1>> = <<n, i>> /\ ServedNow(VnetOf(w), d)
          BY <1>3, <1>5, <2>1
        <5> QED
          BY <2>5, <5>1
      <4> QED
        BY <4>1
    <3>2. i - s \in Int /\ (i - s) + s = i
      OBVIOUS
    <3>3. <<n, i - s>> \in B'
      <4>1. <<n, (i - s) + s>> \in B
        BY <1>5, <2>1, <3>2
      <4> HIDE DEF B
      <4> QED
        BY <2>2, <2>5, <3>2, <4>1
    <3>4. ASSUME NEW x \in B' PROVE x = <<n, i - s>>
      <4>1. PICK h \in Vnets, j \in Int : x = <<h, j>>
        BY OriginsNowPairs
      <4> HIDE DEF B
      <4> QED
        BY <2>3, <3>4, <4>1
    <3>5. B' = {<<n, i - s>>}
      BY <3>3, <3>4
    <3> QED
      BY <3>1, <3>5
  <2> QED
    BY <2>4, <2>5
<1> HIDE DEF A, B, New
<1>6. ASSUME <<m, d>> \in promised PROVE AtOnePlace(sent[m][d], A', B')
  <2>1. AtOnePlace(sent[m][d], A, B)
    BY <1>6 DEF CopyOK, A, B
  <2>2. CASE B = {}
    BY <1>1, <1>4, <2>1, <2>2 DEF AtOnePlace
  <2>3. CASE B # {}
    <3>1. sent[m][d] = 0 /\ A = {} /\ \E e : B = {e}
      BY <2>1, <2>3 DEF AtOnePlace
    <3>2. \/ (\E v : A' = {v}) /\ B' = {}
          \/ A' = {} /\ \E x : B' = {x}
      BY <1>1, <1>5, <3>1
    <3> QED
      BY <3>1, <3>2 DEF AtOnePlace
  <2> QED
    BY <2>2, <2>3
<1>7. ASSUME <<m, d>> \notin promised PROVE Nowhere(sent[m][d], A', B')
  BY <1>1, <1>4, <1>7 DEF CopyOK, A, B, Nowhere
<1> QED
  BY <1>1, <1>6, <1>7 DEF CopyOK, A, B

(* A VC with flits keeps some until its tail is sent.                      *)
LEMMA FilledOn ==
    ASSUME OutInv, ScheduleOutputLink, NEW v \in VCs, Filled(v), v \notin Ended
    PROVE  Filled(v)'
<1>1. niOutVcs'[v] = IF v \in Winners THEN Tail(niOutVcs[v]) ELSE niOutVcs[v]
  BY DEF ScheduleOutputLink
<1>2. PICK m \in Msgs, d \in Nodes, n \in Nat \ {0} : niOutVcs[v] = Rest(m, d, n)
  BY DEF OutInv, OutVcInv, OfOnePacket, Filled
<1>3. Tail(niOutVcs[v]) = (IF n = 1 THEN << >> ELSE Rest(m, d, n - 1))
      /\ (Head(niOutVcs[v]).tail <=> n = 1)
  BY <1>2, RestIs
<1>4. v \in Winners => n - 1 \in Nat \ {0} /\ n # 1
  BY <1>3 DEF Ended
<1>5. n - 1 \in Nat \ {0} => Rest(m, d, n - 1) # << >>
  BY RestIs
<1> QED
  BY <1>1, <1>3, <1>4, <1>5 DEF Filled

LEMMA CopyScheduleOutputLink ==
    ASSUME OutInv, ScheduleOutputLink, NEW m \in Msgs, NEW d \in Nodes, CopyOK(m, d)
    PROVE  CopyOK(m, d)'
<1> DEFINE A == Carriers(m, d)
           B == Origins(m, d)
           s == sent[m][d]
           Gone == A \cap Ended
<1>1. promised' = promised /\ messages' = messages
  BY DEF ScheduleOutputLink
<1>2. B' = B
  BY <1>1 DEF Origins, Lists
<1>3. A' = A \ Ended
  <2>1. ASSUME NEW v \in A' PROVE v \in A \ Ended
    <3>1. v \in VCs /\ Filled(v)' /\ MsgOf(v)' = m /\ DestOf(v)' = d
      BY DEF Carriers
    <3>2. Filled(v) /\ MsgOf(v)' = MsgOf(v) /\ DestOf(v)' = DestOf(v) /\ v \notin Ended
      BY <3>1, FilledStill
    <3> QED
      BY <3>1, <3>2 DEF Carriers
  <2>2. ASSUME NEW v \in A, v \notin Ended PROVE v \in A'
    <3>1. v \in VCs /\ Filled(v) /\ MsgOf(v) = m /\ DestOf(v) = d
      BY DEF Carriers
    <3>2. Filled(v)'
      BY <2>2, <3>1, FilledOn
    <3>3. MsgOf(v)' = MsgOf(v) /\ DestOf(v)' = DestOf(v)
      BY <3>1, <3>2, FilledStill
    <3> QED
      BY <3>1, <3>2, <3>3 DEF Carriers
  <2> QED
    BY <2>1, <2>2
<1>4. sent'[m][d] = s + Cardinality(Gone)
  <2>1. {v \in Ended : Head(niOutVcs[v]).msg = m /\ Head(niOutVcs[v]).dest = d} = Gone
    <3>1. ASSUME NEW v \in Ended PROVE v \in VCs /\ Filled(v)
      BY WinnersAre DEF Ended, OutInv, Filled
    <3> QED
      BY <3>1 DEF Carriers, MsgOf, DestOf
  <2> QED
    BY <2>1 DEF ScheduleOutputLink
<1> HIDE DEF A, B, s, Gone
<1>5. Cardinality({}) = 0 /\ \A v : Cardinality({v}) = 1
  BY FS_EmptySet, FS_Singleton
<1>6. ASSUME A = {} PROVE Gone = {} /\ A' = {}
  BY <1>3, <1>6 DEF Gone
<1>7. ASSUME NEW v, A = {v}
      PROVE  (Gone = {} /\ A' = {v}) \/ (Gone = {v} /\ A' = {})
  BY <1>3, <1>7 DEF Gone
<1>8. ASSUME AtOnePlace(s, A, B) PROVE AtOnePlace(s + Cardinality(Gone), A', B)
  <2>1. CASE A = {}
    <3>1. s \in {0, 1}
      BY <1>8 DEF AtOnePlace
    <3>2. s + Cardinality(Gone) = s
      BY <1>5, <1>6, <2>1, <3>1
    <3> QED
      BY <1>6, <1>8, <2>1, <3>2
  <2>2. CASE A # {}
    <3>1. s = 0 /\ B = {} /\ \E v : A = {v}
      BY <1>8, <2>2 DEF AtOnePlace
    <3>2. PICK v : A = {v}
      BY <3>1
    <3>3. CASE Gone = {} /\ A' = {v}
      BY <1>5, <3>1, <3>3 DEF AtOnePlace
    <3>4. CASE Gone = {v} /\ A' = {}
      BY <1>5, <3>1, <3>4 DEF AtOnePlace
    <3> QED
      BY <1>7, <3>2, <3>3, <3>4
  <2> QED
    BY <2>1, <2>2
<1>9. ASSUME Nowhere(s, A, B) PROVE Nowhere(s + Cardinality(Gone), A', B)
  BY <1>5, <1>6, <1>9 DEF Nowhere
<1> QED
  BY <1>1, <1>2, <1>4, <1>8, <1>9 DEF CopyOK, A, B, s

LEMMA CopyEnqueue ==
    ASSUME OutTypeOK, MsgInv,
           NEW n \in Vnets, NEW D \in (SUBSET Nodes) \ {{}}, NEW k \in 1 .. MaxFlits,
           Enqueue(n, SetToSeq(D), k),
           NEW m \in Msgs, NEW d \in Nodes, CopyOK(m, d)
    PROVE  CopyOK(m, d)'
<1> DEFINE x == [id |-> LastId + 1, dests |-> SetToSeq(D), size |-> k]
           q == messages[n]
           a == Append(q, x)
           new == {<<LastId + 1, e>> : e \in ToSet(SetToSeq(D))}
<1>1. /\ LastId \in Nat /\ Accepted = 1 .. LastId
      /\ promised' = promised \cup new
      /\ messages' = [messages EXCEPT ![n] = a] /\ x \in Message
      /\ q \in Seq(Message) /\ messages \in [Vnets -> Seq(Message)]
      /\ UNCHANGED <<niOutVcs, sent>>
  BY EnqueueIs DEF OutTypeOK, Message, MsgInv, Numbered
<1>2. Lists(x, m, d) <=> <<m, d>> \in new
  <2>1. SetToSeq(D) \in Seq(Nodes)
    BY EnqueueIs
  <2>2. ToSet(SetToSeq(D)) = {SetToSeq(D)[i] : i \in 1 .. Len(SetToSeq(D))}
    BY <2>1, LengthOf DEF ToSet
  <2>3. <<m, d>> \in new <=> m = LastId + 1 /\ d \in ToSet(SetToSeq(D))
    OBVIOUS
  <2> QED
    BY <2>2, <2>3 DEF Lists
<1>3. <<m, d>> \in promised => <<m, d>> \notin new
  <2>1. ASSUME <<m, d>> \in promised PROVE m # LastId + 1
    <3>1. m \in Accepted
      <4>1. <<m, d>>[1] = m
        OBVIOUS
      <4> QED
        BY <2>1, <4>1 DEF Accepted
    <3> QED
      BY <1>1, <3>1
  <2> QED
    BY <2>1
<1> HIDE DEF x, new
<1>4. /\ Len(q) \in Nat /\ Len(a) = Len(q) + 1 /\ a[Len(q) + 1] = x
      /\ \A i \in 1 .. Len(q) : a[i] = q[i]
  BY <1>1, AppendTo
<1> HIDE DEF a
<1>5. ASSUME NEW h \in Vnets, NEW i \in Int
      PROVE  <<h, i>> \in Origins(m, d)' <=>
               \/ <<h, i>> \in Origins(m, d)
               \/ h = n /\ i = Len(q) + 1 /\ <<m, d>> \in new
  <2>1. <<h, i>> \in Origins(m, d)' <=> i \in 1 .. Len(messages'[h]) /\ Lists(messages'[h][i], m, d)
    BY OriginIsNow
  <2>2. <<h, i>> \in Origins(m, d) <=> i \in 1 .. Len(messages[h]) /\ Lists(messages[h][i], m, d)
    BY OriginIs
  <2>3. CASE h # n
    <3>1. messages'[h] = messages[h]
      BY <1>1, <2>3
    <3> QED
      BY <2>1, <2>2, <2>3, <3>1
  <2>4. CASE h = n
    <3>1. messages'[h] = a /\ messages[h] = q
      BY <1>1, <2>4
    <3> HIDE DEF q
    <3>2. CASE i \in 1 .. Len(q)
      BY <1>4, <2>1, <2>2, <3>1, <3>2
    <3>3. CASE i = Len(q) + 1
      BY <1>2, <1>4, <2>1, <2>2, <2>4, <3>1, <3>3
    <3>4. CASE i \notin 1 .. Len(q) + 1
      BY <1>4, <2>1, <2>2, <3>1, <3>4
    <3> QED
      BY <1>4, <3>2, <3>3, <3>4
  <2> QED
    BY <2>3, <2>4
<1> DEFINE B == Origins(m, d)
<1>6. CASE <<m, d>> \notin new
  <2>1. B' = B
    <3>1. ASSUME NEW e \in B PROVE e \in B'
      BY <1>5, OriginsPairs
    <3>2. ASSUME NEW e \in B' PROVE e \in B
      <4>1. PICK h \in Vnets, i \in Int : e = <<h, i>>
        BY OriginsNowPairs
      <4> QED
        BY <1>5, <1>6, <3>2, <4>1
    <3> QED
      BY <3>1, <3>2
  <2>2. Carriers(m, d)' = Carriers(m, d)
    BY <1>1 DEF Carriers, Filled, MsgOf, DestOf
  <2>3. <<m, d>> \in promised' <=> <<m, d>> \in promised
    BY <1>1, <1>6
  <2> QED
    BY <1>1, <2>1, <2>2, <2>3 DEF CopyOK
<1>7. CASE <<m, d>> \in new
  <2>1. Nowhere(sent[m][d], Carriers(m, d), B)
    BY <1>3, <1>7 DEF CopyOK
  <2>2. B' = {<<n, Len(q) + 1>>}
    <3>1. Len(q) + 1 \in Int
      BY <1>4
    <3>2. <<n, Len(q) + 1>> \in B'
      BY <1>5, <1>7, <3>1
    <3>3. ASSUME NEW e \in B' PROVE e = <<n, Len(q) + 1>>
      <4>1. PICK h \in Vnets, i \in Int : e = <<h, i>>
        BY OriginsNowPairs
      <4>2. e \notin B
        BY <2>1 DEF Nowhere
      <4> QED
        BY <1>5, <3>3, <4>1, <4>2
    <3> QED
      BY <3>2, <3>3
  <2>3. Carriers(m, d)' = Carriers(m, d)
    BY <1>1 DEF Carriers, Filled, MsgOf, DestOf
  <2>4. <<m, d>> \in promised'
    BY <1>1, <1>7
  <2> QED
    BY <1>1, <2>1, <2>2, <2>3, <2>4 DEF CopyOK, Nowhere, AtOnePlace
<1> QED
  BY <1>6, <1>7

LEMMA CopyStep == OutInv /\ MsgInv /\ CopyInv /\ [Next]_vars => CopyInv'
<1> SUFFICES ASSUME OutInv, MsgInv, CopyInv, [Next]_vars PROVE CopyInv'
  OBVIOUS
<1>0. OutTypeOK
  BY DEF OutInv
<1>1. ASSUME NEW n \in Vnets, NEW D \in (SUBSET Nodes) \ {{}}, NEW k \in 1 .. MaxFlits,
             Enqueue(n, SetToSeq(D), k)
      PROVE  CopyInv'
  BY <1>0, <1>1, CopyEnqueue DEF CopyInv
<1>2. CASE TakeMessages
  BY <1>2, CopyTakeMessages DEF CopyInv
<1>3. CASE ScheduleOutputLink
  BY <1>3, CopyScheduleOutputLink DEF CopyInv
<1>4. ASSUME UNCHANGED <<messages, niOutVcs, promised, sent>> PROVE CopyInv'
  <2> SUFFICES ASSUME NEW m \in Msgs, NEW d \in Nodes PROVE CopyOK(m, d)'
    BY DEF CopyInv
  <2>1. Carriers(m, d)' = Carriers(m, d) /\ Origins(m, d)' = Origins(m, d)
    BY <1>4 DEF Carriers, Origins, Lists, Filled, MsgOf, DestOf
  <2>2. CopyOK(m, d)
    BY DEF CopyInv
  <2> QED
    BY <1>4, <2>1, <2>2 DEF CopyOK
<1>5. ASSUME NEW v \in VCs, CreditArrives(v) PROVE CopyInv'
  BY <1>4, <1>5 DEF CreditArrives
<1>6. ASSUME NEW p \in InPorts, NEW v \in VCs, NEW tail \in BOOLEAN, FlitArrives(p, v, tail)
      PROVE  CopyInv'
  BY <1>4, <1>6 DEF FlitArrives, outVars
<1>7. ASSUME NEW p \in InPorts, CreditLinkWakeup(p) PROVE CopyInv'
  BY <1>4, <1>7 DEF CreditLinkWakeup, outVars
<1>8. CASE Wake \/ EjectFlits \/ TakeCredits \/ Tick \/ UNCHANGED vars
  BY <1>4, <1>8 DEF Wake, EjectFlits, TakeCredits, Tick, vars, outVars
<1> QED
  BY <1>1, <1>2, <1>3, <1>5, <1>6, <1>7, <1>8 DEF Next

(* A VC holds the tail of the packet that its flits are of.                *)
LEMMA CarriersHoldTails ==
    ASSUME OutInv, NEW m \in Msgs, NEW d \in Nodes
    PROVE  InVcs(m, d) = Carriers(m, d)
<1> SUFFICES ASSUME NEW v \in VCs
             PROVE  Contains(niOutVcs[v], [msg |-> m, dest |-> d, tail |-> TRUE]) <=>
                      Filled(v) /\ MsgOf(v) = m /\ DestOf(v) = d
  BY DEF InVcs, Carriers
<1>1. CASE niOutVcs[v] = << >>
  BY <1>1 DEF Contains, Filled
<1>2. CASE niOutVcs[v] # << >>
  <2>1. PICK i \in Msgs, e \in Nodes, n \in Nat \ {0} : niOutVcs[v] = Rest(i, e, n)
    BY <1>2 DEF OutInv, OutVcInv, OfOnePacket
  <2>2. Len(Rest(i, e, n)) = n /\ MsgOf(v) = i /\ DestOf(v) = e
    BY <2>1, RestIs, HeadOfRest DEF MsgOf, DestOf
  <2>3. \A j \in 1 .. n : Rest(i, e, n)[j] = [msg |-> i, dest |-> e, tail |-> j = n]
    BY DEF Rest
  <2>4. ASSUME Contains(niOutVcs[v], [msg |-> m, dest |-> d, tail |-> TRUE])
        PROVE  i = m /\ e = d
    <3>1. PICK j \in 1 .. n : Rest(i, e, n)[j] = [msg |-> m, dest |-> d, tail |-> TRUE]
      BY <2>1, <2>2, <2>4 DEF Contains
    <3>2. Rest(i, e, n)[j].msg = i /\ Rest(i, e, n)[j].dest = e
      <4>1. j \in DOMAIN Rest(i, e, n)
        BY DEF Rest
      <4> QED
        BY <4>1, RestIsOfOne
    <3> QED
      BY <3>1, <3>2
  <2>5. ASSUME i = m, e = d
        PROVE  Contains(niOutVcs[v], [msg |-> m, dest |-> d, tail |-> TRUE])
    <3>1. n \in 1 .. n
      OBVIOUS
    <3>2. Rest(i, e, n)[n] = [msg |-> m, dest |-> d, tail |-> n = n]
      BY <2>3, <2>5, <3>1
    <3>3. (n = n) = TRUE
      OBVIOUS
    <3>4. Rest(i, e, n)[n] = [msg |-> m, dest |-> d, tail |-> TRUE]
      BY <3>2, <3>3
    <3> QED
      BY <2>1, <2>2, <3>1, <3>4 DEF Contains
  <2> QED
    BY <1>2, <2>2, <2>4, <2>5 DEF Filled
<1> QED
  BY <1>1, <1>2

LEMMA OriginsToMake ==
    ASSUME OutTypeOK, MsgInv, NEW m, NEW d
    PROVE  ToBeMade(m, d) = Origins(m, d)
<1>1. ASSUME NEW n \in Vnets, NEW i \in 1 .. Len(messages[n]) PROVE i \in 1 .. NumMsgs
  <2>1. i <= messages[n][i].id /\ messages[n][i].id \in Msgs
    BY MessagesAre DEF MsgInv, QueueInv
  <2>2. Len(messages[n]) \in Nat
    BY LengthOf DEF OutTypeOK
  <2> QED
    BY <2>1, <2>2, SizesAssumption DEF Msgs
<1>2. ASSUME NEW n \in Vnets PROVE Len(messages[n]) \in Nat
  BY LengthOf DEF OutTypeOK
<1>3. ASSUME NEW n \in Vnets, NEW i \in Int
      PROVE  i \in 1 .. NumMsgs /\ i <= Len(messages[n]) <=> i \in 1 .. Len(messages[n])
  BY <1>1, <1>2, SizesAssumption
<1>4. ASSUME NEW n \in Vnets, NEW i \in Int
      PROVE  <<n, i>> \in ToBeMade(m, d) <=> <<n, i>> \in Origins(m, d)
  BY <1>3 DEF ToBeMade, Origins, Lists, Contains
<1>5. ASSUME NEW e \in ToBeMade(m, d) PROVE \E n \in Vnets, i \in Int : e = <<n, i>>
  BY DEF ToBeMade
<1> QED
  BY <1>4, <1>5, OriginsPairs

(* Each destination of a message gets exactly one copy: it is sent, or in  *)
(* one VC, or still to be made from one message (OneCopyEach), however     *)
(* often the message ran out of VCs and was tried again.                   *)
THEOREM OneCopyAlways == Spec => []OneCopyEach
<1>1. Init => CopyInv
  <2> SUFFICES ASSUME Init, NEW m \in Msgs, NEW d \in Nodes PROVE CopyOK(m, d)
    BY DEF CopyInv
  <2>1. Origins(m, d) = {} /\ Carriers(m, d) = {} /\ sent[m][d] = 0 /\ promised = {}
    BY DEF Init, Origins, Carriers, Filled
  <2> QED
    BY <2>1 DEF CopyOK, Nowhere
<1>2. OutInv /\ MsgInv /\ CopyInv => OneCopyEach
  <2> SUFFICES ASSUME OutInv, MsgInv, CopyInv, NEW m \in Msgs, NEW d \in Nodes
               PROVE  sent[m][d] + Cardinality(InVcs(m, d)) + Cardinality(ToBeMade(m, d))
                        = IF <<m, d>> \in promised THEN 1 ELSE 0
    BY DEF OneCopyEach
  <2> DEFINE s == sent[m][d]
             A == InVcs(m, d)
             B == ToBeMade(m, d)
  <2>1. A = Carriers(m, d) /\ B = Origins(m, d)
    BY CarriersHoldTails, OriginsToMake DEF OutInv
  <2>2. /\ <<m, d>> \in promised => AtOnePlace(s, A, B)
        /\ <<m, d>> \notin promised => Nowhere(s, A, B)
    BY <2>1 DEF CopyInv, CopyOK
  <2>3. Cardinality({}) = 0 /\ \A v : Cardinality({v}) = 1
    BY FS_EmptySet, FS_Singleton
  <2> HIDE DEF s, A, B
  <2>4. CASE <<m, d>> \in promised
    <3>1. s + Cardinality(A) + Cardinality(B) = 1
      <4>1. CASE s = 1 /\ A = {} /\ B = {}
        BY <2>3, <4>1
      <4>2. CASE s = 0 /\ (\E v : A = {v}) /\ B = {}
        <5>1. Cardinality(A) = 1 /\ Cardinality(B) = 0
          BY <2>3, <4>2
        <5> QED
          BY <4>2, <5>1
      <4>3. CASE s = 0 /\ A = {} /\ (\E e : B = {e})
        <5>1. Cardinality(A) = 0 /\ Cardinality(B) = 1
          BY <2>3, <4>3
        <5> QED
          BY <4>3, <5>1
      <4> QED
        BY <2>2, <2>4, <4>1, <4>2, <4>3 DEF AtOnePlace
    <3> QED
      BY <2>4, <3>1 DEF s, A, B
  <2>5. CASE <<m, d>> \notin promised
    <3>1. s + Cardinality(A) + Cardinality(B) = 0
      BY <2>2, <2>3, <2>5 DEF Nowhere
    <3> QED
      BY <2>5, <3>1 DEF s, A, B
  <2> QED
    BY <2>4, <2>5
<1> QED
  BY <1>1, <1>2, CopyStep, OrderAlways, PTL DEF Spec
=============================================================================
