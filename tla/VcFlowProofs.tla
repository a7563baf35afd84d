---------------------------- MODULE VcFlowProofs ----------------------------
(***************************************************************************)
(* The flow control of one hop is correct for every set of VCs, every      *)
(* buffer depth and every packet length: IInv is inductive, so the credits *)
(* are conserved, an IDLE_ VC is drained, the packets stay in order and    *)
(* the assertions of the handlers hold.  And the hop implements the lease  *)
(* of VcLease.                                                             *)
(***************************************************************************)
EXTENDS VcFlow, DataTheorems

USE FlitsAssumption, DepthAssumption

(* What appending a flit to a wire and taking one from it do, for each VC. *)
LEMMA AppendFlit ==
    ASSUME NEW q \in Seq(Flit), NEW f \in Flit
    PROVE  /\ Append(q, f) \in Seq(Flit)
           /\ Increasing(Append(q, f)) <=> Increasing(q) /\ AllBelow(q, f.vc, f.id)
           /\ \A w : CountOf(Append(q, f), w) = CountOf(q, w) + (IF f.vc = w THEN 1 ELSE 0)
           /\ \A w : NoneOf(Append(q, f), w) <=> NoneOf(q, w) /\ f.vc # w
           /\ \A w : HasHead(Append(q, f), w) <=> HasHead(q, w) \/ (f.vc = w /\ f.id = 0)
           /\ \A w, k : AllBelow(Append(q, f), w, k) <=>
                AllBelow(q, w, k) /\ (f.vc = w => f.id < k /\ ~f.tail)
BY AppendProperties, AppendIncreasing, CountAppend, AppendNoneOf, AppendHasHead, AppendAllBelow

(* Taking the first flit from a wire, for each VC.                         *)
LEMMA TakeFlit ==
    ASSUME NEW q \in Seq(Flit), q # << >>
    PROVE  /\ Tail(q) \in Seq(Flit) /\ Head(q) \in Flit
           /\ Increasing(q) <=> Increasing(Tail(q)) /\ Follow(Tail(q), Head(q))
           /\ \A w : CountOf(q, w) = CountOf(Tail(q), w) + (IF Head(q).vc = w THEN 1 ELSE 0)
           /\ \A w : NoneOf(q, w) <=> NoneOf(Tail(q), w) /\ Head(q).vc # w
           /\ \A w : HasHead(q, w) <=>
                HasHead(Tail(q), w) \/ (Head(q).vc = w /\ Head(q).id = 0)
           /\ \A w, k : AllBelow(q, w, k) <=>
                AllBelow(Tail(q), w, k) /\ (Head(q).vc = w => Head(q).id < k /\ ~Head(q).tail)
BY HeadTailProperties, TailIncreasing, CountTail, TailNoneOf, TailHasHead, TailAllBelow

(* Appending a credit to a wire of credits, for each VC.                   *)
LEMMA AppendCredit ==
    ASSUME NEW q \in Seq(Credit), NEW c \in Credit
    PROVE  /\ Append(q, c) \in Seq(Credit)
           /\ FreeLast(Append(q, c)) <=> FreeLast(q) /\ NoFree(q, c.vc)
           /\ \A w : CountOf(Append(q, c), w) = CountOf(q, w) + (IF c.vc = w THEN 1 ELSE 0)
           /\ \A w : NoneOf(Append(q, c), w) <=> NoneOf(q, w) /\ c.vc # w
           /\ \A w : NoFree(Append(q, c), w) <=> NoFree(q, w) /\ (c.vc = w => ~c.free)
BY AppendProperties, AppendFreeLast, CountAppend, AppendNoneOf, AppendNoFree

(* Taking the first credit from a wire of credits, for each VC.            *)
LEMMA TakeCredit ==
    ASSUME NEW q \in Seq(Credit), q # << >>
    PROVE  /\ Tail(q) \in Seq(Credit) /\ Head(q) \in Credit
           /\ FreeLast(q) <=>
                FreeLast(Tail(q)) /\ (Head(q).free => NoneOf(Tail(q), Head(q).vc))
           /\ \A w : CountOf(q, w) = CountOf(Tail(q), w) + (IF Head(q).vc = w THEN 1 ELSE 0)
           /\ \A w : NoneOf(q, w) <=> NoneOf(Tail(q), w) /\ Head(q).vc # w
           /\ \A w : NoFree(q, w) <=> NoFree(Tail(q), w) /\ (Head(q).vc = w => ~Head(q).free)
BY HeadTailProperties, TailFreeLast, CountTail, TailNoneOf, TailNoFree

(* A wire without flits of a VC, or without its credits, has all the rest. *)
LEMMA NoneOfFlits ==
    ASSUME NEW q, NEW v, NoneOf(q, v)
    PROVE  ~HasHead(q, v) /\ (\A k : AllBelow(q, v, k)) /\ NoFree(q, v)
BY DEF NoneOf, HasHead, AllBelow, NoFree

(* Every count of the conservation law is a natural number.                *)
LEMMA Counts ==
    ASSUME TypeOK, NEW w
    PROVE  /\ CountOf(outBuffer, w) \in Nat /\ CountOf(linkBuffer, w) \in Nat
           /\ CountOf(creditQueue, w) \in Nat /\ CountOf(creditLink, w) \in Nat
           /\ w \in VCs => Len(inBuffer[w]) \in Nat
BY IndicesFinite, LenProperties DEF TypeOK

(* The initial state satisfies the invariant.                              *)
THEOREM InitInv == Init => IInv
<1> SUFFICES ASSUME Init PROVE IInv
  OBVIOUS
<1> USE DEF Init
<1>1. TypeOK
  BY EmptySeq DEF TypeOK
<1>2. \A v \in VCs : NoneOf(<< >>, v) /\ CountOf(<< >>, v) = 0
  <2> TAKE v \in VCs
  <2>1. << >> \in Seq(Flit) /\ Len(<< >>) = 0
    BY EmptySeq
  <2>2. NoneOf(<< >>, v)
    BY <2>1 DEF NoneOf
  <2> QED
    BY <2>1, <2>2, CountZero
<1>3. CreditConservation
  BY <1>2 DEF CreditConservation, Occupied, CreditsInFlight
<1>4. InOrder
  BY EmptySeq DEF InOrder, Increasing, AllBefore
<1>5. IdleInv
  BY <1>2 DEF IdleInv, Drained, NoCredits
<1>6. BoundInv /\ FreeInv
  BY DEF BoundInv, FreeInv, FreeLast, NoFree
<1>7. HeadInv
  BY <1>2 DEF HeadInv, HeadOnWire, HasHead
<1> QED
  BY <1>1, <1>3, <1>4, <1>5, <1>6, <1>7 DEF IInv

(* The flits of a packet.                                                  *)
LEMMA NewFlitType ==
    ASSUME NEW v \in VCs, NEW n \in 1 .. MaxFlits, NEW k \in 0 .. n - 1
    PROVE  /\ NewFlit(v, k, n) \in Flit
           /\ NewFlit(v, k, n).vc = v
           /\ NewFlit(v, k, n).id = k
           /\ NewFlit(v, k, n).tail <=> k = n - 1
<1>1. k \in 0 .. MaxFlits - 1 /\ (k = n - 1) \in BOOLEAN
  OBVIOUS
<1> QED
  BY <1>1 DEF NewFlit, Flit


(* The part of a send that SendHead and SendFlit share.                    *)
LEMMA SendFacts ==
    ASSUME TypeOK, NEW v \in VCs, NEW n \in 1 .. MaxFlits, NEW k \in 0 .. n - 1, Send(v, k, n)
    PROVE  /\ outBuffer' \in Seq(Flit)
           /\ credits'[v] = credits[v] - 1
           /\ pktSize'[v] = (IF k = n - 1 THEN 0 ELSE n)
           /\ pktSent'[v] = (IF k = n - 1 THEN 0 ELSE k + 1)
           /\ credits' \in [VCs -> Int]
           /\ pktSize' \in [VCs -> 0 .. MaxFlits] /\ pktSent' \in [VCs -> 0 .. MaxFlits]
           /\ \A w \in VCs \ {v} : /\ credits'[w] = credits[w]
                                   /\ pktSize'[w] = pktSize[w] /\ pktSent'[w] = pktSent[w]
           /\ Increasing(outBuffer') <=> Increasing(outBuffer) /\ AllBelow(outBuffer, v, k)
           /\ \A w : CountOf(outBuffer', w) = CountOf(outBuffer, w) + (IF v = w THEN 1 ELSE 0)
           /\ \A w : NoneOf(outBuffer', w) <=> NoneOf(outBuffer, w) /\ v # w
           /\ \A w : HasHead(outBuffer', w) <=> HasHead(outBuffer, w) \/ (v = w /\ k = 0)
           /\ \A w, b : AllBelow(outBuffer', w, b) <=>
                AllBelow(outBuffer, w, b) /\ (v = w => k < b /\ k # n - 1)
           /\ \A q \in Seq(Flit) :
                AllBefore(q, outBuffer') <=> AllBefore(q, outBuffer) /\ AllBelow(q, v, k)
<1> DEFINE f == NewFlit(v, k, n)
<1>1. f \in Flit /\ f.vc = v /\ f.id = k /\ (f.tail <=> k = n - 1)
  BY NewFlitType
<1>2. /\ outBuffer' = Append(outBuffer, f)
      /\ credits' = [credits EXCEPT ![v] = credits[v] - 1]
      /\ pktSize' = [pktSize EXCEPT ![v] = IF k = n - 1 THEN 0 ELSE n]
      /\ pktSent' = [pktSent EXCEPT ![v] = IF k = n - 1 THEN 0 ELSE k + 1]
  BY DEF Send
<1> HIDE DEF f
<1>3. outBuffer \in Seq(Flit)
  BY DEF TypeOK
<1>4. /\ credits \in [VCs -> Int] /\ pktSize \in [VCs -> 0 .. MaxFlits]
      /\ pktSent \in [VCs -> 0 .. MaxFlits]
  BY DEF TypeOK
<1>5. /\ credits'[v] = credits[v] - 1
      /\ pktSize'[v] = (IF k = n - 1 THEN 0 ELSE n)
      /\ pktSent'[v] = (IF k = n - 1 THEN 0 ELSE k + 1)
      /\ credits' \in [VCs -> Int]
      /\ pktSize' \in [VCs -> 0 .. MaxFlits] /\ pktSent' \in [VCs -> 0 .. MaxFlits]
      /\ \A w \in VCs \ {v} : /\ credits'[w] = credits[w]
                              /\ pktSize'[w] = pktSize[w] /\ pktSent'[w] = pktSent[w]
  BY <1>2, <1>4
<1>6. /\ outBuffer' \in Seq(Flit)
      /\ Increasing(outBuffer') <=> Increasing(outBuffer) /\ AllBelow(outBuffer, v, k)
      /\ \A w : CountOf(outBuffer', w) = CountOf(outBuffer, w) + (IF v = w THEN 1 ELSE 0)
      /\ \A w : NoneOf(outBuffer', w) <=> NoneOf(outBuffer, w) /\ v # w
      /\ \A w : HasHead(outBuffer', w) <=> HasHead(outBuffer, w) \/ (v = w /\ k = 0)
  BY <1>1, <1>2, <1>3, AppendFlit
<1>7. \A w, b : AllBelow(outBuffer', w, b) <=>
        AllBelow(outBuffer, w, b) /\ (v = w => k < b /\ k # n - 1)
  BY <1>1, <1>2, <1>3, AppendFlit
<1>8. \A q \in Seq(Flit) :
        AllBefore(q, outBuffer') <=> AllBefore(q, outBuffer) /\ AllBelow(q, v, k)
  BY <1>1, <1>2, <1>3, AppendBefore
<1> QED
  BY <1>5, <1>6, <1>7, <1>8

(* A send keeps the invariant when the VC is leased to its packet, the     *)
(* packet has come so far as its k-th flit, and a credit is there.         *)
LEMMA SendInv ==
    ASSUME IInv, NEW v \in VCs, NEW n \in 1 .. MaxFlits, NEW k \in 0 .. n - 1, Send(v, k, n),
           UNCHANGED <<upstream, linkBuffer, inState, inBuffer, creditQueue, creditLink>>,
           vcState' = [vcState EXCEPT ![v] = ACTIVE_],
           credits[v] > 0,
           k = 0 => Drained(v) /\ NoCredits(v),
           AllBelow(outBuffer, v, k), AllBelow(linkBuffer, v, k), AllBelow(inBuffer[v], v, k),
           NoFree(creditQueue, v), NoFree(creditLink, v),
           k > 0 /\ inState[v] = IDLE_ => HeadOnWire(v)
    PROVE  IInv'
<1>1. TypeOK /\ CreditConservation /\ InOrder /\ IdleInv /\ BoundInv /\ HeadInv /\ FreeInv
  BY DEF IInv
<1>2. /\ vcState'[v] = ACTIVE_ /\ vcState' \in [VCs -> {IDLE_, ACTIVE_}]
      /\ \A w \in VCs \ {v} : vcState'[w] = vcState[w]
  BY <1>1 DEF TypeOK
<1>3. TypeOK'
  BY <1>1, <1>2, SendFacts DEF TypeOK
<1>4. \A w \in VCs \ {v} : /\ Drained(w)' <=> Drained(w)
                           /\ NoCredits(w)' <=> NoCredits(w)
                           /\ HeadOnWire(w)' <=> HeadOnWire(w)
  BY <1>1, SendFacts DEF Drained, NoCredits, HeadOnWire
<1>5. CreditConservation'
  <2> SUFFICES ASSUME NEW w \in VCs
               PROVE  /\ credits'[w] \in 0 .. Depth[w]
                      /\ credits'[w] + Occupied(w)' + CreditsInFlight(w)' = Depth[w]
    BY DEF CreditConservation
  <2>1. /\ credits[w] \in 0 .. Depth[w] /\ Depth[w] \in Nat
        /\ credits[w] + Occupied(w) + CreditsInFlight(w) = Depth[w]
    BY <1>1 DEF CreditConservation
  <2>2. CountOf(outBuffer', w) = CountOf(outBuffer, w) + (IF v = w THEN 1 ELSE 0)
    BY <1>1, SendFacts
  <2>3. /\ Occupied(w)' = Occupied(w) + (IF v = w THEN 1 ELSE 0)
        /\ Occupied(w) \in Nat
    <3>1. /\ CountOf(outBuffer, w) \in Nat /\ CountOf(linkBuffer, w) \in Nat
          /\ Len(inBuffer[w]) \in Nat
      BY <1>1, Counts
    <3>2. Occupied(w)' = CountOf(outBuffer', w) + CountOf(linkBuffer, w) + Len(inBuffer[w])
      BY DEF Occupied
    <3> QED
      BY <2>2, <3>1, <3>2 DEF Occupied
  <2>4. CreditsInFlight(w)' = CreditsInFlight(w) /\ CreditsInFlight(w) \in Nat
    BY <1>1, Counts DEF CreditsInFlight
  <2>5. credits'[w] = credits[w] - (IF v = w THEN 1 ELSE 0)
    BY <1>1, <2>1, SendFacts
  <2> QED
    BY <2>1, <2>3, <2>4, <2>5
<1>6. InOrder'
  <2>1. Increasing(outBuffer')
    BY <1>1, SendFacts DEF InOrder
  <2>2. AllBefore(linkBuffer, outBuffer')
    BY <1>1, SendFacts DEF InOrder, TypeOK
  <2>3. ASSUME NEW w \in VCs PROVE AllBefore(inBuffer[w], outBuffer')
    <3>1. inBuffer[w] \in Seq(Flit) /\ AllBefore(inBuffer[w], outBuffer)
      BY <1>1 DEF TypeOK, InOrder
    <3>2. AllBelow(inBuffer[w], v, k)
      BY <1>1 DEF InOrder, AllBelow
    <3> QED
      BY <1>1, <3>1, <3>2, SendFacts
  <2> QED
    BY <1>1, <2>1, <2>2, <2>3 DEF InOrder
<1>7. IdleInv'
  <2> SUFFICES ASSUME NEW w \in VCs, vcState'[w] = IDLE_
               PROVE  Drained(w)' /\ NoCredits(w)' /\ pktSize'[w] = 0
    BY DEF IdleInv
  <2>1. w # v
    BY <1>2 DEF IDLE_, ACTIVE_
  <2>2. pktSize'[w] = pktSize[w]
    BY <1>1, <2>1, SendFacts
  <2> QED
    BY <1>1, <1>2, <1>4, <2>1, <2>2 DEF IdleInv
<1>8. HeadOnWire(v)' <=> HeadOnWire(v) \/ k = 0
  BY <1>1, SendFacts DEF HeadOnWire
<1>9. BoundInv'
  <2> SUFFICES ASSUME NEW w \in VCs, pktSize'[w] > 0
               PROVE  /\ vcState'[w] = ACTIVE_
                      /\ pktSent'[w] < pktSize'[w]
                      /\ AllBelow(outBuffer', w, pktSent'[w])
                      /\ AllBelow(linkBuffer, w, pktSent'[w])
                      /\ AllBelow(inBuffer[w], w, pktSent'[w])
                      /\ NoFree(creditQueue, w) /\ NoFree(creditLink, w)
                      /\ pktSent'[w] = 0 => Drained(w)' /\ NoCredits(w)'
                      /\ pktSent'[w] > 0 /\ inState[w] = IDLE_ => HeadOnWire(w)'
    BY DEF BoundInv
  <2>1. CASE w # v
    <3>1. pktSize'[w] = pktSize[w] /\ pktSent'[w] = pktSent[w]
      BY <1>1, <2>1, SendFacts
    <3>2. AllBelow(outBuffer', w, pktSent'[w]) <=> AllBelow(outBuffer, w, pktSent[w])
      BY <1>1, <2>1, <3>1, SendFacts
    <3> QED
      BY <1>1, <1>2, <1>4, <2>1, <3>1, <3>2 DEF BoundInv
  <2>2. CASE w = v
    <3>1. k # n - 1 /\ pktSize'[v] = n /\ pktSent'[v] = k + 1
      BY <1>1, <2>2, SendFacts
    <3>2. \A q \in Seq(Flit) : AllBelow(q, v, k) => AllBelow(q, v, k + 1)
      <4> SUFFICES ASSUME NEW q \in Seq(Flit), AllBelow(q, v, k),
                          NEW i \in 1 .. Len(q), q[i].vc = v
                   PROVE  q[i].id < k + 1 /\ ~q[i].tail
        BY DEF AllBelow
      <4>1. q[i] \in Flit
        BY ElementOfSeq
      <4>2. q[i].id \in Int
        BY <4>1 DEF Flit
      <4> QED
        BY <4>2 DEF AllBelow
    <3>3. AllBelow(outBuffer', v, k + 1)
      <4>1. AllBelow(outBuffer, v, k + 1)
        BY <1>1, <3>2 DEF TypeOK
      <4> QED
        BY <1>1, <3>1, <4>1, SendFacts
    <3>4. AllBelow(linkBuffer, v, k + 1) /\ AllBelow(inBuffer[v], v, k + 1)
      BY <1>1, <3>2 DEF TypeOK
    <3> QED
      BY <1>2, <1>8, <2>2, <3>1, <3>3, <3>4
  <2> QED
    BY <2>1, <2>2
<1>10. HeadInv'
  <2> SUFFICES ASSUME NEW w \in VCs
               PROVE  /\ HeadOnWire(w)' => inState[w] = IDLE_
                      /\ inState[w] = IDLE_ => inBuffer[w] = << >>
                      /\ inState[w] = IDLE_ /\ ~HeadOnWire(w)' =>
                           NoneOf(outBuffer', w) /\ NoneOf(linkBuffer, w)
    BY DEF HeadInv
  <2>1. CASE w # v
    BY <1>1, <1>4, <2>1, SendFacts DEF HeadInv
  <2>2. CASE w = v
    BY <1>1, <1>8, <2>2 DEF HeadInv, Drained
  <2> QED
    BY <2>1, <2>2
<1>11. FreeInv'
  <2>1. \A w \in VCs \ {v} : pktSize'[w] = pktSize[w]
    BY <1>1, SendFacts
  <2> QED
    BY <1>1, <1>4, <2>1 DEF FreeInv
<1> QED
  BY <1>3, <1>5, <1>6, <1>7, <1>9, <1>10, <1>11 DEF IInv

(* Each action keeps the invariant.                                        *)
LEMMA SendHeadInv ==
    ASSUME IInv, NEW v \in VCs, NEW n \in 1 .. MaxFlits, SendHead(v, n)
    PROVE  IInv'
<1> DEFINE k == 0
<1>1. /\ vcState[v] = IDLE_ /\ vcState' = [vcState EXCEPT ![v] = ACTIVE_] /\ Send(v, k, n)
      /\ UNCHANGED <<upstream, linkBuffer, inState, inBuffer, creditQueue, creditLink>>
  BY DEF SendHead, IsFirstFree, downVars, creditVars
<1>2. Drained(v) /\ NoCredits(v)
  BY <1>1 DEF IInv, IdleInv
<1>3. credits[v] > 0
  <2>1. TypeOK /\ credits[v] + Occupied(v) + CreditsInFlight(v) = Depth[v] /\ Depth[v] \in Nat \ {0}
    BY DEF IInv, CreditConservation
  <2>2. CountOf(outBuffer, v) = 0 /\ CountOf(linkBuffer, v) = 0 /\ Len(inBuffer[v]) = 0
    BY <1>2, <2>1, CountZero, EmptySeq DEF TypeOK, Drained
  <2>3. CountOf(creditQueue, v) = 0 /\ CountOf(creditLink, v) = 0
    BY <1>2, <2>1, CountZero DEF TypeOK, NoCredits
  <2>4. credits[v] \in Int
    BY <2>1 DEF TypeOK
  <2> QED
    BY <2>1, <2>2, <2>3, <2>4 DEF Occupied, CreditsInFlight
<1>4. /\ AllBelow(outBuffer, v, k) /\ AllBelow(linkBuffer, v, k)
      /\ NoFree(creditQueue, v) /\ NoFree(creditLink, v)
  BY <1>2, NoneOfFlits DEF Drained, NoCredits
<1>5. AllBelow(inBuffer[v], v, k)
  BY <1>2, EmptySeq DEF Drained, AllBelow
<1>6. /\ k \in 0 .. n - 1
      /\ k > 0 /\ inState[v] = IDLE_ => HeadOnWire(v)
  OBVIOUS
<1> HIDE DEF k
<1> QED
  BY <1>1, <1>2, <1>3, <1>4, <1>5, <1>6, SendInv

(* The interface's next flit of a packet keeps the invariant.              *)
LEMMA SendFlitInv ==
    ASSUME IInv, NEW v \in VCs, SendFlit(v)
    PROVE  IInv'
<1> DEFINE n == pktSize[v]
           k == pktSent[v]
<1>1. /\ TypeOK /\ pktSize[v] > 0 /\ credits[v] > 0 /\ Send(v, k, n)
      /\ UNCHANGED <<upstream, vcState, linkBuffer, inState, inBuffer, creditQueue, creditLink>>
  BY DEF SendFlit, HasCredit, downVars, creditVars, IInv
<1>2. n \in 1 .. MaxFlits /\ k \in Nat
  BY <1>1 DEF TypeOK
<1>3. /\ vcState[v] = ACTIVE_ /\ k < n
      /\ AllBelow(outBuffer, v, k) /\ AllBelow(linkBuffer, v, k) /\ AllBelow(inBuffer[v], v, k)
      /\ NoFree(creditQueue, v) /\ NoFree(creditLink, v)
      /\ k = 0 => Drained(v) /\ NoCredits(v)
      /\ k > 0 /\ inState[v] = IDLE_ => HeadOnWire(v)
  BY <1>1 DEF IInv, BoundInv
<1>4. vcState' = [vcState EXCEPT ![v] = ACTIVE_]
  BY <1>1, <1>3 DEF TypeOK
<1>5. k \in 0 .. n - 1
  BY <1>2, <1>3
<1> HIDE DEF n, k
<1> QED
  BY <1>1, <1>2, <1>3, <1>4, <1>5, SendInv

(* An interface that takes an idle VC for a packet keeps the invariant.    *)
LEMMA NIAllocateInv ==
    ASSUME IInv, NEW v \in VCs, NEW n \in 1 .. MaxFlits, NIAllocate(v, n)
    PROVE  IInv'
<1>1. /\ vcState[v] = IDLE_
      /\ vcState' = [vcState EXCEPT ![v] = ACTIVE_]
      /\ pktSize' = [pktSize EXCEPT ![v] = n] /\ pktSent' = [pktSent EXCEPT ![v] = 0]
      /\ UNCHANGED <<upstream, credits, outBuffer, linkBuffer, inState, inBuffer,
                     creditQueue, creditLink>>
  BY DEF NIAllocate, wires, downVars, creditVars
<1>2. TypeOK /\ CreditConservation /\ InOrder /\ IdleInv /\ BoundInv /\ HeadInv /\ FreeInv
  BY DEF IInv
<1>3. /\ vcState'[v] = ACTIVE_ /\ pktSize'[v] = n /\ pktSent'[v] = 0
      /\ \A w \in VCs \ {v} : /\ vcState'[w] = vcState[w] /\ pktSize'[w] = pktSize[w]
                              /\ pktSent'[w] = pktSent[w]
  BY <1>1, <1>2 DEF TypeOK
<1>4. Drained(v) /\ NoCredits(v)
  BY <1>1, <1>2 DEF IdleInv
<1>5. \A w \in VCs : /\ Drained(w)' <=> Drained(w)
                     /\ NoCredits(w)' <=> NoCredits(w)
                     /\ HeadOnWire(w)' <=> HeadOnWire(w)
  BY <1>1 DEF Drained, NoCredits, HeadOnWire
<1>6. TypeOK'
  BY <1>1, <1>2 DEF TypeOK
<1>7. CreditConservation' /\ InOrder' /\ HeadInv'
  BY <1>1, <1>2, <1>5 DEF CreditConservation, Occupied, CreditsInFlight, InOrder, HeadInv
<1>8. IdleInv'
  BY <1>2, <1>3, <1>5 DEF IdleInv, IDLE_, ACTIVE_
<1>9. BoundInv'
  <2> SUFFICES ASSUME NEW w \in VCs, pktSize'[w] > 0
               PROVE  /\ vcState'[w] = ACTIVE_
                      /\ pktSent'[w] < pktSize'[w]
                      /\ AllBelow(outBuffer, w, pktSent'[w])
                      /\ AllBelow(linkBuffer, w, pktSent'[w])
                      /\ AllBelow(inBuffer[w], w, pktSent'[w])
                      /\ NoFree(creditQueue, w) /\ NoFree(creditLink, w)
                      /\ pktSent'[w] = 0 => Drained(w)' /\ NoCredits(w)'
                      /\ pktSent'[w] > 0 /\ inState[w] = IDLE_ => HeadOnWire(w)'
    BY <1>1 DEF BoundInv
  <2>1. CASE w # v
    BY <1>2, <1>3, <1>5, <2>1 DEF BoundInv
  <2>2. CASE w = v
    <3>1. /\ AllBelow(outBuffer, v, 0) /\ AllBelow(linkBuffer, v, 0)
          /\ NoFree(creditQueue, v) /\ NoFree(creditLink, v)
      BY <1>4, NoneOfFlits DEF Drained, NoCredits
    <3>2. AllBelow(inBuffer[v], v, 0)
      BY <1>4, EmptySeq DEF Drained, AllBelow
    <3> QED
      BY <1>3, <1>4, <1>5, <2>2, <3>1, <3>2
  <2> QED
    BY <2>1, <2>2
<1>10. FreeInv'
  <2>1. NoFree(creditQueue, v) /\ NoFree(creditLink, v)
    BY <1>4, NoneOfFlits DEF NoCredits
  <2> QED
    BY <1>1, <1>2, <1>3, <1>5, <2>1 DEF FreeInv
<1> QED
  BY <1>6, <1>7, <1>8, <1>9, <1>10 DEF IInv

(* OutputUnit::wakeup: the credit goes from the credit link to the count,  *)
(* and a free signal is the last trace of its packet.                      *)
LEMMA OutputUnitInv ==
    ASSUME IInv, OutputUnitWakeup
    PROVE  IInv'
<1> DEFINE c == Head(creditLink)
<1>1. TypeOK /\ CreditConservation /\ InOrder /\ IdleInv /\ BoundInv /\ HeadInv /\ FreeInv
  BY DEF IInv
<1>2. /\ creditLink # << >> /\ creditLink' = Tail(creditLink)
      /\ credits' = [credits EXCEPT ![c.vc] = credits[c.vc] + 1]
      /\ vcState' = IF c.free THEN [vcState EXCEPT ![c.vc] = IDLE_] ELSE vcState
      /\ UNCHANGED <<upstream, pktSize, pktSent, outBuffer, linkBuffer, inState, inBuffer,
                     creditQueue>>
  BY DEF OutputUnitWakeup, wires, downVars
<1>3. creditLink \in Seq(Credit)
  BY <1>1 DEF TypeOK
<1>4. /\ creditLink' \in Seq(Credit) /\ c \in Credit
      /\ FreeLast(creditLink) <=> FreeLast(creditLink') /\ (c.free => NoneOf(creditLink', c.vc))
      /\ \A w : CountOf(creditLink, w) = CountOf(creditLink', w) + (IF c.vc = w THEN 1 ELSE 0)
      /\ \A w : NoneOf(creditLink, w) <=> NoneOf(creditLink', w) /\ c.vc # w
      /\ \A w : NoFree(creditLink, w) <=> NoFree(creditLink', w) /\ (c.vc = w => ~c.free)
  BY <1>2, <1>3, TakeCredit
<1>5. c.vc \in VCs
  BY <1>4 DEF Credit
<1> HIDE DEF c
<1>6. /\ \A w \in VCs : credits'[w] = credits[w] + (IF c.vc = w THEN 1 ELSE 0)
      /\ \A w \in VCs : vcState'[w] = IF c.free /\ c.vc = w THEN IDLE_ ELSE vcState[w]
      /\ credits' \in [VCs -> Int] /\ vcState' \in [VCs -> {IDLE_, ACTIVE_}]
  <2>1. credits \in [VCs -> Int] /\ vcState \in [VCs -> {IDLE_, ACTIVE_}]
    BY <1>1 DEF TypeOK
  <2>2. /\ \A w \in VCs : credits'[w] = credits[w] + (IF c.vc = w THEN 1 ELSE 0)
        /\ credits' \in [VCs -> Int]
    BY <1>2, <1>5, <2>1
  <2>3. CASE c.free
    BY <1>2, <1>5, <2>1, <2>2, <2>3
  <2>4. CASE ~c.free
    BY <1>2, <1>5, <2>1, <2>2, <2>4
  <2> QED
    BY <2>3, <2>4
<1>7. \A w \in VCs : /\ Drained(w)' <=> Drained(w)
                     /\ NoCredits(w) => NoCredits(w)'
                     /\ HeadOnWire(w)' <=> HeadOnWire(w)
  BY <1>2, <1>4 DEF Drained, NoCredits, HeadOnWire
<1>8. TypeOK'
  BY <1>1, <1>2, <1>4, <1>6 DEF TypeOK
<1>9. CreditConservation'
  <2> SUFFICES ASSUME NEW w \in VCs
               PROVE  /\ credits'[w] \in 0 .. Depth[w]
                      /\ credits'[w] + Occupied(w)' + CreditsInFlight(w)' = Depth[w]
    BY DEF CreditConservation
  <2>1. /\ credits[w] \in 0 .. Depth[w] /\ Depth[w] \in Nat
        /\ credits[w] + Occupied(w) + CreditsInFlight(w) = Depth[w]
    BY <1>1 DEF CreditConservation
  <2>2. /\ CountOf(outBuffer, w) \in Nat /\ CountOf(linkBuffer, w) \in Nat
        /\ Len(inBuffer[w]) \in Nat /\ CountOf(creditQueue, w) \in Nat
        /\ CountOf(creditLink', w) \in Nat
    BY <1>1, <1>4, Counts, IndicesFinite
  <2>3. Occupied(w)' = Occupied(w) /\ Occupied(w) \in Nat
    BY <1>2, <2>2 DEF Occupied
  <2>4. /\ CreditsInFlight(w) = CreditsInFlight(w)' + (IF c.vc = w THEN 1 ELSE 0)
        /\ CreditsInFlight(w)' \in Nat
    BY <1>2, <1>4, <2>2 DEF CreditsInFlight
  <2> QED
    BY <1>6, <2>1, <2>3, <2>4
<1>10. InOrder' /\ HeadInv'
  BY <1>1, <1>2, <1>7 DEF InOrder, HeadInv
<1>11. FreeInv'
  BY <1>1, <1>2, <1>4, <1>7 DEF FreeInv
<1>12. ASSUME NEW w \in VCs, c.free, c.vc = w
       PROVE  Drained(w) /\ NoCredits(w)' /\ pktSize[w] = 0
  <2>1. ~NoFree(creditLink, w)
    BY <1>4, <1>12
  <2>2. Drained(w) /\ pktSize[w] = 0 /\ NoneOf(creditQueue, w)
    BY <1>1, <2>1 DEF FreeInv
  <2>3. NoneOf(creditLink', w)
    BY <1>1, <1>4, <1>12 DEF FreeInv
  <2> QED
    BY <1>2, <2>2, <2>3 DEF NoCredits
<1>13. IdleInv'
  <2> SUFFICES ASSUME NEW w \in VCs, vcState'[w] = IDLE_
               PROVE  Drained(w)' /\ NoCredits(w)' /\ pktSize'[w] = 0
    BY DEF IdleInv
  <2>1. CASE c.free /\ c.vc = w
    BY <1>2, <1>7, <1>12, <2>1
  <2>2. CASE ~(c.free /\ c.vc = w)
    BY <1>1, <1>2, <1>6, <1>7, <2>2 DEF IdleInv
  <2> QED
    BY <2>1, <2>2
<1>14. BoundInv'
  <2> SUFFICES ASSUME NEW w \in VCs, pktSize[w] > 0
               PROVE  /\ vcState'[w] = ACTIVE_
                      /\ pktSent[w] < pktSize[w]
                      /\ AllBelow(outBuffer, w, pktSent[w])
                      /\ AllBelow(linkBuffer, w, pktSent[w])
                      /\ AllBelow(inBuffer[w], w, pktSent[w])
                      /\ NoFree(creditQueue, w) /\ NoFree(creditLink', w)
                      /\ pktSent[w] = 0 => Drained(w)' /\ NoCredits(w)'
                      /\ pktSent[w] > 0 /\ inState[w] = IDLE_ => HeadOnWire(w)'
    BY <1>2 DEF BoundInv
  <2>1. vcState'[w] = vcState[w]
    BY <1>6, <1>12
  <2> QED
    BY <1>1, <1>4, <1>7, <2>1 DEF BoundInv
<1> QED
  BY <1>8, <1>9, <1>10, <1>11, <1>13, <1>14 DEF IInv

(* NetworkLink::wakeup on the credit link.                                 *)
LEMMA CreditLinkInv ==
    ASSUME IInv, CreditLinkWakeup
    PROVE  IInv'
<1> DEFINE c == Head(creditQueue)
<1>1. TypeOK /\ CreditConservation /\ InOrder /\ IdleInv /\ BoundInv /\ HeadInv /\ FreeInv
  BY DEF IInv
<1>2. /\ creditQueue # << >> /\ creditQueue' = Tail(creditQueue)
      /\ creditLink' = Append(creditLink, c)
      /\ UNCHANGED <<upstream, vcState, credits, pktSize, pktSent, outBuffer, linkBuffer,
                     inState, inBuffer>>
  BY DEF CreditLinkWakeup, upVars, wires, downVars
<1>3. creditLink \in Seq(Credit) /\ creditQueue \in Seq(Credit)
  BY <1>1 DEF TypeOK
<1>4. /\ creditQueue' \in Seq(Credit) /\ c \in Credit
      /\ FreeLast(creditQueue) <=> FreeLast(creditQueue') /\ (c.free => NoneOf(creditQueue', c.vc))
      /\ \A w : CountOf(creditQueue, w) = CountOf(creditQueue', w) + (IF c.vc = w THEN 1 ELSE 0)
      /\ \A w : NoneOf(creditQueue, w) <=> NoneOf(creditQueue', w) /\ c.vc # w
      /\ \A w : NoFree(creditQueue, w) <=> NoFree(creditQueue', w) /\ (c.vc = w => ~c.free)
  BY <1>2, <1>3, TakeCredit
<1>5. c.vc \in VCs
  BY <1>4 DEF Credit
<1> HIDE DEF c
<1>6. /\ creditLink' \in Seq(Credit)
      /\ FreeLast(creditLink') <=> FreeLast(creditLink) /\ NoFree(creditLink, c.vc)
      /\ \A w : CountOf(creditLink', w) = CountOf(creditLink, w) + (IF c.vc = w THEN 1 ELSE 0)
      /\ \A w : NoneOf(creditLink', w) <=> NoneOf(creditLink, w) /\ c.vc # w
      /\ \A w : NoFree(creditLink', w) <=> NoFree(creditLink, w) /\ (c.vc = w => ~c.free)
  BY <1>2, <1>3, <1>4, AppendCredit
<1>7. \A w \in VCs : /\ Drained(w)' <=> Drained(w)
                     /\ NoCredits(w)' <=> NoCredits(w)
                     /\ HeadOnWire(w)' <=> HeadOnWire(w)
                     /\ NoFree(creditQueue', w) /\ NoFree(creditLink', w) <=>
                        NoFree(creditQueue, w) /\ NoFree(creditLink, w)
  BY <1>2, <1>4, <1>6 DEF Drained, NoCredits, HeadOnWire
<1>8. TypeOK'
  BY <1>1, <1>2, <1>4, <1>6 DEF TypeOK
<1>9. CreditConservation'
  <2> SUFFICES ASSUME NEW w \in VCs PROVE CreditsInFlight(w)' = CreditsInFlight(w)
    BY <1>1, <1>2 DEF CreditConservation, Occupied
  <2>1. /\ CountOf(creditQueue', w) \in Nat /\ CountOf(creditLink, w) \in Nat
    BY <1>1, <1>4, Counts, IndicesFinite
  <2> QED
    BY <1>4, <1>6, <2>1 DEF CreditsInFlight
<1>10. InOrder' /\ HeadInv' /\ IdleInv'
  BY <1>1, <1>2, <1>7 DEF InOrder, HeadInv, IdleInv
<1>11. BoundInv'
  BY <1>1, <1>2, <1>7 DEF BoundInv
<1>12. NoFree(creditLink, c.vc)
  BY <1>1, <1>4, <1>5 DEF FreeInv
<1>13. FreeInv'
  BY <1>1, <1>2, <1>4, <1>6, <1>7, <1>12 DEF FreeInv
<1> QED
  BY <1>8, <1>9, <1>10, <1>11, <1>13 DEF IInv

(* NetworkLink::wakeup on the data link: the flit passes from the last     *)
(* place of one wire to the first of the next, so the order is kept.       *)
LEMMA DataLinkInv ==
    ASSUME IInv, DataLinkWakeup
    PROVE  IInv'
<1> DEFINE f == Head(outBuffer)
<1>1. TypeOK /\ CreditConservation /\ InOrder /\ IdleInv /\ BoundInv /\ HeadInv /\ FreeInv
  BY DEF IInv
<1>2. /\ outBuffer # << >> /\ outBuffer' = Tail(outBuffer)
      /\ linkBuffer' = Append(linkBuffer, f)
      /\ UNCHANGED <<upstream, vcState, credits, pktSize, pktSent, inState, inBuffer,
                     creditQueue, creditLink>>
  BY DEF DataLinkWakeup, upVars, creditVars, downVars
<1>3. outBuffer \in Seq(Flit) /\ linkBuffer \in Seq(Flit)
  BY <1>1 DEF TypeOK
<1>4. /\ outBuffer' \in Seq(Flit) /\ f \in Flit
      /\ Increasing(outBuffer) <=> Increasing(outBuffer') /\ Follow(outBuffer', f)
      /\ \A w : CountOf(outBuffer, w) = CountOf(outBuffer', w) + (IF f.vc = w THEN 1 ELSE 0)
      /\ \A w : NoneOf(outBuffer, w) <=> NoneOf(outBuffer', w) /\ f.vc # w
      /\ \A w : HasHead(outBuffer, w) <=> HasHead(outBuffer', w) \/ (f.vc = w /\ f.id = 0)
  BY <1>2, <1>3, TakeFlit
<1>5. \A w, k : AllBelow(outBuffer, w, k) <=>
        AllBelow(outBuffer', w, k) /\ (f.vc = w => f.id < k /\ ~f.tail)
  BY <1>2, <1>3, TakeFlit
<1>6. f.vc \in VCs
  BY <1>4 DEF Flit
<1>7. \A q \in Seq(Flit) :
        AllBefore(q, outBuffer) <=> AllBefore(q, outBuffer') /\ AllBelow(q, f.vc, f.id)
  BY <1>2, <1>3, TailBefore
<1> HIDE DEF f
<1>8. /\ linkBuffer' \in Seq(Flit)
      /\ Increasing(linkBuffer') <=> Increasing(linkBuffer) /\ AllBelow(linkBuffer, f.vc, f.id)
      /\ \A w : CountOf(linkBuffer', w) = CountOf(linkBuffer, w) + (IF f.vc = w THEN 1 ELSE 0)
      /\ \A w : NoneOf(linkBuffer', w) <=> NoneOf(linkBuffer, w) /\ f.vc # w
      /\ \A w : HasHead(linkBuffer', w) <=> HasHead(linkBuffer, w) \/ (f.vc = w /\ f.id = 0)
  BY <1>2, <1>3, <1>4, AppendFlit
<1>9. \A w, k : AllBelow(linkBuffer', w, k) <=>
        AllBelow(linkBuffer, w, k) /\ (f.vc = w => f.id < k /\ ~f.tail)
  BY <1>2, <1>3, <1>4, AppendFlit
<1>10. \A q \in Seq(Flit) :
         /\ AllBefore(q, linkBuffer') <=> AllBefore(q, linkBuffer) /\ AllBelow(q, f.vc, f.id)
         /\ AllBefore(linkBuffer', q) <=> AllBefore(linkBuffer, q) /\ Follow(q, f)
  BY <1>2, <1>3, <1>4, AppendBefore
<1>11. \A w \in VCs :
         /\ NoneOf(outBuffer', w) /\ NoneOf(linkBuffer', w) <=>
            NoneOf(outBuffer, w) /\ NoneOf(linkBuffer, w)
         /\ Drained(w)' <=> Drained(w)
         /\ NoCredits(w)' <=> NoCredits(w)
         /\ HeadOnWire(w)' <=> HeadOnWire(w)
  BY <1>2, <1>4, <1>8 DEF Drained, NoCredits, HeadOnWire
<1>12. TypeOK'
  BY <1>1, <1>2, <1>4, <1>8 DEF TypeOK
<1>13. CreditConservation'
  <2> SUFFICES ASSUME NEW w \in VCs PROVE Occupied(w)' = Occupied(w)
    BY <1>1, <1>2 DEF CreditConservation, CreditsInFlight
  <2>1. /\ CountOf(outBuffer', w) \in Nat /\ CountOf(linkBuffer, w) \in Nat
        /\ Len(inBuffer[w]) \in Nat
    BY <1>1, <1>4, Counts, IndicesFinite
  <2> QED
    <3>1. CountOf(outBuffer, w) + CountOf(linkBuffer, w)
            = CountOf(outBuffer', w) + CountOf(linkBuffer', w)
      BY <1>4, <1>8, <2>1
    <3>2. inBuffer' = inBuffer
      BY <1>2
    <3> QED
      BY <3>1, <3>2 DEF Occupied
<1>14. InOrder'
  <2>1. /\ Increasing(outBuffer) /\ Increasing(linkBuffer) /\ AllBefore(linkBuffer, outBuffer)
    BY <1>1 DEF InOrder
  <2>2. Increasing(outBuffer') /\ Increasing(linkBuffer') /\ AllBefore(linkBuffer', outBuffer')
    BY <1>3, <1>4, <1>7, <1>8, <1>10, <2>1
  <2>3. ASSUME NEW w \in VCs
        PROVE  AllBefore(inBuffer[w], linkBuffer') /\ AllBefore(inBuffer[w], outBuffer')
    <3>1. /\ inBuffer[w] \in Seq(Flit)
          /\ AllBefore(inBuffer[w], linkBuffer) /\ AllBefore(inBuffer[w], outBuffer)
      BY <1>1 DEF TypeOK, InOrder
    <3> QED
      BY <1>7, <1>10, <3>1
  <2> QED
    BY <1>1, <1>2, <2>2, <2>3 DEF InOrder
<1>15. IdleInv' /\ HeadInv' /\ FreeInv'
  BY <1>1, <1>2, <1>11 DEF IdleInv, HeadInv, FreeInv
<1>16. BoundInv'
  <2>1. \A w, k : AllBelow(outBuffer', w, k) /\ AllBelow(linkBuffer', w, k) <=>
                  AllBelow(outBuffer, w, k) /\ AllBelow(linkBuffer, w, k)
    BY <1>5, <1>9
  <2> QED
    BY <1>1, <1>2, <1>11, <2>1 DEF BoundInv
<1> QED
  BY <1>12, <1>13, <1>14, <1>15, <1>16 DEF IInv

(* The flit that reaches the input port is the oldest of its VC on the     *)
(* wires: a head finds the VC idle, and any other flit finds it active.    *)
LEMMA FirstOnWire ==
    ASSUME IInv, linkBuffer # << >>
    PROVE  LET f == Head(linkBuffer)
           IN  inState[f.vc] = (IF f.id = 0 THEN IDLE_ ELSE ACTIVE_)
<1> DEFINE f == Head(linkBuffer)
<1>1. TypeOK /\ InOrder /\ HeadInv
  BY DEF IInv
<1>2. linkBuffer \in Seq(Flit) /\ outBuffer \in Seq(Flit)
  BY <1>1 DEF TypeOK
<1>3. /\ f \in Flit
      /\ Increasing(linkBuffer) => Follow(Tail(linkBuffer), f)
      /\ \A w : NoneOf(linkBuffer, w) => f.vc # w
      /\ \A w : HasHead(linkBuffer, w) <=> HasHead(Tail(linkBuffer), w) \/ (f.vc = w /\ f.id = 0)
  BY <1>2, TakeFlit
<1>4. AllBefore(linkBuffer, outBuffer) => Follow(outBuffer, f)
  BY <1>2, TailBefore
<1>5. f.vc \in VCs /\ f.id \in Nat
  BY <1>3 DEF Flit
<1> SUFFICES inState[f.vc] = (IF f.id = 0 THEN IDLE_ ELSE ACTIVE_)
  OBVIOUS
<1> HIDE DEF f
<1>6. CASE f.id = 0
  <2>1. HasHead(linkBuffer, f.vc)
    BY <1>3, <1>6
  <2> QED
    BY <1>1, <1>5, <1>6, <2>1 DEF HeadInv, HeadOnWire
<1>7. CASE f.id # 0
  <2>1. Tail(linkBuffer) \in Seq(Flit)
    BY <1>2, HeadTailProperties
  <2>2. \A q \in Seq(Flit) : Follow(q, f) => ~HasHead(q, f.vc)
    BY <1>5 DEF Follow, HasHead
  <2>3. ~HeadOnWire(f.vc)
    BY <1>1, <1>2, <1>3, <1>4, <1>7, <2>1, <2>2 DEF InOrder, HeadOnWire
  <2>4. inState[f.vc] # IDLE_
    BY <1>1, <1>3, <1>5, <2>3 DEF HeadInv
  <2>5. inState[f.vc] = ACTIVE_
    BY <1>1, <1>5, <2>4 DEF TypeOK
  <2> QED
    BY <1>7, <2>5
<1> QED
  BY <1>6, <1>7

(* InputUnit::wakeup: the flit goes behind the earlier flits of its packet.*)
LEMMA InputUnitInv ==
    ASSUME IInv, InputUnitWakeup
    PROVE  IInv'
<1>1. TypeOK /\ CreditConservation /\ InOrder /\ IdleInv /\ BoundInv /\ HeadInv /\ FreeInv
  BY DEF IInv
<1>0. Head(linkBuffer) \in Flit /\ Head(linkBuffer).vc \in VCs
  BY <1>1, TakeFlit DEF InputUnitWakeup, TypeOK, Flit
<1> PICK f \in Flit : f = Head(linkBuffer)
  BY <1>0
<1> PICK v \in VCs : v = f.vc
  BY <1>0
<1>2. /\ linkBuffer # << >> /\ linkBuffer' = Tail(linkBuffer)
      /\ inState' = IF f.id = 0 THEN [inState EXCEPT ![v] = ACTIVE_] ELSE inState
      /\ inBuffer' = [inBuffer EXCEPT ![v] = Append(inBuffer[v], f)]
      /\ UNCHANGED <<upstream, vcState, credits, pktSize, pktSent, outBuffer,
                     creditQueue, creditLink>>
  BY DEF InputUnitWakeup, IsHead, upVars, creditVars
<1>3. linkBuffer \in Seq(Flit) /\ outBuffer \in Seq(Flit) /\ inBuffer \in [VCs -> Seq(Flit)]
      /\ inState \in [VCs -> {IDLE_, ACTIVE_}]
  BY <1>1 DEF TypeOK
<1>4. /\ linkBuffer' \in Seq(Flit) /\ f \in Flit
      /\ Increasing(linkBuffer) <=> Increasing(linkBuffer') /\ Follow(linkBuffer', f)
      /\ \A w : CountOf(linkBuffer, w) = CountOf(linkBuffer', w) + (IF v = w THEN 1 ELSE 0)
      /\ \A w : NoneOf(linkBuffer, w) <=> NoneOf(linkBuffer', w) /\ v # w
      /\ \A w : HasHead(linkBuffer, w) <=> HasHead(linkBuffer', w) \/ (v = w /\ f.id = 0)
  BY <1>2, <1>3, TakeFlit
<1>5. \A w, k : AllBelow(linkBuffer, w, k) <=>
        AllBelow(linkBuffer', w, k) /\ (v = w => f.id < k /\ ~f.tail)
  BY <1>2, <1>3, TakeFlit
<1>6. \A q \in Seq(Flit) :
        /\ AllBefore(q, linkBuffer) <=> AllBefore(q, linkBuffer') /\ AllBelow(q, v, f.id)
        /\ AllBefore(linkBuffer, q) <=> AllBefore(linkBuffer', q) /\ Follow(q, f)
  BY <1>2, <1>3, TailBefore
<1>7. v \in VCs /\ f.id \in Nat /\ f.vc = v
  BY <1>4 DEF Flit
<1>8. inState' = [inState EXCEPT ![v] = ACTIVE_]
  <2>1. inState[v] = (IF f.id = 0 THEN IDLE_ ELSE ACTIVE_)
    BY <1>2, FirstOnWire
  <2> QED
    BY <1>2, <1>3, <2>1
<1>9. inBuffer[v] \in Seq(Flit) /\ inBuffer'[v] = Append(inBuffer[v], f)
  BY <1>2, <1>3, <1>7
<1>10. /\ inBuffer' \in [VCs -> Seq(Flit)]
       /\ \A w \in VCs \ {v} : inBuffer'[w] = inBuffer[w]
       /\ Len(inBuffer'[v]) = Len(inBuffer[v]) + 1
  BY <1>2, <1>3, <1>4, <1>7, <1>9, AppendProperties
<1>11. /\ inState' \in [VCs -> {IDLE_, ACTIVE_}] /\ inState'[v] = ACTIVE_
       /\ \A w \in VCs \ {v} : inState'[w] = inState[w]
  BY <1>3, <1>7, <1>8
<1>12. /\ Increasing(linkBuffer') /\ Follow(linkBuffer', f) /\ Follow(outBuffer, f)
       /\ AllBefore(linkBuffer', outBuffer) /\ Increasing(outBuffer)
  BY <1>1, <1>3, <1>4, <1>6 DEF InOrder
<1>13. ~HeadOnWire(v)'
  <2>1. \A q : Follow(q, f) => ~HasHead(q, v)
    BY <1>7 DEF Follow, HasHead
  <2> QED
    BY <1>2, <1>12, <2>1 DEF HeadOnWire
<1>14. ~NoneOf(linkBuffer, v)
  BY <1>4
<1>15. /\ vcState[v] # IDLE_ /\ NoFree(creditQueue, v) /\ NoFree(creditLink, v)
       /\ pktSize[v] > 0 => pktSent[v] # 0
  BY <1>1, <1>7, <1>14 DEF IdleInv, FreeInv, BoundInv, Drained
<1>16. \A w \in VCs \ {v} : /\ Drained(w)' <=> Drained(w)
                            /\ HeadOnWire(w)' <=> HeadOnWire(w)
  BY <1>2, <1>4, <1>10, <1>11 DEF Drained, HeadOnWire
<1>17. \A w \in VCs : NoCredits(w)' <=> NoCredits(w)
  BY <1>2 DEF NoCredits
<1>18. TypeOK'
  BY <1>1, <1>2, <1>4, <1>10, <1>11 DEF TypeOK
<1>19. CreditConservation'
  <2> SUFFICES ASSUME NEW w \in VCs PROVE Occupied(w)' = Occupied(w)
    BY <1>1, <1>2 DEF CreditConservation, CreditsInFlight
  <2>1. /\ CountOf(outBuffer, w) \in Nat /\ CountOf(linkBuffer', w) \in Nat
        /\ Len(inBuffer[w]) \in Nat
    BY <1>1, <1>4, Counts, IndicesFinite
  <2>2. Len(inBuffer'[w]) = Len(inBuffer[w]) + (IF v = w THEN 1 ELSE 0)
    <3>1. CASE v = w
      BY <1>10, <3>1
    <3>2. CASE v # w
      <4>1. inBuffer'[w] = inBuffer[w]
        BY <1>10, <3>2
      <4> QED
        BY <2>1, <3>2, <4>1
    <3> QED
      BY <3>1, <3>2
  <2> DEFINE a == CountOf(linkBuffer, w)
             b == CountOf(linkBuffer', w)
             c == Len(inBuffer[w])
             d == Len(inBuffer'[w])
  <2>3. a = b + (IF v = w THEN 1 ELSE 0) /\ d = c + (IF v = w THEN 1 ELSE 0)
    BY <1>4, <2>2
  <2>4. b \in Nat /\ c \in Nat /\ CountOf(outBuffer, w) \in Nat /\ outBuffer' = outBuffer
    BY <1>2, <2>1
  <2>5. Occupied(w) = CountOf(outBuffer, w) + a + c
        /\ Occupied(w)' = CountOf(outBuffer, w) + b + d
    BY <1>2 DEF Occupied
  <2> HIDE DEF a, b, c, d
  <2> QED
    BY <2>3, <2>4, <2>5
<1>20. InOrder'
  <2>1. ASSUME NEW w \in VCs
        PROVE  /\ \A i \in 1 .. Len(inBuffer'[w]) : inBuffer'[w][i].vc = w
               /\ Increasing(inBuffer'[w])
               /\ AllBefore(inBuffer'[w], linkBuffer') /\ AllBefore(inBuffer'[w], outBuffer)
    <3>1. /\ inBuffer[w] \in Seq(Flit) /\ Increasing(inBuffer[w])
          /\ \A i \in 1 .. Len(inBuffer[w]) : inBuffer[w][i].vc = w
          /\ AllBefore(inBuffer[w], linkBuffer) /\ AllBefore(inBuffer[w], outBuffer)
      BY <1>1, <1>3 DEF InOrder
    <3>2. AllBefore(inBuffer[w], linkBuffer') /\ AllBelow(inBuffer[w], v, f.id)
      BY <1>6, <3>1
    <3>3. CASE w # v
      BY <1>10, <3>1, <3>2, <3>3
    <3>4. CASE w = v
      <4>1. inBuffer'[w] = Append(inBuffer[w], f)
        BY <1>9, <3>4
      <4>2. \A i \in 1 .. Len(inBuffer'[w]) : inBuffer'[w][i].vc = w
        BY <1>4, <1>7, <3>1, <3>4, <4>1, AppendEntries
      <4>3. Increasing(inBuffer'[w])
        BY <1>4, <1>7, <3>1, <3>2, <4>1, AppendFlit
      <4>4. AllBefore(inBuffer'[w], linkBuffer') /\ AllBefore(inBuffer'[w], outBuffer)
        BY <1>3, <1>4, <1>12, <3>1, <3>2, <4>1, AppendBefore
      <4> QED
        BY <4>2, <4>3, <4>4
    <3> QED
      BY <3>3, <3>4
  <2> QED
    BY <1>2, <1>12, <2>1 DEF InOrder
<1>21. IdleInv'
  BY <1>1, <1>2, <1>15, <1>16, <1>17 DEF IdleInv
<1>22. BoundInv'
  <2> SUFFICES ASSUME NEW w \in VCs, pktSize[w] > 0
               PROVE  /\ vcState[w] = ACTIVE_
                      /\ pktSent[w] < pktSize[w]
                      /\ AllBelow(outBuffer, w, pktSent[w])
                      /\ AllBelow(linkBuffer', w, pktSent[w])
                      /\ AllBelow(inBuffer'[w], w, pktSent[w])
                      /\ NoFree(creditQueue, w) /\ NoFree(creditLink, w)
                      /\ pktSent[w] = 0 => Drained(w)' /\ NoCredits(w)'
                      /\ pktSent[w] > 0 /\ inState'[w] = IDLE_ => HeadOnWire(w)'
    BY <1>2 DEF BoundInv
  <2>1. /\ vcState[w] = ACTIVE_
        /\ pktSent[w] < pktSize[w]
        /\ AllBelow(outBuffer, w, pktSent[w])
        /\ AllBelow(linkBuffer, w, pktSent[w])
        /\ AllBelow(inBuffer[w], w, pktSent[w])
        /\ NoFree(creditQueue, w) /\ NoFree(creditLink, w)
        /\ pktSent[w] = 0 => Drained(w) /\ NoCredits(w)
        /\ pktSent[w] > 0 /\ inState[w] = IDLE_ => HeadOnWire(w)
    BY <1>1 DEF BoundInv
  <2>2. AllBelow(linkBuffer', w, pktSent[w]) /\ (v = w => f.id < pktSent[w] /\ ~f.tail)
    BY <1>5, <2>1
  <2>3. CASE w # v
    BY <1>10, <1>11, <1>16, <1>17, <2>1, <2>2, <2>3
  <2>4. CASE w = v
    <3>1. AllBelow(inBuffer'[w], w, pktSent[w])
      <4>1. inBuffer'[w] = Append(inBuffer[w], f) /\ inBuffer[w] \in Seq(Flit)
        BY <1>9, <2>4
      <4>2. AllBelow(inBuffer[w], w, pktSent[w]) /\ f.id < pktSent[w] /\ ~f.tail
        BY <2>1, <2>2, <2>4
      <4> QED
        BY <1>4, <4>1, <4>2, AppendFlit
    <3>2. inState'[w] # IDLE_ /\ pktSent[w] # 0
      BY <1>11, <1>15, <2>4 DEF IDLE_, ACTIVE_
    <3> QED
      BY <2>1, <2>2, <3>1, <3>2
  <2> QED
    BY <2>3, <2>4
<1>23. HeadInv'
  <2> SUFFICES ASSUME NEW w \in VCs
               PROVE  /\ HeadOnWire(w)' => inState'[w] = IDLE_
                      /\ inState'[w] = IDLE_ => inBuffer'[w] = << >>
                      /\ inState'[w] = IDLE_ /\ ~HeadOnWire(w)' =>
                           NoneOf(outBuffer, w) /\ NoneOf(linkBuffer', w)
    BY <1>2 DEF HeadInv
  <2>1. CASE w # v
    BY <1>1, <1>4, <1>10, <1>11, <1>16, <2>1 DEF HeadInv
  <2>2. CASE w = v
    <3>1. inState'[w] # IDLE_ /\ ~HeadOnWire(w)'
      BY <1>11, <1>13, <2>2 DEF IDLE_, ACTIVE_
    <3> QED
      BY <3>1
  <2> QED
    BY <2>1, <2>2
<1>24. FreeInv'
  BY <1>1, <1>2, <1>15, <1>16 DEF FreeInv
<1> QED
  BY <1>18, <1>19, <1>20, <1>21, <1>22, <1>23, <1>24 DEF IInv

(* A granted flit: what is known of the packet it belongs to.              *)
LEMMA Granted ==
    ASSUME IInv, NEW v \in VCs, inBuffer[v] # << >>
    PROVE  LET f == Head(inBuffer[v])
           IN  /\ f \in Flit /\ f.vc = v
               /\ inState[v] = ACTIVE_ /\ vcState[v] # IDLE_
               /\ ~HeadOnWire(v)
               /\ NoFree(creditQueue, v) /\ NoFree(creditLink, v)
               /\ f.tail => /\ NoneOf(outBuffer, v) /\ NoneOf(linkBuffer, v)
                            /\ Tail(inBuffer[v]) = << >> /\ pktSize[v] = 0
<1>1. TypeOK /\ InOrder /\ IdleInv /\ BoundInv /\ HeadInv /\ FreeInv
  BY DEF IInv
<1>2. inBuffer[v] \in Seq(Flit) /\ linkBuffer \in Seq(Flit) /\ outBuffer \in Seq(Flit)
  BY <1>1 DEF TypeOK
<1> DEFINE q == inBuffer[v]
           f == Head(inBuffer[v])
<1>3. /\ f \in Flit /\ Tail(q) \in Seq(Flit)
      /\ Increasing(q) <=> Increasing(Tail(q)) /\ Follow(Tail(q), f)
      /\ \A k : AllBelow(q, v, k) =>  (f.vc = v => ~f.tail)
  BY <1>2, TakeFlit
<1>4. \A p \in Seq(Flit) : AllBefore(q, p) <=> AllBefore(Tail(q), p) /\ Follow(p, f)
  BY <1>2, TailBefore
<1>5. Len(q) \in Nat \ {0} /\ f = q[1] /\ Len(Tail(q)) = Len(q) - 1
      /\ \A i \in 1 .. Len(q) - 1 : Tail(q)[i] = q[i + 1]
  BY <1>2, TailEntries, HeadTailProperties
<1>6. \A i \in 1 .. Len(q) : q[i].vc = v
  BY <1>1 DEF InOrder
<1>7. f.vc = v
  BY <1>5, <1>6
<1>8. Follow(Tail(q), f) /\ Follow(linkBuffer, f) /\ Follow(outBuffer, f)
  BY <1>1, <1>2, <1>3, <1>4 DEF InOrder
<1>9. inState[v] = ACTIVE_ /\ ~HeadOnWire(v)
  BY <1>1 DEF HeadInv, TypeOK, IDLE_, ACTIVE_
<1>10. /\ vcState[v] # IDLE_
       /\ NoFree(creditQueue, v) /\ NoFree(creditLink, v)
  BY <1>1 DEF IdleInv, FreeInv, Drained
<1>11. ASSUME f.tail
       PROVE  /\ NoneOf(outBuffer, v) /\ NoneOf(linkBuffer, v)
              /\ Tail(q) = << >> /\ pktSize[v] = 0
  <2>1. NoneOf(outBuffer, v) /\ NoneOf(linkBuffer, v)
    BY <1>7, <1>8, <1>11 DEF Follow, NoneOf
  <2>2. \A i \in 1 .. Len(Tail(q)) : Tail(q)[i].vc = v
    BY <1>5, <1>6
  <2>3. \A i \in 1 .. Len(Tail(q)) : Tail(q)[i].vc # v
    BY <1>7, <1>8, <1>11 DEF Follow
  <2>4. Len(Tail(q)) \in Nat
    BY <1>5
  <2>5. Len(Tail(q)) = 0
    <3>1. ~(1 \in 1 .. Len(Tail(q)))
      BY <2>2, <2>3
    <3> DEFINE m == Len(Tail(q))
    <3>2. m \in Nat /\ ~(1 \in 1 .. m)
      BY <2>4, <3>1
    <3> HIDE DEF m
    <3>3. m = 0
      BY <3>2
    <3> QED
      BY <3>3 DEF m
  <2>6. Tail(q) = << >>
    BY <1>3, <2>5, EmptySeq
  <2>7. ~(pktSize[v] > 0)
    BY <1>1, <1>3, <1>7, <1>11 DEF BoundInv
  <2>8. pktSize[v] = 0
    BY <1>1, <2>7 DEF TypeOK
  <2> QED
    BY <2>1, <2>6, <2>8
<1> QED
  BY <1>3, <1>7, <1>9, <1>10, <1>11

(* SwitchAllocator: a granted flit frees its slot and returns one credit,  *)
(* and the tail leaves nothing of its packet behind.                       *)
LEMMA SwitchGrantInv ==
    ASSUME IInv, NEW v \in VCs, SwitchGrant(v)
    PROVE  IInv'
<1>1. TypeOK /\ CreditConservation /\ InOrder /\ IdleInv /\ BoundInv /\ HeadInv /\ FreeInv
  BY DEF IInv
<1>0. inBuffer[v] # << >> /\ Head(inBuffer[v]) \in Flit
  BY Granted DEF SwitchGrant
<1> PICK f \in Flit : f = Head(inBuffer[v])
  BY <1>0
<1> PICK c \in Credit : c = [vc |-> v, free |-> f.tail]
  BY DEF Credit, Flit
<1>2. /\ inState' = IF f.tail THEN [inState EXCEPT ![v] = IDLE_] ELSE inState
      /\ creditQueue' = Append(creditQueue, c)
      /\ inBuffer' = [inBuffer EXCEPT ![v] = Tail(inBuffer[v])]
      /\ UNCHANGED <<upstream, vcState, credits, pktSize, pktSent, outBuffer, linkBuffer,
                     creditLink>>
  BY DEF SwitchGrant, upVars, wires
<1>3. c.vc = v /\ (c.free <=> f.tail)
  OBVIOUS
<1>4. /\ f.vc = v
      /\ inState[v] = ACTIVE_ /\ vcState[v] # IDLE_
      /\ ~HeadOnWire(v)
      /\ NoFree(creditQueue, v) /\ NoFree(creditLink, v)
  BY <1>0, Granted
<1>5. f.tail => /\ NoneOf(outBuffer, v) /\ NoneOf(linkBuffer, v)
                /\ Tail(inBuffer[v]) = << >> /\ pktSize[v] = 0
  BY <1>0, Granted
<1>6. /\ linkBuffer \in Seq(Flit) /\ outBuffer \in Seq(Flit)
      /\ inBuffer \in [VCs -> Seq(Flit)] /\ inBuffer[v] \in Seq(Flit)
      /\ inState \in [VCs -> {IDLE_, ACTIVE_}] /\ creditQueue \in Seq(Credit)
  BY <1>1 DEF TypeOK
<1>7. /\ creditQueue' \in Seq(Credit)
      /\ FreeLast(creditQueue') <=> FreeLast(creditQueue) /\ NoFree(creditQueue, v)
      /\ \A w : CountOf(creditQueue', w) = CountOf(creditQueue, w) + (IF v = w THEN 1 ELSE 0)
      /\ \A w : NoneOf(creditQueue', w) <=> NoneOf(creditQueue, w) /\ v # w
      /\ \A w : NoFree(creditQueue', w) <=> NoFree(creditQueue, w) /\ (v = w => ~f.tail)
  BY <1>2, <1>3, <1>6, AppendCredit
<1>8. /\ inBuffer' \in [VCs -> Seq(Flit)] /\ inBuffer'[v] = Tail(inBuffer[v])
      /\ \A w \in VCs \ {v} : inBuffer'[w] = inBuffer[w]
  <2>1. Tail(inBuffer[v]) \in Seq(Flit)
    BY <1>0, <1>6, TailEntries
  <2> QED
    BY <1>2, <1>6, <2>1
<1>9. /\ inState' \in [VCs -> {IDLE_, ACTIVE_}]
      /\ inState'[v] = (IF f.tail THEN IDLE_ ELSE ACTIVE_)
      /\ \A w \in VCs \ {v} : inState'[w] = inState[w]
  BY <1>2, <1>4, <1>6
<1>10. \A w \in VCs : HeadOnWire(w)' <=> HeadOnWire(w)
  BY <1>2 DEF HeadOnWire
<1>11. \A w \in VCs \ {v} : /\ Drained(w)' <=> Drained(w)
                            /\ NoCredits(w)' <=> NoCredits(w)
  BY <1>2, <1>7, <1>8, <1>9 DEF Drained, NoCredits
<1>12. f.tail => Drained(v)'
  BY <1>2, <1>5, <1>8, <1>9 DEF Drained
<1>13. TypeOK'
  BY <1>1, <1>2, <1>7, <1>8, <1>9 DEF TypeOK
<1>14. CreditConservation'
  <2> SUFFICES ASSUME NEW w \in VCs
               PROVE  Occupied(w)' + CreditsInFlight(w)' = Occupied(w) + CreditsInFlight(w)
    <3>1. \A x \in VCs : Occupied(x) \in Nat /\ CreditsInFlight(x) \in Nat
      <4> TAKE x \in VCs
      <4>1. /\ CountOf(outBuffer, x) \in Nat /\ CountOf(linkBuffer, x) \in Nat
            /\ CountOf(creditQueue, x) \in Nat /\ CountOf(creditLink, x) \in Nat
            /\ Len(inBuffer[x]) \in Nat
        BY <1>1, Counts
      <4>2. Occupied(x) \in Nat
        BY <4>1 DEF Occupied
      <4>3. CreditsInFlight(x) \in Nat
        BY <4>1 DEF CreditsInFlight
      <4> QED
        BY <4>2, <4>3
    <3>2. \A x \in VCs : Occupied(x)' \in Nat /\ CreditsInFlight(x)' \in Nat
      <4> TAKE x \in VCs
      <4>1. /\ CountOf(outBuffer', x) \in Nat /\ CountOf(linkBuffer', x) \in Nat
            /\ CountOf(creditQueue', x) \in Nat /\ CountOf(creditLink', x) \in Nat
        BY <1>1, <1>2, <1>7, Counts, IndicesFinite
      <4>2. Len(inBuffer'[x]) \in Nat
        BY <1>8, LenProperties
      <4>3. Occupied(x)' \in Nat
        BY <4>1, <4>2 DEF Occupied
      <4>4. CreditsInFlight(x)' \in Nat
        BY <4>1 DEF CreditsInFlight
      <4> QED
        BY <4>3, <4>4
    <3>3. credits' = credits /\ credits \in [VCs -> Int]
      BY <1>1, <1>2 DEF TypeOK
    <3>4. ASSUME NEW x \in VCs,
                 Occupied(x)' + CreditsInFlight(x)' = Occupied(x) + CreditsInFlight(x)
          PROVE  credits'[x] \in 0 .. Depth[x]
                 /\ credits'[x] + Occupied(x)' + CreditsInFlight(x)' = Depth[x]
      BY <1>1, <3>1, <3>2, <3>3, <3>4 DEF CreditConservation
    <3> QED
      BY <3>4 DEF CreditConservation
  <2> DEFINE a == Len(inBuffer[w])
             b == Len(inBuffer'[w])
             x == CountOf(creditQueue, w)
             y == CountOf(creditQueue', w)
             i == IF v = w THEN 1 ELSE 0
  <2>1. a \in Nat /\ b \in Nat /\ x \in Nat /\ y \in Nat
        /\ CountOf(outBuffer, w) \in Nat /\ CountOf(linkBuffer, w) \in Nat
        /\ CountOf(creditLink, w) \in Nat
    BY <1>1, <1>7, <1>8, Counts, IndicesFinite, LenProperties
  <2>2. a = b + i
    <3>1. CASE v = w
      <4>1. Len(Tail(inBuffer[v])) = Len(inBuffer[v]) - 1
        BY <1>0, <1>6, TailEntries
      <4> QED
        BY <1>8, <2>1, <3>1, <4>1
    <3>2. CASE v # w
      <4>1. inBuffer'[w] = inBuffer[w]
        BY <1>8, <3>2
      <4> QED
        BY <2>1, <3>2, <4>1
    <3> QED
      BY <3>1, <3>2
  <2>3. y = x + i
    BY <1>7
  <2>4. /\ Occupied(w) = CountOf(outBuffer, w) + CountOf(linkBuffer, w) + a
        /\ Occupied(w)' = CountOf(outBuffer, w) + CountOf(linkBuffer, w) + b
        /\ CreditsInFlight(w) = x + CountOf(creditLink, w)
        /\ CreditsInFlight(w)' = y + CountOf(creditLink, w)
    BY <1>2 DEF Occupied, CreditsInFlight
  <2>5. i \in {0, 1}
    OBVIOUS
  <2> HIDE DEF a, b, x, y, i
  <2> QED
    BY <2>1, <2>2, <2>3, <2>4, <2>5
<1>15. InOrder'
  <2>1. Increasing(outBuffer) /\ Increasing(linkBuffer) /\ AllBefore(linkBuffer, outBuffer)
    BY <1>1 DEF InOrder
  <2>2. ASSUME NEW w \in VCs
        PROVE  /\ \A i \in 1 .. Len(inBuffer'[w]) : inBuffer'[w][i].vc = w
               /\ Increasing(inBuffer'[w])
               /\ AllBefore(inBuffer'[w], linkBuffer) /\ AllBefore(inBuffer'[w], outBuffer)
    <3>1. /\ inBuffer[w] \in Seq(Flit) /\ Increasing(inBuffer[w])
          /\ \A i \in 1 .. Len(inBuffer[w]) : inBuffer[w][i].vc = w
          /\ AllBefore(inBuffer[w], linkBuffer) /\ AllBefore(inBuffer[w], outBuffer)
      BY <1>1, <1>6 DEF InOrder
    <3>2. CASE w # v
      BY <1>8, <3>1, <3>2
    <3>3. CASE w = v
      <4>1. inBuffer'[w] = Tail(inBuffer[w]) /\ inBuffer[w] # << >>
        BY <1>0, <1>8, <3>3
      <4>2. \A i \in 1 .. Len(inBuffer'[w]) : inBuffer'[w][i].vc = w
        <5>1. Len(inBuffer[w]) \in Nat
          BY <3>1, LenProperties
        <5>2. /\ Len(inBuffer'[w]) = Len(inBuffer[w]) - 1
              /\ \A i \in 1 .. Len(inBuffer[w]) - 1 : inBuffer'[w][i] = inBuffer[w][i + 1]
          BY <3>1, <4>1, TailEntries
        <5>3. ASSUME NEW i \in 1 .. Len(inBuffer'[w])
              PROVE  inBuffer'[w][i].vc = w
          <6>1. i \in 1 .. Len(inBuffer[w]) - 1 /\ i + 1 \in 1 .. Len(inBuffer[w])
            BY <5>1, <5>2
          <6>2. inBuffer[w][i + 1].vc = w
            BY <3>1, <6>1
          <6> QED
            BY <5>2, <6>1, <6>2
        <5> QED
          BY <5>3
      <4>3. Increasing(inBuffer'[w])
        BY <3>1, <4>1, TailIncreasing
      <4>4. AllBefore(inBuffer'[w], linkBuffer) /\ AllBefore(inBuffer'[w], outBuffer)
        BY <1>6, <3>1, <4>1, TailBefore
      <4> QED
        BY <4>2, <4>3, <4>4
    <3> QED
      BY <3>2, <3>3
  <2> QED
    BY <1>2, <2>1, <2>2 DEF InOrder
<1>16. IdleInv'
  BY <1>1, <1>2, <1>4, <1>11 DEF IdleInv
<1>17. BoundInv'
  <2> SUFFICES ASSUME NEW w \in VCs, pktSize[w] > 0
               PROVE  /\ vcState[w] = ACTIVE_
                      /\ pktSent[w] < pktSize[w]
                      /\ AllBelow(outBuffer, w, pktSent[w])
                      /\ AllBelow(linkBuffer, w, pktSent[w])
                      /\ AllBelow(inBuffer'[w], w, pktSent[w])
                      /\ NoFree(creditQueue', w) /\ NoFree(creditLink, w)
                      /\ pktSent[w] = 0 => Drained(w)' /\ NoCredits(w)'
                      /\ pktSent[w] > 0 /\ inState'[w] = IDLE_ => HeadOnWire(w)'
    BY <1>2 DEF BoundInv
  <2>1. /\ vcState[w] = ACTIVE_
        /\ pktSent[w] < pktSize[w]
        /\ AllBelow(outBuffer, w, pktSent[w])
        /\ AllBelow(linkBuffer, w, pktSent[w])
        /\ AllBelow(inBuffer[w], w, pktSent[w])
        /\ NoFree(creditQueue, w) /\ NoFree(creditLink, w)
        /\ pktSent[w] = 0 => Drained(w) /\ NoCredits(w)
        /\ pktSent[w] > 0 /\ inState[w] = IDLE_ => HeadOnWire(w)
    BY <1>1 DEF BoundInv
  <2>2. CASE w # v
    BY <1>7, <1>8, <1>9, <1>10, <1>11, <2>1, <2>2
  <2>3. CASE w = v
    <3>1. ~f.tail
      BY <1>5, <2>3
    <3>2. inState'[w] # IDLE_
      BY <1>9, <2>3, <3>1 DEF IDLE_, ACTIVE_
    <3>3. ~Drained(w)
      BY <1>0, <2>3 DEF Drained
    <3>4. AllBelow(Tail(inBuffer[w]), w, pktSent[w])
      BY <1>0, <1>6, <2>1, <2>3, TakeFlit
    <3>5. NoFree(creditQueue', w) /\ inBuffer'[w] = Tail(inBuffer[w])
      BY <1>7, <1>8, <2>1, <2>3, <3>1
    <3> QED
      BY <2>1, <3>2, <3>3, <3>4, <3>5
  <2> QED
    BY <2>2, <2>3
<1>18. HeadInv'
  <2> SUFFICES ASSUME NEW w \in VCs
               PROVE  /\ HeadOnWire(w)' => inState'[w] = IDLE_
                      /\ inState'[w] = IDLE_ => inBuffer'[w] = << >>
                      /\ inState'[w] = IDLE_ /\ ~HeadOnWire(w)' =>
                           NoneOf(outBuffer, w) /\ NoneOf(linkBuffer, w)
    BY <1>2 DEF HeadInv
  <2>1. CASE w # v
    BY <1>1, <1>8, <1>9, <1>10, <2>1 DEF HeadInv
  <2>2. CASE w = v
    <3>1. ~HeadOnWire(w)'
      BY <1>4, <1>10, <2>2
    <3>2. inState'[w] = IDLE_ => f.tail
      BY <1>9, <2>2 DEF IDLE_, ACTIVE_
    <3> QED
      BY <1>5, <1>8, <2>2, <3>1, <3>2
  <2> QED
    BY <2>1, <2>2
<1>19. FreeInv'
  <2>1. FreeLast(creditQueue') /\ FreeLast(creditLink')
    BY <1>1, <1>2, <1>4, <1>7 DEF FreeInv
  <2>2. ASSUME NEW w \in VCs
        PROVE  /\ ~NoFree(creditLink, w) => NoneOf(creditQueue', w)
               /\ ~NoFree(creditQueue', w) \/ ~NoFree(creditLink, w) =>
                    Drained(w)' /\ pktSize[w] = 0
    <3>1. CASE w # v
      BY <1>1, <1>7, <1>11, <3>1 DEF FreeInv
    <3>2. CASE w = v
      <4>1. NoFree(creditLink, w) /\ (~NoFree(creditQueue', w) => f.tail)
        BY <1>4, <1>7, <3>2
      <4> QED
        BY <1>5, <1>12, <3>2, <4>1
    <3> QED
      BY <3>1, <3>2
  <2> QED
    BY <1>2, <2>1, <2>2 DEF FreeInv
<1> QED
  BY <1>13, <1>14, <1>15, <1>16, <1>17, <1>18, <1>19 DEF IInv

(* A step that changes nothing of the hop keeps the invariant.             *)
LEMMA StutterInv ==
    ASSUME IInv, UNCHANGED vars
    PROVE  IInv'
BY DEF vars, IInv, TypeOK, CreditConservation, Occupied, CreditsInFlight, InOrder, IdleInv,
       BoundInv, HeadInv, FreeInv, Drained, NoCredits, HeadOnWire

(* Every step keeps the invariant.                                         *)
THEOREM StepInv == IInv /\ [Next]_vars => IInv'
<1> SUFFICES ASSUME IInv, [Next]_vars PROVE IInv'
  OBVIOUS
<1>1. CASE UNCHANGED vars
  BY <1>1, StutterInv
<1>2. ASSUME NEW v \in VCs, NEW n \in 1 .. MaxFlits, SendHead(v, n)
      PROVE  IInv'
  BY <1>2, SendHeadInv
<1>3. ASSUME NEW v \in VCs, NEW n \in 1 .. MaxFlits, NIAllocate(v, n)
      PROVE  IInv'
  BY <1>3, NIAllocateInv
<1>4. ASSUME NEW v \in VCs, SendFlit(v)
      PROVE  IInv'
  BY <1>4, SendFlitInv
<1>5. CASE OutputUnitWakeup
  BY <1>5, OutputUnitInv
<1>6. CASE DataLinkWakeup
  BY <1>6, DataLinkInv
<1>7. CASE CreditLinkWakeup
  BY <1>7, CreditLinkInv
<1>8. CASE InputUnitWakeup
  BY <1>8, InputUnitInv
<1>9. ASSUME NEW v \in VCs, SwitchGrant(v)
      PROVE  IInv'
  BY <1>9, SwitchGrantInv
<1> QED
  BY <1>1, <1>2, <1>3, <1>4, <1>5, <1>6, <1>7, <1>8, <1>9 DEF Next

(* The invariant holds in every reachable state of a hop of any size.      *)
THEOREM Invariance == Spec => []IInv
BY InitInv, StepInv, PTL DEF Spec

(* Nothing of VC v occupies the hop when its wires and its buffer are      *)
(* empty, and no credit of it is on the way back.                          *)
LEMMA DrainedCounts ==
    ASSUME TypeOK, NEW v \in VCs
    PROVE  /\ Drained(v) => Occupied(v) = 0
           /\ NoCredits(v) => CreditsInFlight(v) = 0
<1>1. /\ outBuffer \in Seq(Flit) /\ linkBuffer \in Seq(Flit)
      /\ creditQueue \in Seq(Credit) /\ creditLink \in Seq(Credit)
  BY DEF TypeOK
<1>2. ASSUME Drained(v) PROVE Occupied(v) = 0
  <2>1. CountOf(outBuffer, v) = 0 /\ CountOf(linkBuffer, v) = 0
    BY <1>1, <1>2, CountZero DEF Drained
  <2>2. Len(inBuffer[v]) = 0
    BY <1>2, EmptySeq DEF Drained
  <2> QED
    BY <2>1, <2>2 DEF Occupied
<1>3. ASSUME NoCredits(v) PROVE CreditsInFlight(v) = 0
  <2>1. CountOf(creditQueue, v) = 0 /\ CountOf(creditLink, v) = 0
    BY <1>1, <1>3, CountZero DEF NoCredits
  <2> QED
    BY <2>1 DEF CreditsInFlight
<1> QED
  BY <1>2, <1>3

(* The numbers of the conservation law.                                    *)
LEMMA LawNumbers ==
    ASSUME TypeOK, CreditConservation, NEW v \in VCs
    PROVE  /\ Occupied(v) \in Nat /\ CreditsInFlight(v) \in Nat
           /\ credits[v] \in Nat /\ Depth[v] \in Nat \ {0}
           /\ credits[v] + Occupied(v) + CreditsInFlight(v) = Depth[v]
<1>1. /\ CountOf(outBuffer, v) \in Nat /\ CountOf(linkBuffer, v) \in Nat
      /\ CountOf(creditQueue, v) \in Nat /\ CountOf(creditLink, v) \in Nat
      /\ Len(inBuffer[v]) \in Nat
  BY Counts
<1>2. Occupied(v) \in Nat /\ CreditsInFlight(v) \in Nat
  BY <1>1 DEF Occupied, CreditsInFlight
<1>3. Depth[v] \in Nat \ {0}
  BY DepthAssumption
<1> QED
  BY <1>2, <1>3 DEF CreditConservation

(* The invariant gives the properties the runs check.                      *)
LEMMA IdleMeansDrainedHolds ==
    ASSUME IInv
    PROVE  IdleMeansDrained
<1> SUFFICES ASSUME NEW v \in VCs, vcState[v] = IDLE_
             PROVE  credits[v] = Depth[v] /\ Drained(v) /\ NoCredits(v)
  BY DEF IdleMeansDrained, Drained, NoCredits
<1>1. Drained(v) /\ NoCredits(v)
  BY DEF IInv, IdleInv
<1>2. Occupied(v) = 0 /\ CreditsInFlight(v) = 0
  BY <1>1, DrainedCounts DEF IInv
<1>3. credits[v] = Depth[v]
  BY <1>2, LawNumbers DEF IInv
<1> QED
  BY <1>1, <1>3

(* The assertions of InputUnit, OutVcState and the links never fail.       *)
LEMMA AssertsHoldHolds ==
    ASSUME IInv
    PROVE  AssertsHold
<1>1. TypeOK /\ CreditConservation /\ BoundInv
  BY DEF IInv
<1>2. ASSUME linkBuffer # << >>
      PROVE  LET f == Head(linkBuffer)
             IN  inState[f.vc] = IF IsHead(f) THEN IDLE_ ELSE ACTIVE_
  BY <1>2, FirstOnWire DEF IsHead
<1>3. ASSUME creditLink # << >>
      PROVE  credits[Head(creditLink).vc] < Depth[Head(creditLink).vc]
  <2> DEFINE v == Head(creditLink).vc
  <2>1. creditLink \in Seq(Credit)
    BY <1>1 DEF TypeOK
  <2>2. v \in VCs
    BY <1>3, <2>1, TakeCredit DEF Credit
  <2>3. /\ Tail(creditLink) \in Seq(Credit)
        /\ CountOf(creditLink, v) = CountOf(Tail(creditLink), v) + 1
    BY <1>3, <2>1, TakeCredit
  <2>4. CountOf(Tail(creditLink), v) \in Nat /\ CountOf(creditQueue, v) \in Nat
    BY <1>1, <2>3, Counts, IndicesFinite
  <2> HIDE DEF v
  <2>5. CreditsInFlight(v) >= 1
    BY <2>3, <2>4 DEF CreditsInFlight
  <2>6. credits[v] < Depth[v]
    BY <1>1, <2>2, <2>5, LawNumbers
  <2> QED
    BY <2>6 DEF v
<1>4. ASSUME NEW v \in VCs
      PROVE  /\ inBuffer[v] # << >> =>
                  /\ inState[v] = ACTIVE_
                  /\ Head(inBuffer[v]).tail => Len(inBuffer[v]) = 1
             /\ pktSize[v] > 0 => vcState[v] = ACTIVE_
  <2>1. pktSize[v] > 0 => vcState[v] = ACTIVE_
    BY <1>1 DEF BoundInv
  <2>2. ASSUME inBuffer[v] # << >>
        PROVE  /\ inState[v] = ACTIVE_
               /\ Head(inBuffer[v]).tail => Len(inBuffer[v]) = 1
    <3>1. inState[v] = ACTIVE_ /\ (Head(inBuffer[v]).tail => Tail(inBuffer[v]) = << >>)
      BY <2>2, Granted
    <3>2. inBuffer[v] \in Seq(Flit)
      BY <1>1 DEF TypeOK
    <3>3. Len(inBuffer[v]) \in Nat \ {0} /\ Len(Tail(inBuffer[v])) = Len(inBuffer[v]) - 1
      BY <2>2, <3>2, TailEntries
    <3>4. ASSUME Head(inBuffer[v]).tail PROVE Len(inBuffer[v]) = 1
      <4>1. Len(Tail(inBuffer[v])) = 0
        BY <3>1, <3>4, EmptySeq
      <4> QED
        BY <3>3, <4>1
    <3> QED
      BY <3>1, <3>4
  <2> QED
    BY <2>1, <2>2
<1> QED
  BY <1>2, <1>3, <1>4 DEF AssertsHold

(* Every field keeps its type in every reachable state.                    *)
THEOREM TypeCorrect == Spec => []TypeOK
<1>1. IInv => TypeOK
  BY DEF IInv
<1> QED
  BY <1>1, Invariance, PTL

(* No handler loses or makes a credit, for every depth of the buffers and  *)
(* every length of the packets.                                            *)
THEOREM CreditsConserved == Spec => []CreditConservation
<1>1. IInv => CreditConservation
  BY DEF IInv
<1> QED
  BY <1>1, Invariance, PTL

(* Whenever the allocator finds a VC IDLE_ the hop holds nothing of it.    *)
THEOREM IdleIsDrained == Spec => []IdleMeansDrained
<1>1. IInv => IdleMeansDrained
  BY IdleMeansDrainedHolds
<1> QED
  BY <1>1, Invariance, PTL

(* No assertion of the handlers of the hop can fail.                       *)
THEOREM AssertionsHold == Spec => []AssertsHold
<1>1. IInv => AssertsHold
  BY AssertsHoldHolds
<1> QED
  BY <1>1, Invariance, PTL

(* The flits of a VC stay in the order of one packet.                      *)
THEOREM FlitsInOrder == Spec => []InOrder
<1>1. IInv => InOrder
  BY DEF IInv
<1> QED
  BY <1>1, Invariance, PTL

-----------------------------------------------------------------------------
(* The hop implements the lease of VcLease: each handler is one step of    *)
(* the lease or none.                                                      *)

(* The VCs other than v keep their phase and their slots.                  *)
OthersKept(v) ==
    \A w \in VCs \ {v} : PhaseOf(w)' = PhaseOf(w) /\ Occupied(w)' = Occupied(w)

(* What a handler must show of VC v to be a given step of the lease.       *)
LEMMA IsOpen ==
    ASSUME NEW v \in VCs, OthersKept(v),
           PhaseOf(v) = "free", Occupied(v) = 0,
           PhaseOf(v)' = "open", Occupied(v)' = Occupied(v)
    PROVE  Lease!Next
<1>1. \A w \in VCs : Occupied(w)' = Occupied(w)
  BY DEF OthersKept
<1>2. Lease!Open(v)
  BY <1>1 DEF Lease!Open, OthersKept
<1> QED
  BY <1>2 DEF Lease!Next

(* A step that adds a flit to an open lease is a Fill of the abstract one. *)
LEMMA IsFill ==
    ASSUME NEW v \in VCs, OthersKept(v), NEW last \in BOOLEAN,
           PhaseOf(v) = "open" \/ (PhaseOf(v) = "free" /\ Occupied(v) = 0),
           Occupied(v) < Depth[v],
           PhaseOf(v)' = (IF last THEN "closed" ELSE "open"),
           Occupied(v)' = Occupied(v) + 1
    PROVE  Lease!Next
<1>1. Lease!Fill(v, last)
  BY DEF Lease!Fill, OthersKept
<1> QED
  BY <1>1 DEF Lease!Next

(* A step in which the far side takes a flit is a Drain.                   *)
LEMMA IsDrain ==
    ASSUME NEW v \in VCs, OthersKept(v),
           PhaseOf(v) # "free", Occupied(v) > 0,
           PhaseOf(v)' = PhaseOf(v), Occupied(v)' = Occupied(v) - 1
    PROVE  Lease!Next
<1>1. \A w \in VCs : PhaseOf(w)' = PhaseOf(w)
  BY DEF OthersKept
<1>2. Lease!Drain(v)
  BY <1>1 DEF Lease!Drain, OthersKept
<1> QED
  BY <1>2 DEF Lease!Next

(* A step in which the free signal is heard is a Release.                  *)
LEMMA IsRelease ==
    ASSUME NEW v \in VCs, OthersKept(v),
           PhaseOf(v) = "closed", Occupied(v) = 0,
           PhaseOf(v)' = "free", Occupied(v)' = Occupied(v)
    PROVE  Lease!Next
<1>1. \A w \in VCs : Occupied(w)' = Occupied(w)
  BY DEF OthersKept
<1>2. Lease!Release(v)
  BY <1>1 DEF Lease!Release, OthersKept
<1> QED
  BY <1>2 DEF Lease!Next

(* A handler that changes no phase and no slot is no step of the lease.    *)
LEMMA IsStutter ==
    ASSUME \A w \in VCs : PhaseOf(w)' = PhaseOf(w) /\ Occupied(w)' = Occupied(w)
    PROVE  UNCHANGED Lease!leaseVars
BY DEF Lease!leaseVars

(* The phase of a VC as the sender's bookkeeping has it.                   *)
LEMMA PhaseCases ==
    ASSUME TypeOK, NEW v \in VCs
    PROVE  /\ PhaseOf(v) = "free" <=> vcState[v] = IDLE_
           /\ PhaseOf(v) = "open" <=> vcState[v] = ACTIVE_ /\ pktSize[v] > 0
           /\ PhaseOf(v) = "closed" <=> vcState[v] = ACTIVE_ /\ pktSize[v] = 0
BY DEF TypeOK, PhaseOf, IDLE_, ACTIVE_

(* The phase depends on the state of the VC and on the packet bound to it. *)
LEMMA PhaseKept ==
    ASSUME NEW w, vcState'[w] = vcState[w], pktSize'[w] = pktSize[w]
    PROVE  PhaseOf(w)' = PhaseOf(w)
BY DEF PhaseOf

(* A send fills one slot of its VC.                                        *)
LEMMA SendFills ==
    ASSUME IInv, NEW v \in VCs, NEW n \in 1 .. MaxFlits, NEW k \in 0 .. n - 1,
           Send(v, k, n), vcState'[v] = ACTIVE_, UNCHANGED <<linkBuffer, inBuffer>>,
           \A w \in VCs \ {v} : vcState'[w] = vcState[w],
           PhaseOf(v) = "open" \/ (PhaseOf(v) = "free" /\ Occupied(v) = 0),
           Occupied(v) < Depth[v]
    PROVE  Lease!Next
<1>1. /\ TypeOK
      /\ pktSize'[v] = (IF k = n - 1 THEN 0 ELSE n)
      /\ \A w \in VCs \ {v} : pktSize'[w] = pktSize[w]
      /\ \A w : CountOf(outBuffer', w) = CountOf(outBuffer, w) + (IF v = w THEN 1 ELSE 0)
  BY SendFacts DEF IInv
<1>2. \A w \in VCs : Occupied(w)' = Occupied(w) + (IF v = w THEN 1 ELSE 0)
  <2> TAKE w \in VCs
  <2>1. /\ CountOf(outBuffer, w) \in Nat /\ CountOf(linkBuffer, w) \in Nat
        /\ Len(inBuffer[w]) \in Nat
    BY <1>1, Counts
  <2> QED
    BY <1>1, <2>1 DEF Occupied
<1>3. \A w \in VCs : Occupied(w) \in Nat
  BY LawNumbers DEF IInv
<1>4. OthersKept(v)
  BY <1>1, <1>2, <1>3, PhaseKept DEF OthersKept
<1>5. PhaseOf(v)' = (IF k = n - 1 THEN "closed" ELSE "open")
  BY <1>1 DEF PhaseOf, IDLE_, ACTIVE_
<1>6. (k = n - 1) \in BOOLEAN /\ Occupied(v)' = Occupied(v) + 1
  BY <1>2
<1> QED
  BY <1>4, <1>5, <1>6, IsFill

(* The initial states of the hop are initial states of the lease.          *)
LEMMA LeaseInit ==
    ASSUME Init
    PROVE  Lease!Init
<1>1. TypeOK /\ IdleInv
  BY InitInv DEF IInv
<1>2. \A v \in VCs : PhaseOf(v) = "free" /\ Occupied(v) = 0
  BY <1>1, DrainedCounts, PhaseCases DEF Init, IdleInv
<1> QED
  BY <1>2 DEF Lease!Init

(* The router's head flit opens the lease and enters in one step.          *)
LEMMA SendHeadLease ==
    ASSUME IInv, NEW v \in VCs, NEW n \in 1 .. MaxFlits, SendHead(v, n)
    PROVE  Lease!Next
<1>1. /\ vcState[v] = IDLE_ /\ Send(v, 0, n) /\ UNCHANGED <<linkBuffer, inBuffer>>
      /\ vcState' = [vcState EXCEPT ![v] = ACTIVE_]
  BY DEF SendHead, IsFirstFree, downVars
<1>2. TypeOK /\ IdleInv /\ CreditConservation /\ vcState \in [VCs -> {IDLE_, ACTIVE_}]
  BY DEF IInv, TypeOK
<1>3. vcState'[v] = ACTIVE_ /\ \A w \in VCs \ {v} : vcState'[w] = vcState[w]
  BY <1>1, <1>2
<1>4. PhaseOf(v) = "free" /\ Occupied(v) = 0
  BY <1>1, <1>2, PhaseCases, DrainedCounts DEF IdleInv
<1>5. Occupied(v) < Depth[v] /\ 0 \in 0 .. n - 1
  BY <1>2, <1>4, LawNumbers
<1> QED
  BY <1>1, <1>3, <1>4, <1>5, SendFills

(* flitisizeMessage opens a lease before the first flit is sent.           *)
LEMMA NIAllocateLease ==
    ASSUME IInv, NEW v \in VCs, NEW n \in 1 .. MaxFlits, NIAllocate(v, n)
    PROVE  Lease!Next
<1>1. /\ vcState[v] = IDLE_ /\ vcState' = [vcState EXCEPT ![v] = ACTIVE_]
      /\ pktSize' = [pktSize EXCEPT ![v] = n]
      /\ UNCHANGED <<outBuffer, linkBuffer, inBuffer>>
  BY DEF NIAllocate, wires, downVars
<1>2. /\ TypeOK /\ IdleInv /\ vcState \in [VCs -> {IDLE_, ACTIVE_}]
      /\ pktSize \in [VCs -> 0 .. MaxFlits]
  BY DEF IInv, TypeOK
<1>3. \A w \in VCs : Occupied(w)' = Occupied(w)
  BY <1>1 DEF Occupied
<1>4. OthersKept(v)
  BY <1>1, <1>2, <1>3, PhaseKept DEF OthersKept
<1>5. PhaseOf(v) = "free" /\ Occupied(v) = 0
  BY <1>1, <1>2, PhaseCases, DrainedCounts DEF IdleInv
<1>6. PhaseOf(v)' = "open"
  BY <1>1, <1>2 DEF PhaseOf, IDLE_, ACTIVE_
<1> QED
  BY <1>3, <1>4, <1>5, <1>6, IsOpen

(* Any other flit enters an open lease, and a credit means a free slot.    *)
LEMMA SendFlitLease ==
    ASSUME IInv, NEW v \in VCs, SendFlit(v)
    PROVE  Lease!Next
<1>1. /\ pktSize[v] > 0 /\ credits[v] > 0 /\ Send(v, pktSent[v], pktSize[v])
      /\ vcState' = vcState /\ UNCHANGED <<linkBuffer, inBuffer>>
  BY DEF SendFlit, HasCredit, downVars
<1>2. TypeOK /\ BoundInv /\ CreditConservation
  BY DEF IInv
<1>3. pktSize[v] \in 1 .. MaxFlits /\ pktSent[v] \in 0 .. pktSize[v] - 1
  BY <1>1, <1>2 DEF TypeOK, BoundInv
<1>4. vcState[v] = ACTIVE_ /\ PhaseOf(v) = "open"
  BY <1>1, <1>2, PhaseCases DEF BoundInv
<1>5. Occupied(v) < Depth[v]
  BY <1>1, <1>2, LawNumbers
<1> QED
  BY <1>1, <1>3, <1>4, <1>5, SendFills

(* A free signal ends the lease; any other credit does nothing to it.      *)
LEMMA OutputUnitLease ==
    ASSUME IInv, OutputUnitWakeup
    PROVE  [Lease!Next]_(Lease!leaseVars)
<1>1. TypeOK /\ IdleInv /\ FreeInv
  BY DEF IInv
<1>2. creditLink # << >> /\ creditLink \in Seq(Credit)
  BY <1>1 DEF OutputUnitWakeup, TypeOK
<1>3. Head(creditLink) \in Credit
  BY <1>2, TakeCredit
<1> PICK c \in Credit : c = Head(creditLink)
  BY <1>3
<1> PICK v \in VCs : v = c.vc
  BY DEF Credit
<1>4. /\ vcState' = IF c.free THEN [vcState EXCEPT ![v] = IDLE_] ELSE vcState
      /\ UNCHANGED <<pktSize, outBuffer, linkBuffer, inBuffer>>
  BY DEF OutputUnitWakeup, wires, downVars
<1>5. \A w \in VCs : Occupied(w)' = Occupied(w)
  BY <1>4 DEF Occupied
<1>6. vcState \in [VCs -> {IDLE_, ACTIVE_}]
  BY <1>1 DEF TypeOK
<1>7. CASE c.free
  <2>1. ~NoFree(creditLink, v) /\ ~NoneOf(creditLink, v)
    BY <1>2, <1>7, TakeCredit
  <2>2. Drained(v) /\ pktSize[v] = 0 /\ vcState[v] # IDLE_
    BY <1>1, <2>1 DEF FreeInv, IdleInv, NoCredits
  <2>3. PhaseOf(v) = "closed" /\ Occupied(v) = 0
    BY <1>1, <1>6, <2>2, PhaseCases, DrainedCounts
  <2>4. vcState'[v] = IDLE_ /\ \A w \in VCs \ {v} : vcState'[w] = vcState[w]
    BY <1>4, <1>6, <1>7
  <2>5. OthersKept(v)
    BY <1>4, <1>5, <2>4, PhaseKept DEF OthersKept
  <2>6. PhaseOf(v)' = "free"
    BY <2>4 DEF PhaseOf, IDLE_, ACTIVE_
  <2>7. Lease!Next
    BY <1>5, <2>3, <2>5, <2>6, IsRelease
  <2> QED
    BY <2>7
<1>8. CASE ~c.free
  <2>1. \A w \in VCs : PhaseOf(w)' = PhaseOf(w)
    BY <1>4, <1>8, PhaseKept
  <2>2. UNCHANGED Lease!leaseVars
    BY <1>5, <2>1, IsStutter
  <2> QED
    BY <2>2
<1> QED
  BY <1>7, <1>8

(* A flit on a link keeps its slot.                                        *)
LEMMA DataLinkLease ==
    ASSUME IInv, DataLinkWakeup
    PROVE  UNCHANGED Lease!leaseVars
<1>1. TypeOK /\ outBuffer # << >> /\ outBuffer \in Seq(Flit) /\ linkBuffer \in Seq(Flit)
  BY DEF IInv, TypeOK, DataLinkWakeup
<1>2. Head(outBuffer) \in Flit
  BY <1>1, TakeFlit
<1> PICK f \in Flit : f = Head(outBuffer)
  BY <1>2
<1>3. /\ linkBuffer' = Append(linkBuffer, f) /\ outBuffer' = Tail(outBuffer)
      /\ UNCHANGED <<vcState, pktSize, inBuffer>>
  BY DEF DataLinkWakeup, upVars, downVars
<1>4. \A w \in VCs : Occupied(w)' = Occupied(w)
  <2> TAKE w \in VCs
  <2> DEFINE i == IF f.vc = w THEN 1 ELSE 0
             a == CountOf(outBuffer, w)
             b == CountOf(linkBuffer, w)
             x == CountOf(outBuffer', w)
             y == CountOf(linkBuffer', w)
             m == Len(inBuffer[w])
  <2>1. a = x + i /\ y = b + i
    BY <1>1, <1>3, TakeFlit, AppendFlit
  <2>2. x \in Nat /\ b \in Nat /\ m \in Nat /\ i \in {0, 1}
    <3>1. Tail(outBuffer) \in Seq(Flit)
      BY <1>1, TailEntries
    <3> QED
      BY <1>1, <1>3, <3>1, Counts, IndicesFinite
  <2>3. Occupied(w) = a + b + m /\ Occupied(w)' = x + y + m
    BY <1>3 DEF Occupied
  <2> HIDE DEF i, a, b, x, y, m
  <2> QED
    BY <2>1, <2>2, <2>3
<1> QED
  BY <1>3, <1>4, PhaseKept, IsStutter

(* A credit on its way back holds no slot.                                 *)
LEMMA CreditLinkLease ==
    ASSUME CreditLinkWakeup
    PROVE  UNCHANGED Lease!leaseVars
<1>1. UNCHANGED <<vcState, pktSize, outBuffer, linkBuffer, inBuffer>>
  BY DEF CreditLinkWakeup, upVars, wires, downVars
<1>2. \A w \in VCs : Occupied(w)' = Occupied(w)
  BY <1>1 DEF Occupied
<1> QED
  BY <1>1, <1>2, PhaseKept, IsStutter

(* A flit that moves from the link into the VC keeps its slot.             *)
LEMMA InputUnitLease ==
    ASSUME IInv, InputUnitWakeup
    PROVE  UNCHANGED Lease!leaseVars
<1>1. /\ TypeOK /\ linkBuffer # << >> /\ linkBuffer \in Seq(Flit)
      /\ inBuffer \in [VCs -> Seq(Flit)]
  BY DEF IInv, TypeOK, InputUnitWakeup
<1>2. Head(linkBuffer) \in Flit
  BY <1>1, TakeFlit
<1> PICK f \in Flit : f = Head(linkBuffer)
  BY <1>2
<1> PICK v \in VCs : v = f.vc
  BY DEF Flit
<1>3. /\ inBuffer' = [inBuffer EXCEPT ![v] = Append(inBuffer[v], f)]
      /\ linkBuffer' = Tail(linkBuffer)
      /\ UNCHANGED <<vcState, pktSize, outBuffer>>
  BY DEF InputUnitWakeup, upVars
<1>4. \A w \in VCs : Occupied(w)' = Occupied(w)
  <2> TAKE w \in VCs
  <2> DEFINE i == IF v = w THEN 1 ELSE 0
             a == CountOf(linkBuffer, w)
             b == Len(inBuffer[w])
             x == CountOf(linkBuffer', w)
             y == Len(inBuffer'[w])
  <2>1. a = x + i
    BY <1>1, <1>3, TakeFlit
  <2>2. inBuffer[w] \in Seq(Flit) /\ Tail(linkBuffer) \in Seq(Flit)
    BY <1>1, TailEntries
  <2>3. x \in Nat /\ b \in Nat /\ CountOf(outBuffer, w) \in Nat /\ i \in {0, 1}
    BY <1>1, <1>3, <2>2, Counts, IndicesFinite
  <2>4. y = b + i
    <3>1. CASE v = w
      <4>1. inBuffer'[w] = Append(inBuffer[w], f)
        BY <1>1, <1>3, <3>1
      <4>2. Len(Append(inBuffer[w], f)) = Len(inBuffer[w]) + 1
        BY <2>2, AppendEntries
      <4> QED
        BY <3>1, <4>1, <4>2
    <3>2. CASE v # w
      <4>1. inBuffer'[w] = inBuffer[w]
        BY <1>1, <1>3, <3>2
      <4> QED
        BY <2>3, <3>2, <4>1
    <3> QED
      BY <3>1, <3>2
  <2>5. Occupied(w) = CountOf(outBuffer, w) + a + b
        /\ Occupied(w)' = CountOf(outBuffer, w) + x + y
    BY <1>3 DEF Occupied
  <2> HIDE DEF i, a, b, x, y
  <2> QED
    BY <2>1, <2>3, <2>4, <2>5
<1> QED
  BY <1>3, <1>4, PhaseKept, IsStutter

(* A granted flit leaves the hop.                                          *)
LEMMA SwitchGrantLease ==
    ASSUME IInv, NEW v \in VCs, SwitchGrant(v)
    PROVE  Lease!Next
<1>1. TypeOK /\ CreditConservation /\ inBuffer \in [VCs -> Seq(Flit)]
  BY DEF IInv, TypeOK
<1>2. /\ inBuffer[v] # << >> /\ inBuffer' = [inBuffer EXCEPT ![v] = Tail(inBuffer[v])]
      /\ UNCHANGED <<vcState, pktSize, outBuffer, linkBuffer>>
  BY DEF SwitchGrant, upVars, wires
<1>3. \A w \in VCs : PhaseOf(w)' = PhaseOf(w)
  BY <1>2, PhaseKept
<1>4. \A w \in VCs \ {v} : Occupied(w)' = Occupied(w)
  <2> TAKE w \in VCs \ {v}
  <2>1. inBuffer'[w] = inBuffer[w]
    BY <1>1, <1>2
  <2> QED
    BY <1>2, <2>1 DEF Occupied
<1>5. Occupied(v)' = Occupied(v) - 1 /\ Occupied(v) > 0
  <2>1. inBuffer'[v] = Tail(inBuffer[v]) /\ inBuffer[v] \in Seq(Flit)
    BY <1>1, <1>2
  <2>2. Len(inBuffer[v]) \in Nat \ {0} /\ Len(inBuffer'[v]) = Len(inBuffer[v]) - 1
    BY <1>2, <2>1, TailEntries
  <2>3. CountOf(outBuffer, v) \in Nat /\ CountOf(linkBuffer, v) \in Nat
    BY <1>1, Counts
  <2> QED
    BY <1>2, <2>2, <2>3 DEF Occupied
<1>6. PhaseOf(v) # "free"
  BY <1>1, <1>2, Granted, PhaseCases
<1> QED
  BY <1>3, <1>4, <1>5, <1>6, IsDrain DEF OthersKept

(* Each step of the hop is a step of the lease, or changes nothing of it.  *)
LEMMA LeaseStep ==
    ASSUME IInv, [Next]_vars
    PROVE  [Lease!Next]_(Lease!leaseVars)
<1>1. CASE UNCHANGED vars
  BY <1>1, IsStutter DEF vars, PhaseOf, Occupied
<1>2. ASSUME NEW v \in VCs, NEW n \in 1 .. MaxFlits, SendHead(v, n)
      PROVE  Lease!Next
  BY <1>2, SendHeadLease
<1>3. ASSUME NEW v \in VCs, NEW n \in 1 .. MaxFlits, NIAllocate(v, n)
      PROVE  Lease!Next
  BY <1>3, NIAllocateLease
<1>4. ASSUME NEW v \in VCs, SendFlit(v)
      PROVE  Lease!Next
  BY <1>4, SendFlitLease
<1>5. CASE OutputUnitWakeup
  BY <1>5, OutputUnitLease
<1>6. CASE DataLinkWakeup
  BY <1>6, DataLinkLease
<1>7. CASE CreditLinkWakeup
  BY <1>7, CreditLinkLease
<1>8. CASE InputUnitWakeup
  BY <1>8, InputUnitLease
<1>9. ASSUME NEW v \in VCs, SwitchGrant(v)
      PROVE  Lease!Next
  BY <1>9, SwitchGrantLease
<1> QED
  BY <1>1, <1>2, <1>3, <1>4, <1>5, <1>6, <1>7, <1>8, <1>9 DEF Next

(* The hop is a lease of each of its VCs: a VC is never given to a second  *)
(* packet before every flit of the first has left it, and its buffer never *)
(* holds more flits than it has slots.                                     *)
THEOREM ImplementsLease == Spec => LeaseSpec
<1>1. Init => Lease!Init
  BY LeaseInit
<1>2. IInv /\ [Next]_vars => [Lease!Next]_(Lease!leaseVars)
  BY LeaseStep
<1> QED
  BY <1>1, <1>2, Invariance, PTL DEF Spec, LeaseSpec, Lease!Spec
=============================================================================
