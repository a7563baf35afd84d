------------------------------- MODULE Bridge -------------------------------
(***************************************************************************)
(* A hop whose two ends have different flit widths.  The NetworkBridge in  *)
(* the data direction splits wide flits or joins narrow ones, its          *)
(* coBridge in the credit direction does the opposite to the credits:      *)
(*                                                                         *)
(*   sender -> toBridge -> [net bridge] -> toReceiver -> inBuffer          *)
(*      ^                                                   |              *)
(*   toSender <- [credit bridge] <- toCreditBridge <---------              *)
(*                                                                         *)
(* For every flit that leaves it, or for every flit that enters it, the    *)
(* net bridge tells the credit bridge how many flits of the narrow side    *)
(* belong to one flit of the wide side (neutralize), so that each sender   *)
(* flit gets one credit back.  The handlers interleave in any order: the   *)
(* latencies and clock domains of the code only delay flits, scheduleFlit  *)
(* never lets one pass another.                                            *)
(***************************************************************************)
EXTENDS FiniteSetsExt, SequencesExt, Wires

CONSTANTS
    VCs,         \* ids of the virtual channels of the hop
    Hops,        \* the hops to check: widths, SerDes flag, buffers of a VC
    Sizes        \* msgSize of the packets, in the unit of the widths

ASSUME VCsAssumption == VCs \subseteq Nat
ASSUME SizesAssumption == Sizes \subseteq Nat \ {0}
ASSUME HopsAssumption ==
    Hops \subseteq [src : Nat \ {0}, dst : Nat \ {0}, serdes : BOOLEAN, depth : Nat \ {0}]

VARIABLES
    hop,            \* bitWidth of both ends, enSerDes, and the sender's buffers
    leased,         \* the sender's VCs that are ACTIVE_
    packet,         \* per VC, msgSize of the packet and its flits already sent
    credits,        \* OutVcState::m_credit_count
    toBridge,       \* link_srcQueue of the net bridge
    sizeSent,       \* NetworkBridge::sizeSent of the net bridge
    flitsSent,      \* NetworkBridge::flitsSent of the net bridge
    toReceiver,     \* linkBuffer of the net bridge
    inBuffer,       \* the receiver's VC buffers
    toCreditBridge, \* link_srcQueue of the credit bridge
    extraCredit,    \* NetworkBridge::extraCredit of the credit bridge
    lenBuffer,      \* NetworkBridge::lenBuffer of the credit bridge
    toSender        \* linkBuffer of the credit bridge

senderVars == <<leased, packet, credits>>
netVars    == <<sizeSent, flitsSent>>
creditVars == <<extraCredit, lenBuffer>>
vars == <<hop, leased, packet, credits, toBridge, sizeSent, flitsSent, toReceiver,
          inBuffer, toCreditBridge, extraCredit, lenBuffer, toSender>>

None == [size |-> 0, sent |-> 0]

Init ==
    /\ hop \in Hops
    /\ leased = {}
    /\ packet = [v \in VCs |-> None]
    /\ credits = [v \in VCs |-> hop.depth]
    /\ toBridge = << >>
    /\ sizeSent = [v \in VCs |-> 0]
    /\ flitsSent = [v \in VCs |-> 0]
    /\ toReceiver = << >>
    /\ inBuffer = [v \in VCs |-> << >>]
    /\ toCreditBridge = << >>
    /\ extraCredit = [v \in VCs |-> << >>]
    /\ lenBuffer = [v \in VCs |-> 0]
    /\ toSender = << >>

CeilDiv(a, b) == (a + b - 1) \div b

(* flit::flit: a flit knows its packet's size in bytes, and by the width   *)
(* of the side it is on, how many flits the packet has there.              *)
FlitsAt(f, width) == CeilDiv(f.size, width)
IsTail(f, width)  == f.id = FlitsAt(f, width) - 1

-----------------------------------------------------------------------------
(* The two ends                                                            *)

(* A packet of s bytes gets the IDLE_ VC v.                                *)
Lease(v, s) ==
    /\ v \notin leased
    /\ leased' = leased \cup {v}
    /\ packet' = [packet EXCEPT ![v] = [size |-> s, sent |-> 0]]
    /\ UNCHANGED <<hop, credits, toBridge, netVars, toReceiver, inBuffer,
                   toCreditBridge, creditVars, toSender>>

SendFlit(v) ==
    LET f == [vc |-> v, id |-> packet[v].sent, size |-> packet[v].size] IN
    /\ packet[v] # None
    /\ credits[v] > 0
    /\ credits' = [credits EXCEPT ![v] = @ - 1]
    /\ packet' = [packet EXCEPT ![v] =
         IF IsTail(f, hop.src) THEN None ELSE [size |-> f.size, sent |-> f.id + 1]]
    /\ toBridge' = Append(toBridge, f)
    /\ UNCHANGED <<hop, leased, netVars, toReceiver, inBuffer, toCreditBridge,
                   creditVars, toSender>>

(* The receiver's InputUnit or InputPort puts the flit into its VC.        *)
Receive ==
    /\ toReceiver # << >>
    /\ LET f == Head(toReceiver) IN
         inBuffer' = [inBuffer EXCEPT ![f.vc] = Append(@, f)]
    /\ toReceiver' = Tail(toReceiver)
    /\ UNCHANGED <<hop, senderVars, toBridge, netVars, toCreditBridge, creditVars,
                   toSender>>

(* A flit leaves VC v: its credit goes back, the tail's with free signal.  *)
ReturnCredit(v) ==
    /\ inBuffer[v] # << >>
    /\ inBuffer' = [inBuffer EXCEPT ![v] = Tail(@)]
    /\ toCreditBridge' = Append(toCreditBridge,
         [vc |-> v, free |-> IsTail(Head(inBuffer[v]), hop.dst)])
    /\ UNCHANGED <<hop, senderVars, toBridge, netVars, toReceiver, creditVars, toSender>>

(* OutputUnit::wakeup of the sender.                                       *)
CreditArrives ==
    /\ toSender # << >>
    /\ LET c == Head(toSender) IN
         /\ credits' = [credits EXCEPT ![c.vc] = @ + 1]
         /\ leased' = IF c.free THEN leased \ {c.vc} ELSE leased
    /\ toSender' = Tail(toSender)
    /\ UNCHANGED <<hop, packet, toBridge, netVars, toReceiver, inBuffer,
                   toCreditBridge, creditVars>>

-----------------------------------------------------------------------------
(* The net bridge                                                          *)

Joining == hop.dst > hop.src

(* Bytes the bridge has of the packet and has not sent on (sizeAvail).     *)
SizeAvail(f) ==
    (IF IsTail(f, hop.src) THEN f.size ELSE (f.id + 1) * hop.src) - sizeSent[f.vc]

(* Mutant of FlitPossible: the remainder of a packet waits for more.       *)
FlitPossibleDown(f) == SizeAvail(f) \div hop.dst

(* flitPossible: whole flits only, and at the tail whatever is left.       *)
FlitPossible(f) ==
    IF IsTail(f, hop.src) THEN CeilDiv(SizeAvail(f), hop.dst)
    ELSE SizeAvail(f) \div hop.dst

(* Mutant of NewId: numbered from the id, not from the end of the flit.    *)
NewIdDown(f, i) ==
    IF Joining THEN CeilDiv(f.id, CeilDiv(hop.dst, hop.src))
    ELSE f.id * CeilDiv(hop.src, hop.dst) + i

(* flit::deserialize and flit::serialize: the id of part i of flit f.      *)
NewId(f, i) ==
    IF Joining THEN CeilDiv(f.id + 1, CeilDiv(hop.dst, hop.src)) - 1
    ELSE f.id * CeilDiv(hop.src, hop.dst) + i

Parts(f) == [i \in 1 .. FlitPossible(f) |-> [f EXCEPT !.id = NewId(f, i - 1)]]

(* Mutant of Neutralized: one credit for one flit.                         *)
NeutralizedOne(f) == 1

(* Flits of the narrow side that make up the flit of the wide side.        *)
Neutralized(f) ==
    IF Joining THEN f.id + 1 - flitsSent[f.vc] ELSE FlitPossible(f)

(* Mutant of SizeSent: sizeSent is kept over the end of the packet.        *)
SizeSentKept(f) == sizeSent[f.vc] + FlitPossible(f) * hop.dst

(* sizeSent and flitsSent after flit f, which forgets a complete packet.   *)
SizeSent(f) ==
    IF IsTail(f, hop.src) THEN 0 ELSE sizeSent[f.vc] + FlitPossible(f) * hop.dst

FlitsSent(f) ==
    IF IsTail(f, hop.src) THEN 0
    ELSE IF ~Joining THEN flitsSent[f.vc] + FlitPossible(f)
    ELSE IF FlitPossible(f) > 0 THEN f.id + 1 ELSE flitsSent[f.vc]

(* NetworkBridge::wakeup and flitisizeAndSend for a data flit.             *)
Convert ==
    /\ hop.serdes
    /\ toBridge # << >>
    /\ LET f == Head(toBridge) IN
         /\ toReceiver' = toReceiver \o Parts(f)
         /\ extraCredit' = IF FlitPossible(f) > 0
                           THEN [extraCredit EXCEPT ![f.vc] = Append(@, Neutralized(f))]
                           ELSE extraCredit
         /\ sizeSent' = [sizeSent EXCEPT ![f.vc] = SizeSent(f)]
         /\ flitsSent' = [flitsSent EXCEPT ![f.vc] = FlitsSent(f)]
    /\ toBridge' = Tail(toBridge)
    /\ UNCHANGED <<hop, senderVars, inBuffer, toCreditBridge, lenBuffer, toSender>>

-----------------------------------------------------------------------------
(* The credit bridge                                                       *)

(* Mutant of CreditParts: every part carries the free signal.              *)
CreditPartsFree(c) == [i \in 1 .. Head(extraCredit[c.vc]) |-> c]

(* Credit::serialize: only the last part carries the free signal.          *)
CreditParts(c) ==
    LET n == Head(extraCredit[c.vc])
    IN  [i \in 1 .. n |-> [c EXCEPT !.free = c.free /\ i = n]]

(* Credits of the wide receiver are split, with the neutralized number.    *)
SplitCredit ==
    /\ hop.serdes /\ Joining
    /\ toCreditBridge # << >>
    /\ LET c == Head(toCreditBridge) IN
         /\ toSender' = toSender \o CreditParts(c)
         /\ extraCredit' = [extraCredit EXCEPT ![c.vc] = Tail(@)]
    /\ toCreditBridge' = Tail(toCreditBridge)
    /\ UNCHANGED <<hop, senderVars, toBridge, netVars, toReceiver, inBuffer, lenBuffer>>

(* Credits of the narrow receiver are counted until the neutralized number *)
(* is there; the one that completes it goes on (Credit::deserialize).      *)
(* Between equal widths, where it is 1, the code splits each credit into   *)
(* one, to the same effect.                                                *)
JoinCredit ==
    /\ hop.serdes /\ ~Joining
    /\ toCreditBridge # << >>
    /\ LET c == Head(toCreditBridge)
           complete == lenBuffer[c.vc] + 1 = Head(extraCredit[c.vc]) IN
         /\ toSender' = IF complete THEN Append(toSender, c) ELSE toSender
         /\ extraCredit' = IF complete THEN [extraCredit EXCEPT ![c.vc] = Tail(@)]
                           ELSE extraCredit
         /\ lenBuffer' = [lenBuffer EXCEPT ![c.vc] = IF complete THEN 0 ELSE @ + 1]
    /\ toCreditBridge' = Tail(toCreditBridge)
    /\ UNCHANGED <<hop, senderVars, toBridge, netVars, toReceiver, inBuffer>>

(* Without SerDes a bridge only changes the clock domain.                  *)
PassFlit ==
    /\ ~hop.serdes
    /\ toBridge # << >>
    /\ toReceiver' = Append(toReceiver, Head(toBridge))
    /\ toBridge' = Tail(toBridge)
    /\ UNCHANGED <<hop, senderVars, netVars, inBuffer, toCreditBridge, creditVars, toSender>>

PassCredit ==
    /\ ~hop.serdes
    /\ toCreditBridge # << >>
    /\ toSender' = Append(toSender, Head(toCreditBridge))
    /\ toCreditBridge' = Tail(toCreditBridge)
    /\ UNCHANGED <<hop, senderVars, toBridge, netVars, toReceiver, inBuffer, creditVars>>

-----------------------------------------------------------------------------
Next ==
    \/ \E v \in VCs, s \in Sizes : Lease(v, s)
    \/ \E v \in VCs : SendFlit(v)
    \/ Convert
    \/ PassFlit
    \/ Receive
    \/ \E v \in VCs : ReturnCredit(v)
    \/ SplitCredit
    \/ JoinCredit
    \/ PassCredit
    \/ CreditArrives

Spec == Init /\ [][Next]_vars

(* A scheduled wakeup runs, a sender with a credit and a receiver with a   *)
(* flit are served in the end; only Lease is up to the traffic.            *)
Fairness ==
    /\ \A v \in VCs : WF_vars(SendFlit(v)) /\ WF_vars(ReturnCredit(v))
    /\ WF_vars(Convert) /\ WF_vars(PassFlit) /\ WF_vars(Receive)
    /\ WF_vars(SplitCredit) /\ WF_vars(JoinCredit) /\ WF_vars(PassCredit)
    /\ WF_vars(CreditArrives)

FairSpec == Spec /\ Fairness

-----------------------------------------------------------------------------
(* Properties                                                              *)

Total(counts) == FoldLeft(LAMBDA a, b : a + b, 0, counts)

(* Narrow flits the bridge holds back until it has a wide one: those that  *)
(* left the sender and are neither ahead of the bridge nor sent on.        *)
Held(v) ==
    LET ahead == {toBridge[i].id : i \in IndicesOf(toBridge, v)}
        next  == IF ahead # {} THEN Min(ahead) ELSE packet[v].sent
    IN  IF hop.serdes /\ Joining THEN next - flitsSent[v] ELSE 0

(* Each sender flit is somewhere on its way, or is one of those that an    *)
(* entry of extraCredit stands for, or its credit is on the way back; each *)
(* entry stands for the receiver flits and credits made of it.  No credit  *)
(* is lost or made on a hop that changes the width.                        *)
CreditConservation ==
    \A v \in VCs :
        LET beyond == CountOf(toReceiver, v) + Len(inBuffer[v]) + CountOf(toCreditBridge, v)
            around == credits[v] + CountOf(toBridge, v) + CountOf(toSender, v)
        IN  IF ~hop.serdes THEN around + beyond = hop.depth
            ELSE IF Joining
            THEN /\ around + Held(v) + Total(extraCredit[v]) = hop.depth
                 /\ beyond = Len(extraCredit[v])
            ELSE /\ around + Len(extraCredit[v]) = hop.depth
                 /\ beyond = Total(extraCredit[v]) - lenBuffer[v]

(* Flits f and g of a VC, one right after the other, are neighbours in     *)
(* their packet, or the last of one packet and the first of the next.      *)
Follows(f, g) ==
    IF IsTail(f, hop.dst) THEN g.id = 0 ELSE g.id = f.id + 1 /\ g.size = f.size

(* Behind the bridge a packet has the flits 0 .. n-1 that its size has at  *)
(* the new width, in order, without a gap, one packet after the other.     *)
PacketsWhole ==
    \A v \in VCs :
        LET behind == inBuffer[v] \o toReceiver
            places == IndicesOf(behind, v)
        IN  \A i \in places :
              /\ behind[i].id < FlitsAt(behind[i], hop.dst)
              /\ \A j \in places :
                    i < j /\ (\A k \in i + 1 .. j - 1 : k \notin places)
                    => Follows(behind[i], behind[j])

(* An IDLE_ VC has left nothing behind in either bridge: the next packet   *)
(* starts from fresh counters with all credits.                            *)
IdleMeansForgotten ==
    \A v \in VCs \ leased :
        /\ credits[v] = hop.depth
        /\ sizeSent[v] = 0 /\ flitsSent[v] = 0
        /\ extraCredit[v] = << >> /\ lenBuffer[v] = 0

(* All assertions of flitisizeAndSend, flit::serialize and deserialize: a  *)
(* bridge with SerDes that has a flit or a credit to convert stands        *)
(* between different widths, and splits only what is wider; a credit finds *)
(* a number that was neutralized for it and is not 0; a joined flit is one *)
(* flit at most, a split one at least one; ids stay inside the packet.     *)
AssertsHold ==
    hop.serdes =>
        /\ toBridge # << >> \/ toCreditBridge # << >> => hop.src # hop.dst
        /\ toCreditBridge # << >> =>
             LET numbers == extraCredit[Head(toCreditBridge).vc]
             IN  numbers # << >> /\ Head(numbers) > 0
        /\ toBridge # << >> =>
             LET f == Head(toBridge) IN
             /\ IF Joining THEN FlitPossible(f) < 2
                ELSE FlitPossible(f) > 0 /\ hop.src > hop.dst
             /\ \A i \in DOMAIN Parts(f) : Parts(f)[i].id < FlitsAt(f, hop.dst)

(* A sender can have enough flits under way to fill one wide flit.         *)
Roomy == hop.depth * hop.src >= hop.dst

(* A packet that has got a VC passes both bridges and gives the VC back,   *)
(* provided that one wide flit fits into the credits of the sender.        *)
PacketsPass == \A v \in VCs : (Roomy /\ v \in leased) ~> v \notin leased
=============================================================================
