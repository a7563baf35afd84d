---------------------------- MODULE BridgeProofs ----------------------------
(***************************************************************************)
(* A hop that changes the width of the flits loses no credit, breaks no    *)
(* packet and keeps nothing over the end of one, for every set of VCs,     *)
(* depth and packet size and all widths of which one divides the other.    *)
(***************************************************************************)
EXTENDS Bridge, DataTheorems

(* The widths for which the bridges count right: one divides the other,    *)
(* and without SerDes they are equal.                                      *)
WidthsDivide ==
    \A h \in Hops : /\ h.src % h.dst = 0 \/ h.dst % h.src = 0
                    /\ ~h.serdes => h.src = h.dst

(* No bridge with SerDes stands between equal widths.                      *)
WidthsDiffer == \A h \in Hops : h.serdes => h.src # h.dst

-----------------------------------------------------------------------------
(* Numbers of flits                                                        *)

(* Products with a common factor are ordered as the other factors are.     *)
LEMMA LessTimes ==
    ASSUME NEW x \in Int, NEW y \in Int, NEW d \in Nat \ {0}
    PROVE  x * d < y * d <=> x < y
<1>1. ASSUME x < y PROVE x * d < y * d
  <2>1. y - x \in Nat \ {0}
    BY <1>1
  <2>2. (y - x) * d > 0
    BY <2>1
  <2>3. (y - x) * d = y * d - x * d
    OBVIOUS
  <2>4. x * d \in Int /\ y * d \in Int
    OBVIOUS
  <2> QED
    BY <2>2, <2>3, <2>4
<1>2. ASSUME ~(x < y) PROVE ~(x * d < y * d)
  <2>1. x - y \in Nat
    BY <1>2
  <2>2. (x - y) * d >= 0
    BY <2>1
  <2>3. (x - y) * d = x * d - y * d
    OBVIOUS
  <2>4. x * d \in Int /\ y * d \in Int
    OBVIOUS
  <2> QED
    BY <2>2, <2>3, <2>4
<1> QED
  BY <1>1, <1>2

(* CeilDiv is the number of pieces of b that a fills, the last in part.    *)
LEMMA CeilDivIs ==
    ASSUME NEW a \in Nat, NEW b \in Nat \ {0}
    PROVE  LET c == CeilDiv(a, b)
           IN  c \in Nat /\ (c - 1) * b < a /\ a <= c * b
<1> DEFINE x == a + b - 1
           c == x \div b
<1>1. x \in Nat /\ x = a + b - 1
  OBVIOUS
<1>2. c \in Nat /\ x % b \in 0 .. b - 1 /\ x = c * b + (x % b)
  BY <1>1, DivAndMod
<1>3. (c - 1) * b = c * b - b /\ c * b \in Nat
  BY <1>2
<1>4. CeilDiv(a, b) = c
  BY DEF CeilDiv
<1> HIDE DEF c, x
<1>5. (c - 1) * b < a /\ a <= c * b
  BY <1>1, <1>2, <1>3
<1> QED
  BY <1>2, <1>4, <1>5

(* No other number is.                                                     *)
LEMMA OnlyCeilDiv ==
    ASSUME NEW a \in Nat, NEW b \in Nat \ {0}, NEW c \in Int,
           (c - 1) * b < a, a <= c * b
    PROVE  CeilDiv(a, b) = c
<1> DEFINE d == CeilDiv(a, b)
<1>1. d \in Nat /\ (d - 1) * b < a /\ a <= d * b
  BY CeilDivIs
<1> HIDE DEF d
<1>2. (d - 1) * b < c * b /\ (c - 1) * b < d * b
  <2>1. (d - 1) * b \in Int /\ c * b \in Int /\ (c - 1) * b \in Int /\ d * b \in Int
    BY <1>1
  <2> QED
    BY <1>1, <2>1
<1>3. d - 1 < c /\ c - 1 < d
  <2>1. d - 1 \in Int /\ c - 1 \in Int /\ d \in Int
    BY <1>1
  <2> QED
    BY <1>2, <2>1, LessTimes
<1>4. d = c
  BY <1>1, <1>3
<1> QED
  BY <1>4 DEF d

(* Multiplication, associated the way the widths are.                      *)
LEMMA TimesTimes == \A x, y, z \in Int : (x * y) * z = x * (y * z) /\ x * y \in Int
OBVIOUS

(* A packet of s bytes whose wide flits hold r narrow ones each.           *)
LEMMA WideHoldNarrow ==
    ASSUME NEW s \in Nat, NEW b \in Nat \ {0}, NEW r \in Nat \ {0}
    PROVE  /\ r * b \in Nat \ {0}
           /\ (CeilDiv(s, r * b) - 1) * r < CeilDiv(s, b)
           /\ CeilDiv(s, b) <= CeilDiv(s, r * b) * r
<1> DEFINE n == CeilDiv(s, b)
           d == r * b
           w == CeilDiv(s, d)
<1>1. d \in Nat \ {0}
  OBVIOUS
<1>2. n \in Nat /\ (n - 1) * b < s /\ s <= n * b
  BY CeilDivIs
<1>3. w \in Nat /\ (w - 1) * d < s /\ s <= w * d
  BY <1>1, CeilDivIs
<1> HIDE DEF n, w
<1>4. (w - 1) * d = ((w - 1) * r) * b /\ w * d = (w * r) * b
  BY <1>3, TimesTimes
<1>5. (w - 1) * r \in Int /\ w * r \in Int /\ n - 1 \in Int /\ n \in Int
  BY <1>2, <1>3
<1>6. ((w - 1) * r) * b < n * b /\ (n - 1) * b < (w * r) * b
  <2>1. ((w - 1) * r) * b \in Int /\ n * b \in Int /\ (n - 1) * b \in Int /\ (w * r) * b \in Int
    BY <1>5
  <2> QED
    BY <1>2, <1>3, <1>4, <2>1
<1>7. (w - 1) * r < n /\ n - 1 < w * r
  BY <1>5, <1>6, LessTimes
<1> QED
  BY <1>1, <1>5, <1>7 DEF n, w

-----------------------------------------------------------------------------
(* The inductive invariant.  For each VC nine numbers are followed: the    *)
(* size of its packet, and how many flits have been sent, taken by the net *)
(* bridge, made by it, entered and left the receiver, and how many credits *)
(* were turned by the credit bridge, given by it and came back.            *)
AtSender(s)   == CeilDiv(s, hop.src)
AtReceiver(s) == CeilDiv(s, hop.dst)

(* Flits of a packet of s bytes on the narrow and on the wide side, and    *)
(* how many narrow ones the first w wide ones are.                         *)
Ratio     == IF Joining THEN CeilDiv(hop.dst, hop.src) ELSE CeilDiv(hop.src, hop.dst)
Narrow(s) == IF Joining THEN AtSender(s) ELSE AtReceiver(s)
Wide(s)   == IF Joining THEN AtReceiver(s) ELSE AtSender(s)
Upto(s)   == [w \in Nat |-> IF w < Wide(s) THEN w * Ratio ELSE Narrow(s)]

(* n narrow flits contain w complete wide ones.                            *)
Contain(s, n, w) == Upto(s)[w] <= n /\ (w < Wide(s) => n < Upto(s)[w + 1])

Numbers == [VCs -> Nat]
Counts ==
    [size : Numbers, sent : Numbers, taken : Numbers, made : Numbers, entered : Numbers,
     left : Numbers, turned : Numbers, given : Numbers, back : Numbers]

FlitStream(size) ==
    [v \in VCs |-> [n \in Nat |-> [vc |-> v, id |-> n, size |-> size[v]]]]
CreditStream(last) ==
    [v \in VCs |-> [n \in Nat |-> [vc |-> v, free |-> n + 1 = last[v]]]]
LastCredit(g) == [v \in VCs |-> AtReceiver(g.size[v])]
LastReturn(g) == [v \in VCs |-> AtSender(g.size[v])]

Ordered(g, v) ==
    LET s == g.size[v] IN
    /\ g.taken[v] <= g.sent[v] /\ g.sent[v] <= AtSender(s)
    /\ g.turned[v] <= g.left[v] /\ g.left[v] <= g.entered[v]
    /\ g.entered[v] <= g.made[v] /\ g.made[v] <= AtReceiver(s)
    /\ g.back[v] <= g.given[v]
    /\ IF Joining
       THEN Contain(s, g.taken[v], g.made[v]) /\ g.given[v] = Upto(s)[g.turned[v]]
       ELSE /\ g.made[v] = Upto(s)[g.taken[v]] /\ Contain(s, g.turned[v], g.given[v])
            /\ g.given[v] <= g.taken[v]

AtTheSender(g, v) ==
    /\ v \in leased <=> g.size[v] > 0
    /\ packet[v] = IF g.sent[v] < AtSender(g.size[v])
                   THEN [size |-> g.size[v], sent |-> g.sent[v]] ELSE None
    /\ credits[v] = hop.depth - g.sent[v] + g.back[v]

InNetBridge(g, v) ==
    LET under == hop.serdes /\ g.taken[v] < AtSender(g.size[v])
        made  == g.made[v]
    IN  /\ sizeSent[v] = IF under THEN made * hop.dst ELSE 0
        /\ flitsSent[v] = IF ~under THEN 0
                          ELSE IF Joining THEN Upto(g.size[v])[made] ELSE made

(* For the wide flits first .. next - 1, how many narrow ones each has.    *)
Entries(e, upto, first, next) ==
    /\ Len(e) = next - first
    /\ \A i \in 1 .. Len(e) : e[i] = upto[first + i] - upto[first + i - 1]

InCreditBridge(g, v) ==
    LET upto  == Upto(g.size[v])
        first == IF Joining THEN g.turned[v] ELSE g.given[v]
        next  == IF Joining THEN g.made[v] ELSE g.taken[v]
    IN  /\ IF hop.serdes THEN Entries(extraCredit[v], upto, first, next)
                         ELSE Len(extraCredit[v]) = 0
        /\ lenBuffer[v] = IF Joining THEN 0 ELSE g.turned[v] - upto[g.given[v]]

AtTheReceiver(g, v) ==
    /\ Len(inBuffer[v]) = g.entered[v] - g.left[v]
    /\ \A i \in 1 .. Len(inBuffer[v]) :
         inBuffer[v][i] = FlitStream(g.size)[v][g.left[v] + i - 1]

OnTheWay(g) ==
    /\ CarriesAll(toBridge, g.taken, g.sent, FlitStream(g.size))
    /\ CarriesAll(toReceiver, g.entered, g.made, FlitStream(g.size))
    /\ CarriesAll(toCreditBridge, g.turned, g.left, CreditStream(LastCredit(g)))
    /\ CarriesAll(toSender, g.back, g.given, CreditStream(LastReturn(g)))

(* All that concerns one VC.                                               *)
OfVC(g, v) ==
    /\ Ordered(g, v)
    /\ AtTheSender(g, v)
    /\ InNetBridge(g, v)
    /\ InCreditBridge(g, v)
    /\ AtTheReceiver(g, v)

Tracks(g) == OnTheWay(g) /\ \A v \in VCs : OfVC(g, v)

Flit   == [vc : VCs, id : Nat, size : Nat]
Credit == [vc : VCs, free : BOOLEAN]

Typed ==
    /\ hop \in Hops
    /\ leased \in SUBSET VCs
    /\ packet \in [VCs -> [size : Nat, sent : Nat]]
    /\ credits \in [VCs -> Int]
    /\ toBridge \in Seq(Flit) /\ toReceiver \in Seq(Flit)
    /\ sizeSent \in [VCs -> Int] /\ flitsSent \in [VCs -> Int]
    /\ inBuffer \in [VCs -> Seq(Flit)]
    /\ toCreditBridge \in Seq(Credit) /\ toSender \in Seq(Credit)
    /\ extraCredit \in [VCs -> Seq(Int)]
    /\ lenBuffer \in [VCs -> Int]

IInv == Typed /\ \E g \in Counts : Tracks(g)

-----------------------------------------------------------------------------
(* What the widths give                                                    *)

(* f counts up from 0 to a in w steps and stays there.                     *)
Ladder(f, w, a) ==
    /\ f \in [Nat -> Nat] /\ w \in Nat /\ a \in Nat
    /\ f[0] = 0
    /\ \A x \in Nat : x < w => f[x] < f[x + 1] /\ f[x + 1] <= a
    /\ \A x \in Nat : x >= w => f[x] = a

(* Multiples of r, the last one cut off.                                   *)
LEMMA LadderOfMultiples ==
    ASSUME NEW r \in Nat \ {0}, NEW w \in Nat, NEW a \in Nat,
           (w - 1) * r < a, a <= w * r
    PROVE  Ladder([x \in Nat |-> IF x < w THEN x * r ELSE a], w, a)
<1> DEFINE f == [x \in Nat |-> IF x < w THEN x * r ELSE a]
<1>1. \A x \in Nat : x * r \in Nat
  OBVIOUS
<1>2. \A x \in Nat : f[x] = IF x < w THEN x * r ELSE a
  OBVIOUS
<1>3. f \in [Nat -> Nat]
  BY <1>1
<1>4. f[0] = 0
  <2>1. 0 * r = 0
    OBVIOUS
  <2>2. w = 0 => a = 0
    BY <2>1
  <2> QED
    BY <1>2, <2>1, <2>2
<1> HIDE DEF f
<1>5. ASSUME NEW x \in Nat, x < w PROVE f[x] < f[x + 1] /\ f[x + 1] <= a
  <2>1. (x + 1) * r = x * r + r /\ x * r \in Nat
    OBVIOUS
  <2>2. x <= w - 1 /\ w - 1 \in Nat
    BY <1>5
  <2>3. x * r <= (w - 1) * r
    <3>1. ~(w - 1 < x)
      BY <2>2
    <3>2. ~((w - 1) * r < x * r)
      BY <2>2, <3>1, LessTimes
    <3>3. (w - 1) * r \in Int
      BY <2>2
    <3> QED
      BY <2>1, <3>2, <3>3
  <2>4. (w - 1) * r \in Int
    BY <2>2
  <2>5. x * r < a
    BY <2>1, <2>3, <2>4
  <2>6. f[x] = x * r
    BY <1>2, <1>5
  <2>7. CASE x + 1 < w
    <3>1. f[x + 1] = x * r + r
      BY <1>2, <2>1, <2>7
    <3>2. (x + 1) * r <= (w - 1) * r
      <4>1. ~(w - 1 < x + 1)
        BY <2>7
      <4>2. ~((w - 1) * r < (x + 1) * r)
        BY <2>2, <4>1, LessTimes
      <4> QED
        BY <2>1, <2>4, <4>2
    <3> QED
      BY <2>1, <2>4, <2>6, <3>1, <3>2
  <2>8. CASE ~(x + 1 < w)
    BY <1>2, <2>5, <2>6, <2>8
  <2> QED
    BY <2>7, <2>8
<1> QED
  BY <1>2, <1>3, <1>4, <1>5 DEF Ladder, f

(* The widths of a hop, the narrow one r times in the wide one.            *)
LEMMA WidthsFit ==
    ASSUME WidthsDivide, Typed
    PROVE  /\ hop.src \in Nat \ {0} /\ hop.dst \in Nat \ {0} /\ hop.serdes \in BOOLEAN
           /\ hop.depth \in Nat \ {0}
           /\ Ratio \in Nat \ {0}
           /\ Joining => hop.dst = Ratio * hop.src
           /\ ~Joining => hop.src = Ratio * hop.dst
           /\ ~hop.serdes => hop.src = hop.dst /\ Ratio = 1
<1>1. /\ hop.src \in Nat \ {0} /\ hop.dst \in Nat \ {0} /\ hop.serdes \in BOOLEAN
      /\ hop.depth \in Nat \ {0}
  BY HopsAssumption DEF Typed
<1>2. hop.src % hop.dst = 0 \/ hop.dst % hop.src = 0
  BY DEF Typed, WidthsDivide
<1>3. ~hop.serdes => hop.src = hop.dst
  BY DEF Typed, WidthsDivide
<1>4. ASSUME NEW x \in Nat \ {0}, NEW y \in Nat \ {0}, x % y = 0
      PROVE  /\ CeilDiv(x, y) \in Nat \ {0} /\ x = CeilDiv(x, y) * y
             /\ x = y => CeilDiv(x, y) = 1
  <2> DEFINE q == x \div y
  <2>1. q \in Nat /\ x = q * y + (x % y)
    BY DivAndMod
  <2> HIDE DEF q
  <2>2. q * y \in Nat /\ (q - 1) * y = q * y - y
    BY <2>1
  <2>3. x = q * y
    BY <1>4, <2>1, <2>2
  <2>4. (q - 1) * y < x /\ x <= q * y
    BY <2>2, <2>3
  <2>5. CeilDiv(x, y) = q
    BY <2>1, <2>4, OnlyCeilDiv
  <2>6. q # 0
    BY <2>3
  <2>7. x = y => q = 1
    <3>1. ASSUME x = y PROVE q = 1
      <4>1. (1 - 1) * y < x /\ x <= 1 * y
        BY <3>1
      <4> QED
        BY <2>5, <4>1, OnlyCeilDiv
    <3> QED
      BY <3>1
  <2> QED
    BY <2>1, <2>3, <2>5, <2>6, <2>7
<1>5. CASE Joining
  <2>1. hop.src % hop.dst # 0
    BY <1>1, <1>5 DEF Joining
  <2>2. hop.dst % hop.src = 0
    BY <1>2, <2>1
  <2>3. CeilDiv(hop.dst, hop.src) \in Nat \ {0} /\ hop.dst = CeilDiv(hop.dst, hop.src) * hop.src
    BY <1>1, <1>4, <2>2
  <2>4. hop.serdes
    BY <1>1, <1>3, <1>5 DEF Joining
  <2> QED
    BY <1>1, <1>5, <2>3, <2>4 DEF Ratio
<1>6. CASE ~Joining
  <2>1. hop.dst % hop.src = 0 => hop.dst = hop.src
    BY <1>1, <1>6 DEF Joining
  <2>2. hop.src % hop.dst = 0
    BY <1>1, <1>2, <2>1
  <2>3. /\ CeilDiv(hop.src, hop.dst) \in Nat \ {0}
        /\ hop.src = CeilDiv(hop.src, hop.dst) * hop.dst
        /\ hop.src = hop.dst => CeilDiv(hop.src, hop.dst) = 1
    BY <1>1, <1>4, <2>2
  <2> QED
    BY <1>1, <1>3, <1>6, <2>3 DEF Ratio
<1> QED
  BY <1>5, <1>6

(* What the narrow flits of a packet add up to.                            *)
LEMMA UptoIsLadder ==
    ASSUME WidthsDivide, Typed, NEW s \in Nat
    PROVE  /\ Ladder(Upto(s), Wide(s), Narrow(s))
           /\ \A w \in Nat : w < Wide(s) => Upto(s)[w] = w * Ratio
           /\ \A w \in Nat : w < Wide(s) => Upto(s)[w + 1] <= w * Ratio + Ratio
           /\ AtSender(s) \in Nat /\ AtReceiver(s) \in Nat
           /\ s > 0 => AtSender(s) > 0 /\ AtReceiver(s) > 0
           /\ s = 0 => AtSender(s) = 0 /\ AtReceiver(s) = 0
<1> DEFINE r == Ratio
<1>1. /\ hop.src \in Nat \ {0} /\ hop.dst \in Nat \ {0} /\ r \in Nat \ {0}
      /\ Joining => hop.dst = r * hop.src
      /\ ~Joining => hop.src = r * hop.dst
  BY WidthsFit
<1> HIDE DEF r
<1>2. Narrow(s) \in Nat /\ Wide(s) \in Nat /\ AtSender(s) \in Nat /\ AtReceiver(s) \in Nat
  BY <1>1, CeilDivIs DEF Narrow, Wide, AtSender, AtReceiver
<1>3. (Wide(s) - 1) * r < Narrow(s) /\ Narrow(s) <= Wide(s) * r
  <2>1. CASE Joining
    BY <1>1, <2>1, WideHoldNarrow DEF Narrow, Wide, AtSender, AtReceiver
  <2>2. CASE ~Joining
    BY <1>1, <2>2, WideHoldNarrow DEF Narrow, Wide, AtSender, AtReceiver
  <2> QED
    BY <2>1, <2>2
<1>4. Upto(s) = [x \in Nat |-> IF x < Wide(s) THEN x * r ELSE Narrow(s)]
  BY DEF Upto, r
<1>5. Ladder(Upto(s), Wide(s), Narrow(s))
  BY <1>1, <1>2, <1>3, <1>4, LadderOfMultiples
<1>6. \A w \in Nat : w < Wide(s) => Upto(s)[w] = w * r
  BY <1>4
<1>7. ASSUME NEW w \in Nat, w < Wide(s) PROVE Upto(s)[w + 1] <= w * r + r
  <2>1. (w + 1) * r = w * r + r /\ w * r \in Nat
    BY <1>1
  <2>2. CASE w + 1 < Wide(s)
    BY <1>1, <1>4, <2>1, <2>2
  <2>3. CASE ~(w + 1 < Wide(s))
    <3>1. w + 1 = Wide(s)
      BY <1>2, <1>7, <2>3
    <3>2. Upto(s)[w + 1] = Narrow(s)
      BY <1>4, <3>1
    <3> QED
      BY <1>3, <2>1, <3>1, <3>2
  <2> QED
    BY <2>2, <2>3
<1>8. ASSUME NEW b \in Nat \ {0}
      PROVE  (s > 0 => CeilDiv(s, b) > 0) /\ (s = 0 => CeilDiv(s, b) = 0)
  <2>1. CeilDiv(s, b) \in Nat /\ s <= CeilDiv(s, b) * b
    BY CeilDivIs
  <2>2. CeilDiv(s, b) = 0 => s <= 0
    BY <2>1
  <2>3. s = 0 => CeilDiv(s, b) = 0
    <3>1. (0 - 1) * b < 0 /\ 0 <= 0 * b
      OBVIOUS
    <3> QED
      BY <3>1, OnlyCeilDiv
  <2> QED
    BY <2>1, <2>2, <2>3
<1> QED
  BY <1>1, <1>2, <1>5, <1>6, <1>7, <1>8 DEF AtSender, AtReceiver, r

-----------------------------------------------------------------------------
(* What a step leaves alone                                                *)

Same(g, h, v) ==
    /\ h.size[v] = g.size[v] /\ h.sent[v] = g.sent[v] /\ h.taken[v] = g.taken[v]
    /\ h.made[v] = g.made[v] /\ h.entered[v] = g.entered[v] /\ h.left[v] = g.left[v]
    /\ h.turned[v] = g.turned[v] /\ h.given[v] = g.given[v] /\ h.back[v] = g.back[v]

Untouched(v) ==
    /\ v \in leased' <=> v \in leased
    /\ packet'[v] = packet[v] /\ credits'[v] = credits[v]
    /\ sizeSent'[v] = sizeSent[v] /\ flitsSent'[v] = flitsSent[v]
    /\ inBuffer'[v] = inBuffer[v]
    /\ extraCredit'[v] = extraCredit[v] /\ lenBuffer'[v] = lenBuffer[v]

(* The hop stays, and with it every number that comes from its widths.     *)
LEMMA SameHop ==
    ASSUME hop' = hop
    PROVE  /\ Joining' <=> Joining
           /\ \A s : AtSender(s)' = AtSender(s) /\ AtReceiver(s)' = AtReceiver(s)
           /\ \A s : Upto(s)' = Upto(s) /\ Wide(s)' = Wide(s) /\ Narrow(s)' = Narrow(s)
           /\ \A s, n, w : Contain(s, n, w)' <=> Contain(s, n, w)
           /\ \A h : LastCredit(h)' = LastCredit(h) /\ LastReturn(h)' = LastReturn(h)
<1>1. Joining' <=> Joining
  BY DEF Joining
<1>2. ASSUME NEW s PROVE AtSender(s)' = AtSender(s) /\ AtReceiver(s)' = AtReceiver(s)
  BY DEF AtSender, AtReceiver
<1>3. ASSUME NEW s
      PROVE  Upto(s)' = Upto(s) /\ Wide(s)' = Wide(s) /\ Narrow(s)' = Narrow(s)
  BY <1>1, <1>2 DEF Upto, Wide, Narrow, Ratio
<1>4. ASSUME NEW s, NEW n, NEW w PROVE Contain(s, n, w)' <=> Contain(s, n, w)
  BY <1>3 DEF Contain
<1>5. ASSUME NEW h PROVE LastCredit(h)' = LastCredit(h) /\ LastReturn(h)' = LastReturn(h)
  BY <1>2 DEF LastCredit, LastReturn
<1> QED
  BY <1>1, <1>2, <1>3, <1>4, <1>5

(* Each part of what holds of a VC goes on while nothing of it changes.    *)
LEMMA NumbersStay ==
    ASSUME hop' = hop, NEW g, NEW h, NEW v \in VCs, Same(g, h, v), Ordered(g, v)
    PROVE  Ordered(h, v)'
BY SameHop DEF Same, Ordered

LEMMA SenderStays ==
    ASSUME hop' = hop, NEW g, NEW h, NEW v \in VCs, AtTheSender(g, v),
           h.size[v] = g.size[v], h.sent[v] = g.sent[v], h.back[v] = g.back[v],
           v \in leased' <=> v \in leased, packet'[v] = packet[v], credits'[v] = credits[v]
    PROVE  AtTheSender(h, v)'
BY SameHop DEF AtTheSender

LEMMA NetBridgeStays ==
    ASSUME hop' = hop, NEW g, NEW h, NEW v \in VCs, InNetBridge(g, v),
           h.size[v] = g.size[v], h.taken[v] = g.taken[v], h.made[v] = g.made[v],
           sizeSent'[v] = sizeSent[v], flitsSent'[v] = flitsSent[v]
    PROVE  InNetBridge(h, v)'
BY SameHop DEF InNetBridge

LEMMA CreditBridgeStays ==
    ASSUME hop' = hop, NEW g, NEW h, NEW v \in VCs, InCreditBridge(g, v),
           h.size[v] = g.size[v], h.taken[v] = g.taken[v], h.made[v] = g.made[v],
           h.turned[v] = g.turned[v], h.given[v] = g.given[v],
           extraCredit'[v] = extraCredit[v], lenBuffer'[v] = lenBuffer[v]
    PROVE  InCreditBridge(h, v)'
BY SameHop DEF InCreditBridge

LEMMA ReceiverStays ==
    ASSUME NEW g, NEW h, NEW v \in VCs, AtTheReceiver(g, v),
           h.size[v] = g.size[v], h.entered[v] = g.entered[v], h.left[v] = g.left[v],
           inBuffer'[v] = inBuffer[v]
    PROVE  AtTheReceiver(h, v)'
<1>1. FlitStream(h.size)[v] = FlitStream(g.size)[v]
  BY DEF FlitStream
<1> QED
  BY <1>1 DEF AtTheReceiver

LEMMA OtherVC ==
    ASSUME hop' = hop, NEW g, NEW h, NEW v \in VCs,
           Same(g, h, v), Untouched(v), OfVC(g, v)
    PROVE  OfVC(h, v)'
<1>1. Ordered(h, v)'
  BY NumbersStay DEF OfVC
<1>2. AtTheSender(h, v)'
  BY SenderStays DEF Same, Untouched, OfVC
<1>3. InNetBridge(h, v)'
  BY NetBridgeStays DEF Same, Untouched, OfVC
<1>4. InCreditBridge(h, v)'
  BY CreditBridgeStays DEF Same, Untouched, OfVC
<1>5. AtTheReceiver(h, v)'
  BY ReceiverStays DEF Same, Untouched, OfVC
<1> QED
  BY <1>1, <1>2, <1>3, <1>4, <1>5 DEF OfVC

(* A step is about one VC.                                                 *)
Elsewhere(g, h, v) == \A w \in VCs \ {v} : Same(g, h, w) /\ Untouched(w)

LEMMA OneVC ==
    ASSUME hop' = hop, NEW g, NEW h \in Counts, NEW v \in VCs, Tracks(g),
           Elsewhere(g, h, v), OnTheWay(h)', OfVC(h, v)'
    PROVE  \E x \in Counts : Tracks(x)'
<1>1. ASSUME NEW w \in VCs, w # v PROVE OfVC(h, w)'
  BY <1>1, OtherVC DEF Tracks, Elsewhere
<1>2. \A w \in VCs : OfVC(h, w)'
  BY <1>1
<1>3. Tracks(h)'
  BY <1>2 DEF Tracks
<1> QED
  BY <1>3

(* The numbers of each kind.                                               *)
LEMMA FieldsOf ==
    ASSUME NEW g \in Counts
    PROVE  /\ g.size \in Numbers /\ g.sent \in Numbers /\ g.taken \in Numbers
           /\ g.made \in Numbers /\ g.entered \in Numbers /\ g.left \in Numbers
           /\ g.turned \in Numbers /\ g.given \in Numbers /\ g.back \in Numbers
BY DEF Counts

LEMMA NumbersOf ==
    ASSUME NEW g \in Counts, NEW v \in VCs
    PROVE  /\ g.size[v] \in Nat /\ g.sent[v] \in Nat /\ g.taken[v] \in Nat
           /\ g.made[v] \in Nat /\ g.entered[v] \in Nat /\ g.left[v] \in Nat
           /\ g.turned[v] \in Nat /\ g.given[v] \in Nat /\ g.back[v] \in Nat
BY DEF Counts, Numbers

LEMMA NextNumber ==
    ASSUME NEW n \in Numbers, NEW v \in VCs
    PROVE  /\ [n EXCEPT ![v] = @ + 1] \in Numbers /\ [n EXCEPT ![v] = @ + 1][v] = n[v] + 1
           /\ n[v] \in Nat
BY DEF Numbers

(* The next entry of a wire leaves it, or joins it.                        *)
LEMMA WireTakes ==
    ASSUME NEW S, NEW q \in Seq(S), q # << >>, NEW from \in Numbers, NEW to \in Numbers,
           NEW item, CarriesAll(q, from, to, item), NEW v, v = Head(q).vc
    PROVE  /\ v \in VCs /\ from[v] < to[v] /\ Head(q) = item[v][from[v]]
           /\ [from EXCEPT ![v] = @ + 1] \in Numbers
           /\ CarriesAll(Tail(q), [from EXCEPT ![v] = @ + 1], to, item)
<1>1. from \in [VCs -> Nat] /\ to \in [VCs -> Nat]
  BY DEF Numbers
<1>2. LET w == Head(q).vc IN
      /\ w \in VCs /\ from[w] < to[w] /\ Head(q) = item[w][from[w]]
      /\ CarriesAll(Tail(q), [from EXCEPT ![w] = @ + 1], to, item)
  BY <1>1, CarriesTail
<1>3. v \in VCs /\ from[v] < to[v] /\ Head(q) = item[v][from[v]]
  BY <1>2
<1>4. CarriesAll(Tail(q), [from EXCEPT ![v] = @ + 1], to, item)
  BY <1>2
<1> QED
  BY <1>3, <1>4, NextNumber

LEMMA WireGets ==
    ASSUME NEW S, NEW q \in Seq(S), NEW x \in S, NEW from \in Numbers, NEW to \in Numbers,
           NEW item, CarriesAll(q, from, to, item), NEW v \in VCs, v = x.vc, x = item[v][to[v]]
    PROVE  /\ [to EXCEPT ![v] = @ + 1] \in Numbers
           /\ CarriesAll(Append(q, x), from, [to EXCEPT ![v] = @ + 1], item)
<1>1. from \in [VCs -> Nat] /\ to \in [VCs -> Nat]
  BY DEF Numbers
<1>2. CarriesAll(Append(q, x), from, [to EXCEPT ![v] = @ + 1], item)
  BY <1>1, CarriesAppend
<1> QED
  BY <1>2, NextNumber

-----------------------------------------------------------------------------
(* The steps                                                               *)

(* A flit enters the receiver.                                             *)
LEMMA ReceiveKeeps ==
    ASSUME WidthsDivide, Typed, NEW g \in Counts, Tracks(g), Receive
    PROVE  Typed' /\ \E h \in Counts : Tracks(h)'
<1> DEFINE f == Head(toReceiver)
<1>1. /\ toReceiver \in Seq(Flit) /\ toReceiver # << >> /\ inBuffer \in [VCs -> Seq(Flit)]
      /\ toReceiver' = Tail(toReceiver)
      /\ inBuffer' = [inBuffer EXCEPT ![f.vc] = Append(@, f)]
      /\ UNCHANGED <<hop, leased, packet, credits, toBridge, sizeSent, flitsSent,
                     toCreditBridge, extraCredit, lenBuffer, toSender>>
  BY DEF Receive, Typed, netVars, creditVars, senderVars
<1>2. f \in Flit /\ Tail(toReceiver) \in Seq(Flit)
  BY <1>1, TakeFrom
<1>3. /\ g.entered \in [VCs -> Nat] /\ g.made \in [VCs -> Nat]
      /\ g.left \in [VCs -> Nat] /\ g.size \in [VCs -> Nat]
  BY DEF Counts, Numbers
<1>4. CarriesAll(toReceiver, g.entered, g.made, FlitStream(g.size))
  BY DEF Tracks, OnTheWay
<1> HIDE DEF f
<1>v. PICK v \in VCs : v = f.vc
  BY <1>2 DEF Flit
<1>5. /\ g.entered[v] < g.made[v] /\ f = FlitStream(g.size)[v][g.entered[v]]
      /\ CarriesAll(Tail(toReceiver), [g.entered EXCEPT ![v] = @ + 1], g.made, FlitStream(g.size))
  BY <1>1, <1>4, <1>v, FieldsOf, WireTakes DEF f
<1>6. PICK h \in Counts :
        /\ h.entered = [g.entered EXCEPT ![v] = @ + 1]
        /\ h.size = g.size /\ h.sent = g.sent /\ h.taken = g.taken /\ h.made = g.made
        /\ h.left = g.left /\ h.turned = g.turned /\ h.given = g.given /\ h.back = g.back
  <2> DEFINE d == [g EXCEPT !.entered = [g.entered EXCEPT ![v] = @ + 1]]
  <2>1. d \in Counts
    <3>1. [g.entered EXCEPT ![v] = @ + 1] \in Numbers
      BY FieldsOf, NextNumber
    <3> QED
      BY <3>1 DEF Counts
  <2> QED
    BY <2>1 DEF Counts
<1>7. Typed'
  <2>1. inBuffer' \in [VCs -> Seq(Flit)]
    BY <1>1, <1>2, <1>v, AppendTo
  <2> QED
    BY <1>1, <1>2, <2>1 DEF Typed
<1>8. OnTheWay(h)'
  <2>1. LastCredit(h)' = LastCredit(g) /\ LastReturn(h)' = LastReturn(g)
    BY <1>1, <1>6, SameHop DEF LastCredit, LastReturn
  <2> QED
    BY <1>1, <1>5, <1>6, <2>1 DEF Tracks, OnTheWay
<1>9. OfVC(h, v)'
  <2>1. Ordered(g, v) /\ AtTheSender(g, v) /\ InNetBridge(g, v) /\ InCreditBridge(g, v)
        /\ AtTheReceiver(g, v)
    BY DEF Tracks, OfVC
  <2>2. Ordered(h, v)'
    <3>1. h.entered[v] = g.entered[v] + 1
      BY <1>3, <1>6
    <3>2. g.entered[v] + 1 <= g.made[v] /\ g.left[v] <= g.entered[v] + 1
      BY <1>5, <2>1, NumbersOf DEF Ordered
    <3>3. Ordered(h, v)
      BY <1>6, <2>1, <3>1, <3>2 DEF Ordered
    <3> QED
      BY <1>1, <3>3, NumbersStay DEF Same
  <2>3. AtTheSender(h, v)' /\ InNetBridge(h, v)' /\ InCreditBridge(h, v)'
    BY <1>1, <1>6, <1>v, <2>1, SenderStays, NetBridgeStays, CreditBridgeStays
  <2>4. AtTheReceiver(h, v)'
    <3> DEFINE b == inBuffer[v]
    <3>1. b \in Seq(Flit) /\ inBuffer'[v] = Append(b, f)
      BY <1>1, <1>v
    <3>2. /\ Len(b) \in Nat /\ Len(Append(b, f)) = Len(b) + 1
          /\ \A i \in 1 .. Len(b) : Append(b, f)[i] = b[i]
          /\ Append(b, f)[Len(b) + 1] = f
      BY <1>2, <3>1, AppendTo
    <3>3. /\ Len(b) = g.entered[v] - g.left[v]
          /\ \A i \in 1 .. Len(b) : b[i] = FlitStream(g.size)[v][g.left[v] + i - 1]
      BY <2>1 DEF AtTheReceiver
    <3> HIDE DEF b
    <3>4. g.left[v] + (Len(b) + 1) - 1 = g.entered[v] /\ g.left[v] \in Nat /\ g.entered[v] \in Nat
      BY <1>2, <1>3, <3>2, <3>3
    <3>5. h.entered[v] = g.entered[v] + 1
      BY <1>2, <1>3, <1>6
    <3>6. ASSUME NEW i \in 1 .. Len(b) + 1
          PROVE  Append(b, f)[i] = FlitStream(g.size)[v][g.left[v] + i - 1]
      <4>1. CASE i \in 1 .. Len(b)
        BY <3>2, <3>3, <4>1
      <4>2. CASE i = Len(b) + 1
        BY <1>5, <3>2, <3>4, <4>2
      <4> QED
        BY <3>2, <4>1, <4>2
    <3>7. Len(b) + 1 = h.entered[v] - h.left[v]
      BY <1>6, <3>2, <3>3, <3>4, <3>5
    <3> QED
      BY <1>6, <3>1, <3>2, <3>6, <3>7 DEF AtTheReceiver
  <2> QED
    BY <2>2, <2>3, <2>4 DEF OfVC
<1>10. Elsewhere(g, h, v)
  BY <1>1, <1>3, <1>6, <1>v DEF Elsewhere, Same, Untouched
<1> QED
  BY <1>1, <1>7, <1>8, <1>9, <1>10, OneVC

(* A flit leaves the receiver and its credit starts back.                  *)
LEMMA ReturnCreditKeeps ==
    ASSUME WidthsDivide, Typed, NEW g \in Counts, Tracks(g), NEW v \in VCs, ReturnCredit(v)
    PROVE  Typed' /\ \E h \in Counts : Tracks(h)'
<1> DEFINE b == inBuffer[v]
           c == [vc |-> v, free |-> IsTail(Head(b), hop.dst)]
           s == g.size[v]
           n == g.left[v]
           stream == CreditStream(LastCredit(g))
<1>1. /\ toCreditBridge \in Seq(Credit) /\ inBuffer \in [VCs -> Seq(Flit)] /\ b # << >>
      /\ toCreditBridge' = Append(toCreditBridge, c)
      /\ inBuffer' = [inBuffer EXCEPT ![v] = Tail(b)]
      /\ UNCHANGED <<hop, leased, packet, credits, toBridge, sizeSent, flitsSent,
                     toReceiver, extraCredit, lenBuffer, toSender>>
  BY DEF ReturnCredit, Typed, netVars, creditVars, senderVars
<1>2. /\ b \in Seq(Flit) /\ Len(b) \in Nat \ {0} /\ Tail(b) \in Seq(Flit)
      /\ Len(Tail(b)) = Len(b) - 1 /\ Head(b) = b[1]
      /\ \A i \in 1 .. Len(b) - 1 : Tail(b)[i] = b[i + 1]
  <2>1. b \in Seq(Flit)
    BY <1>1
  <2> QED
    BY <1>1, <2>1, TakeFrom
<1>3. /\ g.left \in [VCs -> Nat] /\ g.entered \in [VCs -> Nat]
      /\ s \in Nat /\ n \in Nat /\ g.entered[v] \in Nat
  BY DEF Counts, Numbers
<1>4. /\ Ordered(g, v) /\ AtTheSender(g, v) /\ InNetBridge(g, v) /\ InCreditBridge(g, v)
      /\ AtTheReceiver(g, v)
  BY DEF Tracks, OfVC
<1>5. /\ Len(b) = g.entered[v] - n
      /\ \A i \in 1 .. Len(b) : b[i] = FlitStream(g.size)[v][n + i - 1]
  BY <1>4 DEF AtTheReceiver
<1> HIDE DEF b
<1>6. Head(b) = [vc |-> v, id |-> n, size |-> s]
  <2>1. b[1] = FlitStream(g.size)[v][n]
    BY <1>2, <1>3, <1>5
  <2> QED
    BY <1>2, <1>3, <2>1 DEF FlitStream
<1>7. c = stream[v][n] /\ c \in Credit
  <2>1. IsTail(Head(b), hop.dst) <=> n = AtReceiver(s) - 1
    BY <1>6 DEF IsTail, FlitsAt, AtReceiver
  <2>2. AtReceiver(s) \in Nat
    BY <1>3, UptoIsLadder
  <2>3. IsTail(Head(b), hop.dst) <=> n + 1 = AtReceiver(s)
    BY <1>3, <2>1, <2>2
  <2>4. stream[v][n] = [vc |-> v, free |-> n + 1 = AtReceiver(s)]
    BY <1>3 DEF CreditStream, LastCredit
  <2>5. IsTail(Head(b), hop.dst) \in BOOLEAN
    BY DEF IsTail
  <2> QED
    BY <2>3, <2>4, <2>5 DEF Credit
<1>8. CarriesAll(toCreditBridge, g.turned, g.left, stream)
  BY DEF Tracks, OnTheWay
<1>v. v = c.vc
  OBVIOUS
<1> HIDE DEF c, stream
<1>9. CarriesAll(Append(toCreditBridge, c), g.turned, [g.left EXCEPT ![v] = @ + 1], stream)
  BY <1>1, <1>7, <1>8, <1>v, FieldsOf, WireGets
<1>10. PICK h \in Counts :
        /\ h.left = [g.left EXCEPT ![v] = @ + 1]
        /\ h.size = g.size /\ h.sent = g.sent /\ h.taken = g.taken /\ h.made = g.made
        /\ h.entered = g.entered /\ h.turned = g.turned /\ h.given = g.given /\ h.back = g.back
  <2> DEFINE d == [g EXCEPT !.left = [g.left EXCEPT ![v] = @ + 1]]
  <2>1. d \in Counts
    <3>1. [g.left EXCEPT ![v] = @ + 1] \in Numbers
      BY FieldsOf, NextNumber
    <3> QED
      BY <3>1 DEF Counts
  <2> QED
    BY <2>1 DEF Counts
<1>11. Typed'
  <2>1. inBuffer' \in [VCs -> Seq(Flit)]
    BY <1>1, <1>2
  <2>2. toCreditBridge' \in Seq(Credit)
    BY <1>1, <1>7, AppendTo
  <2> QED
    BY <1>1, <2>1, <2>2 DEF Typed
<1>12. OnTheWay(h)'
  <2>1. LastCredit(h)' = LastCredit(g) /\ LastReturn(h)' = LastReturn(g)
    BY <1>1, <1>10, SameHop DEF LastCredit, LastReturn
  <2> QED
    BY <1>1, <1>9, <1>10, <2>1 DEF Tracks, OnTheWay, stream
<1>13. OfVC(h, v)'
  <2>1. h.left[v] = n + 1
    BY <1>3, <1>10
  <2>2. n < g.entered[v]
    BY <1>2, <1>3, <1>5
  <2>3. Ordered(h, v)'
    <3>1. g.turned[v] <= n + 1 /\ n + 1 <= g.entered[v]
      BY <1>3, <1>4, <2>2, NumbersOf DEF Ordered
    <3>2. Ordered(h, v)
      BY <1>4, <1>10, <2>1, <3>1 DEF Ordered
    <3> QED
      BY <1>1, <3>2, NumbersStay DEF Same
  <2>4. AtTheSender(h, v)' /\ InNetBridge(h, v)' /\ InCreditBridge(h, v)'
    BY <1>1, <1>4, <1>10, SenderStays, NetBridgeStays, CreditBridgeStays
  <2>5. AtTheReceiver(h, v)'
    <3>1. inBuffer'[v] = Tail(b)
      BY <1>1
    <3>2. Len(Tail(b)) = h.entered[v] - h.left[v]
      BY <1>2, <1>3, <1>5, <1>10, <2>1
    <3>3. ASSUME NEW i \in 1 .. Len(b) - 1
          PROVE  Tail(b)[i] = FlitStream(g.size)[v][(n + 1) + i - 1]
      <4>1. i + 1 \in 1 .. Len(b) /\ n + (i + 1) - 1 = (n + 1) + i - 1
        BY <1>2, <1>3
      <4> QED
        BY <1>2, <1>5, <4>1
    <3> HIDE DEF n
    <3> QED
      BY <1>2, <1>10, <2>1, <3>1, <3>2, <3>3 DEF AtTheReceiver
  <2> QED
    BY <2>3, <2>4, <2>5 DEF OfVC
<1>14. Elsewhere(g, h, v)
  BY <1>1, <1>3, <1>10 DEF Elsewhere, Same, Untouched
<1> QED
  BY <1>1, <1>11, <1>12, <1>13, <1>14, OneVC

(* A VC without a packet has nothing anywhere.                             *)
LEMMA NoPacketNoNumbers ==
    ASSUME WidthsDivide, Typed, NEW g \in Counts, NEW v \in VCs, Ordered(g, v), g.size[v] = 0
    PROVE  /\ g.sent[v] = 0 /\ g.taken[v] = 0 /\ g.made[v] = 0 /\ g.entered[v] = 0
           /\ g.left[v] = 0 /\ g.turned[v] = 0 /\ g.given[v] = 0 /\ g.back[v] = 0
<1>1. AtSender(0) = 0 /\ AtReceiver(0) = 0 /\ Upto(0)[0] = 0
  BY UptoIsLadder DEF Ladder
<1> QED
  BY <1>1, NumbersOf DEF Ordered

(* A VC that has nothing on a wire may start with other items.             *)
LEMMA WireForgets ==
    ASSUME NEW S, NEW q \in Seq(S), NEW from \in Numbers, NEW to \in Numbers,
           NEW T, NEW item \in [VCs -> T], CarriesAll(q, from, to, item),
           NEW v \in VCs, from[v] = to[v], NEW n \in Nat, NEW x
    PROVE  CarriesAll(q, [from EXCEPT ![v] = n], [to EXCEPT ![v] = n], [item EXCEPT ![v] = x])
<1> DEFINE a == [from EXCEPT ![v] = n]
           b == [to EXCEPT ![v] = n]
           i == [item EXCEPT ![v] = x]
<1>1. from \in [VCs -> Nat] /\ to \in [VCs -> Nat] /\ a \in [VCs -> Nat] /\ b \in [VCs -> Nat]
  BY DEF Numbers
<1>2. Agree(VCs, from, to, item, a, b, i)
  BY <1>1 DEF Agree
<1> HIDE DEF a, b, i
<1>3. CarriesAll(q, a, b, i)
  BY <1>1, <1>2, CarriesOther
<1> QED
  BY <1>3 DEF a, b, i

(* The streams of another packet on VC v.                                  *)
LEMMA StreamsOfPacket ==
    ASSUME NEW size \in Numbers, NEW v \in VCs, NEW s \in Nat
    PROVE  /\ FlitStream(size) \in [VCs -> {FlitStream(size)[w] : w \in VCs}]
           /\ CreditStream(size) \in [VCs -> {CreditStream(size)[w] : w \in VCs}]
           /\ FlitStream([size EXCEPT ![v] = s]) =
                [FlitStream(size) EXCEPT ![v] = FlitStream([size EXCEPT ![v] = s])[v]]
           /\ CreditStream([size EXCEPT ![v] = s]) =
                [CreditStream(size) EXCEPT ![v] = CreditStream([size EXCEPT ![v] = s])[v]]
<1> DEFINE z == [size EXCEPT ![v] = s]
<1>1. \A w \in VCs : w # v => z[w] = size[w]
  BY DEF Numbers
<1> HIDE DEF z
<1>2. FlitStream(size) \in [VCs -> {FlitStream(size)[w] : w \in VCs}]
  BY DEF FlitStream
<1>3. CreditStream(size) \in [VCs -> {CreditStream(size)[w] : w \in VCs}]
  BY DEF CreditStream
<1>4. FlitStream(z) = [FlitStream(size) EXCEPT ![v] = FlitStream(z)[v]]
  <2>1. \A w \in VCs : w # v => FlitStream(z)[w] = FlitStream(size)[w]
    BY <1>1 DEF FlitStream
  <2>2. DOMAIN FlitStream(z) = VCs /\ DOMAIN FlitStream(size) = VCs
    BY DEF FlitStream
  <2>3. FlitStream(z) = [w \in VCs |-> FlitStream(z)[w]]
    BY DEF FlitStream
  <2> QED
    BY <2>1, <2>2, <2>3
<1>5. CreditStream(z) = [CreditStream(size) EXCEPT ![v] = CreditStream(z)[v]]
  <2>1. \A w \in VCs : w # v => CreditStream(z)[w] = CreditStream(size)[w]
    BY <1>1 DEF CreditStream
  <2>2. DOMAIN CreditStream(z) = VCs /\ DOMAIN CreditStream(size) = VCs
    BY DEF CreditStream
  <2>3. CreditStream(z) = [w \in VCs |-> CreditStream(z)[w]]
    BY DEF CreditStream
  <2> QED
    BY <2>1, <2>2, <2>3
<1> QED
  BY <1>2, <1>3, <1>4, <1>5 DEF z

(* Then the account of the wire starts from 0 with the next packet.        *)
LEMMA FlitsStartOver ==
    ASSUME NEW S, NEW q \in Seq(S), NEW from \in Numbers, NEW to \in Numbers,
           NEW size \in Numbers, CarriesAll(q, from, to, FlitStream(size)),
           NEW v \in VCs, from[v] = to[v], NEW s \in Nat
    PROVE  CarriesAll(q, [from EXCEPT ![v] = 0], [to EXCEPT ![v] = 0],
                   FlitStream([size EXCEPT ![v] = s]))
<1> DEFINE item == FlitStream(size)
           x == FlitStream([size EXCEPT ![v] = s])[v]
<1>1. item \in [VCs -> {item[w] : w \in VCs}]
  BY StreamsOfPacket
<1>2. CarriesAll(q, from, to, item)
  OBVIOUS
<1>3. FlitStream([size EXCEPT ![v] = s]) = [item EXCEPT ![v] = x]
  BY StreamsOfPacket
<1> HIDE DEF item, x
<1>4. CarriesAll(q, [from EXCEPT ![v] = 0], [to EXCEPT ![v] = 0], [item EXCEPT ![v] = x])
  BY <1>1, <1>2, WireForgets
<1> QED
  BY <1>3, <1>4

LEMMA CreditsStartOver ==
    ASSUME NEW S, NEW q \in Seq(S), NEW from \in Numbers, NEW to \in Numbers,
           NEW last \in Numbers, CarriesAll(q, from, to, CreditStream(last)),
           NEW v \in VCs, from[v] = to[v], NEW s \in Nat
    PROVE  CarriesAll(q, [from EXCEPT ![v] = 0], [to EXCEPT ![v] = 0],
                   CreditStream([last EXCEPT ![v] = s]))
<1> DEFINE item == CreditStream(last)
           x == CreditStream([last EXCEPT ![v] = s])[v]
<1>1. item \in [VCs -> {item[w] : w \in VCs}]
  BY StreamsOfPacket
<1>2. CarriesAll(q, from, to, item)
  OBVIOUS
<1>3. CreditStream([last EXCEPT ![v] = s]) = [item EXCEPT ![v] = x]
  BY StreamsOfPacket
<1> HIDE DEF item, x
<1>4. CarriesAll(q, [from EXCEPT ![v] = 0], [to EXCEPT ![v] = 0], [item EXCEPT ![v] = x])
  BY <1>1, <1>2, WireForgets
<1> QED
  BY <1>3, <1>4

(* The number of credits of a packet, as the streams have it.              *)
LEMMA LastNumbers ==
    ASSUME WidthsDivide, Typed, NEW g \in Counts
    PROVE  LastCredit(g) \in Numbers /\ LastReturn(g) \in Numbers
<1>1. \A s \in Nat : AtSender(s) \in Nat /\ AtReceiver(s) \in Nat
  BY UptoIsLadder
<1>2. g.size \in [VCs -> Nat]
  BY DEF Counts, Numbers
<1> QED
  BY <1>1, <1>2 DEF LastCredit, LastReturn, Numbers

LEMMA LastNumbersOf ==
    ASSUME NEW g \in Counts, NEW h, NEW v \in VCs, NEW s,
           h.size = [g.size EXCEPT ![v] = s]
    PROVE  /\ LastCredit(h) = [LastCredit(g) EXCEPT ![v] = AtReceiver(s)]
           /\ LastReturn(h) = [LastReturn(g) EXCEPT ![v] = AtSender(s)]
<1>1. g.size \in [VCs -> Nat]
  BY DEF Counts, Numbers
<1> QED
  BY <1>1 DEF LastCredit, LastReturn

(* An IDLE_ VC gets a packet.                                              *)
LEMMA LeaseKeeps ==
    ASSUME WidthsDivide, Typed, NEW g \in Counts, Tracks(g),
           NEW v \in VCs, NEW s \in Sizes, Lease(v, s)
    PROVE  Typed' /\ \E h \in Counts : Tracks(h)'
<1>1. /\ v \notin leased /\ leased' = leased \cup {v}
      /\ packet \in [VCs -> [size : Nat, sent : Nat]]
      /\ packet' = [packet EXCEPT ![v] = [size |-> s, sent |-> 0]]
      /\ UNCHANGED <<hop, credits, toBridge, sizeSent, flitsSent, toReceiver, inBuffer,
                     toCreditBridge, extraCredit, lenBuffer, toSender>>
  BY DEF Lease, Typed, netVars, creditVars
<1>2. s \in Nat /\ s > 0
  BY SizesAssumption
<1>3. /\ Ordered(g, v) /\ AtTheSender(g, v) /\ InNetBridge(g, v) /\ InCreditBridge(g, v)
      /\ AtTheReceiver(g, v)
  BY DEF Tracks, OfVC
<1>4. g.size[v] = 0
  BY <1>1, <1>3, NumbersOf DEF AtTheSender
<1>5. /\ g.sent[v] = 0 /\ g.taken[v] = 0 /\ g.made[v] = 0 /\ g.entered[v] = 0
      /\ g.left[v] = 0 /\ g.turned[v] = 0 /\ g.given[v] = 0 /\ g.back[v] = 0
  BY <1>3, <1>4, NoPacketNoNumbers
<1>6. PICK h \in Counts :
        /\ h.size = [g.size EXCEPT ![v] = s]
        /\ h.sent = g.sent /\ h.taken = g.taken /\ h.made = g.made /\ h.entered = g.entered
        /\ h.left = g.left /\ h.turned = g.turned /\ h.given = g.given /\ h.back = g.back
  <2> DEFINE d == [g EXCEPT !.size = [g.size EXCEPT ![v] = s]]
  <2>1. d \in Counts
    BY <1>2 DEF Counts, Numbers
  <2> QED
    BY <2>1 DEF Counts
<1>7. Typed'
  BY <1>1, <1>2 DEF Typed
<1>8. OnTheWay(h)'
  <2>1. \A n \in Numbers : n[v] = 0 => [n EXCEPT ![v] = 0] = n
    BY DEF Numbers
  <2>2. OnTheWay(g) /\ toBridge \in Seq(Flit) /\ toReceiver \in Seq(Flit)
        /\ toCreditBridge \in Seq(Credit) /\ toSender \in Seq(Credit)
    BY DEF Tracks, Typed
  <2>3. /\ CarriesAll(toBridge, [g.taken EXCEPT ![v] = 0], [g.sent EXCEPT ![v] = 0],
                   FlitStream([g.size EXCEPT ![v] = s]))
        /\ CarriesAll(toReceiver, [g.entered EXCEPT ![v] = 0], [g.made EXCEPT ![v] = 0],
                   FlitStream([g.size EXCEPT ![v] = s]))
    BY <1>2, <1>5, <2>2, FieldsOf, FlitsStartOver DEF OnTheWay
  <2>4. AtSender(s) \in Nat /\ AtReceiver(s) \in Nat
    BY <1>2, UptoIsLadder
  <2>5. LastCredit(g) \in Numbers /\ LastReturn(g) \in Numbers
    BY LastNumbers
  <2>6. /\ CarriesAll(toCreditBridge, [g.turned EXCEPT ![v] = 0], [g.left EXCEPT ![v] = 0],
                   CreditStream([LastCredit(g) EXCEPT ![v] = AtReceiver(s)]))
        /\ CarriesAll(toSender, [g.back EXCEPT ![v] = 0], [g.given EXCEPT ![v] = 0],
                   CreditStream([LastReturn(g) EXCEPT ![v] = AtSender(s)]))
    BY <1>5, <2>2, <2>4, <2>5, FieldsOf, CreditsStartOver DEF OnTheWay
  <2>7. /\ LastCredit(h) = [LastCredit(g) EXCEPT ![v] = AtReceiver(s)]
        /\ LastReturn(h) = [LastReturn(g) EXCEPT ![v] = AtSender(s)]
    BY <1>6, LastNumbersOf
  <2>8. LastCredit(h)' = LastCredit(h) /\ LastReturn(h)' = LastReturn(h)
    BY <1>1, SameHop
  <2>9. /\ [g.taken EXCEPT ![v] = 0] = h.taken /\ [g.sent EXCEPT ![v] = 0] = h.sent
        /\ [g.entered EXCEPT ![v] = 0] = h.entered /\ [g.made EXCEPT ![v] = 0] = h.made
        /\ [g.turned EXCEPT ![v] = 0] = h.turned /\ [g.left EXCEPT ![v] = 0] = h.left
        /\ [g.back EXCEPT ![v] = 0] = h.back /\ [g.given EXCEPT ![v] = 0] = h.given
    BY <1>5, <1>6, <2>1, FieldsOf
  <2> QED
    BY <1>1, <1>6, <2>3, <2>6, <2>7, <2>8, <2>9 DEF OnTheWay
<1>9. OfVC(h, v)'
  <2>1. h.size[v] = s
    BY <1>6, FieldsOf DEF Numbers
  <2>2. /\ Ladder(Upto(s), Wide(s), Narrow(s)) /\ AtSender(s) \in Nat /\ AtReceiver(s) \in Nat
        /\ AtSender(s) > 0 /\ AtReceiver(s) > 0
    BY <1>2, UptoIsLadder
  <2>3. Contain(s, 0, 0) /\ Upto(s)[0] = 0
    BY <2>2, 0 + 1 = 1 DEF Contain, Ladder
  <2>4. Ordered(h, v)'
    BY <1>1, <1>5, <1>6, <2>1, <2>2, <2>3, SameHop DEF Ordered
  <2>5. AtTheSender(h, v)'
    BY <1>1, <1>2, <1>3, <1>4, <1>5, <1>6, <2>1, <2>2, SameHop DEF AtTheSender
  <2>6. InNetBridge(h, v)'
    <3>1. sizeSent[v] = 0 /\ flitsSent[v] = 0
      <4>1. AtSender(0) = 0
        BY UptoIsLadder
      <4> QED
        BY <1>3, <1>4, <1>5, <4>1 DEF InNetBridge
    <3>2. hop.dst \in Nat
      BY WidthsFit
    <3> QED
      BY <1>1, <1>5, <1>6, <2>1, <2>3, <3>1, <3>2, SameHop DEF InNetBridge
  <2>7. InCreditBridge(h, v)'
    <3>1. Upto(0)[0] = 0
      BY UptoIsLadder DEF Ladder
    <3>2. Len(extraCredit[v]) = 0 /\ lenBuffer[v] = 0
      BY <1>3, <1>4, <1>5, <3>1 DEF InCreditBridge, Entries
    <3> QED
      BY <1>1, <1>5, <1>6, <2>1, <2>3, <3>2, SameHop DEF InCreditBridge, Entries
  <2>8. AtTheReceiver(h, v)'
    <3>1. Len(inBuffer[v]) = 0
      BY <1>3, <1>5 DEF AtTheReceiver
    <3> QED
      BY <1>1, <1>5, <1>6, <3>1 DEF AtTheReceiver
  <2> QED
    BY <2>4, <2>5, <2>6, <2>7, <2>8 DEF OfVC
<1>10. Elsewhere(g, h, v)
  BY <1>1, <1>6, FieldsOf DEF Elsewhere, Same, Untouched, Numbers
<1> QED
  BY <1>1, <1>7, <1>8, <1>9, <1>10, OneVC

(* The next flit of a packet leaves the sender.                            *)
LEMMA SendFlitKeeps ==
    ASSUME WidthsDivide, Typed, NEW g \in Counts, Tracks(g), NEW v \in VCs, SendFlit(v)
    PROVE  Typed' /\ \E h \in Counts : Tracks(h)'
<1> DEFINE f == [vc |-> v, id |-> packet[v].sent, size |-> packet[v].size]
           s == g.size[v]
           n == g.sent[v]
<1>1. /\ packet[v] # None /\ packet \in [VCs -> [size : Nat, sent : Nat]]
      /\ credits \in [VCs -> Int] /\ toBridge \in Seq(Flit)
      /\ credits' = [credits EXCEPT ![v] = @ - 1]
      /\ packet' = [packet EXCEPT ![v] =
           IF IsTail(f, hop.src) THEN None ELSE [size |-> f.size, sent |-> f.id + 1]]
      /\ toBridge' = Append(toBridge, f)
      /\ UNCHANGED <<hop, leased, sizeSent, flitsSent, toReceiver, inBuffer,
                     toCreditBridge, extraCredit, lenBuffer, toSender>>
  BY DEF SendFlit, Typed, netVars, creditVars
<1>2. /\ Ordered(g, v) /\ AtTheSender(g, v) /\ InNetBridge(g, v) /\ InCreditBridge(g, v)
      /\ AtTheReceiver(g, v)
  BY DEF Tracks, OfVC
<1>3. s \in Nat /\ n \in Nat /\ AtSender(s) \in Nat
  BY NumbersOf, UptoIsLadder
<1>4. n < AtSender(s) /\ packet[v] = [size |-> s, sent |-> n]
  BY <1>1, <1>2 DEF AtTheSender
<1>5. f = [vc |-> v, id |-> n, size |-> s] /\ f \in Flit
  BY <1>3, <1>4 DEF Flit
<1>6. f = FlitStream(g.size)[v][n]
  BY <1>3, <1>5 DEF FlitStream
<1>7. IsTail(f, hop.src) <=> n + 1 = AtSender(s)
  <2>1. IsTail(f, hop.src) <=> n = AtSender(s) - 1
    BY <1>5 DEF IsTail, FlitsAt, AtSender
  <2> QED
    BY <1>3, <2>1
<1>8. v = f.vc
  OBVIOUS
<1>9. CarriesAll(Append(toBridge, f), g.taken, [g.sent EXCEPT ![v] = @ + 1], FlitStream(g.size))
  <2>1. CarriesAll(toBridge, g.taken, g.sent, FlitStream(g.size))
    BY DEF Tracks, OnTheWay
  <2> HIDE DEF f
  <2> QED
    BY <1>1, <1>5, <1>6, <1>8, <2>1, FieldsOf, WireGets
<1>10. PICK h \in Counts :
        /\ h.sent = [g.sent EXCEPT ![v] = @ + 1]
        /\ h.size = g.size /\ h.taken = g.taken /\ h.made = g.made /\ h.entered = g.entered
        /\ h.left = g.left /\ h.turned = g.turned /\ h.given = g.given /\ h.back = g.back
  <2> DEFINE d == [g EXCEPT !.sent = [g.sent EXCEPT ![v] = @ + 1]]
  <2>1. d \in Counts
    <3>1. [g.sent EXCEPT ![v] = @ + 1] \in Numbers
      BY FieldsOf, NextNumber
    <3> QED
      BY <3>1 DEF Counts
  <2> QED
    BY <2>1 DEF Counts
<1>11. h.sent[v] = n + 1
  BY <1>10, FieldsOf, NextNumber
<1>12. packet'[v] = IF n + 1 < AtSender(s) THEN [size |-> s, sent |-> n + 1] ELSE None
  <2>1. f.size = s /\ f.id + 1 = n + 1
    BY <1>5
  <2>2. IsTail(f, hop.src) <=> ~(n + 1 < AtSender(s))
    BY <1>3, <1>4, <1>7
  <2> HIDE DEF f
  <2> QED
    BY <1>1, <2>1, <2>2
<1> HIDE DEF f
<1>13. Typed'
  <2>1. toBridge' \in Seq(Flit)
    BY <1>1, <1>5, AppendTo
  <2>2. packet' \in [VCs -> [size : Nat, sent : Nat]]
    <3>1. None \in [size : Nat, sent : Nat]
      BY DEF None
    <3>2. packet'[v] \in [size : Nat, sent : Nat]
      BY <1>3, <1>12, <3>1
    <3> QED
      BY <1>1, <3>2
  <2>3. credits' \in [VCs -> Int]
    BY <1>1
  <2> QED
    BY <1>1, <2>1, <2>2, <2>3 DEF Typed
<1>14. OnTheWay(h)'
  <2>1. LastCredit(h)' = LastCredit(g) /\ LastReturn(h)' = LastReturn(g)
    BY <1>1, <1>10, SameHop DEF LastCredit, LastReturn
  <2> QED
    BY <1>1, <1>9, <1>10, <2>1 DEF Tracks, OnTheWay
<1>15. OfVC(h, v)'
  <2>1. Ordered(h, v)'
    <3>1. g.taken[v] <= n + 1 /\ n + 1 <= AtSender(s)
      BY <1>2, <1>3, <1>4, NumbersOf DEF Ordered
    <3>2. Ordered(h, v)
      BY <1>2, <1>10, <1>11, <3>1 DEF Ordered
    <3> QED
      BY <1>1, <3>2, NumbersStay DEF Same
  <2>2. AtTheSender(h, v)'
    <3>1. credits'[v] = credits[v] - 1 /\ credits[v] = hop.depth - n + g.back[v]
      BY <1>1, <1>2 DEF AtTheSender
    <3>2. hop.depth \in Int /\ g.back[v] \in Int
      BY NumbersOf, WidthsFit
    <3>3. credits'[v] = hop.depth - (n + 1) + g.back[v]
      BY <1>3, <3>1, <3>2
    <3>4. v \in leased <=> s > 0
      BY <1>2 DEF AtTheSender
    <3> QED
      BY <1>1, <1>10, <1>11, <1>12, <3>3, <3>4, SameHop DEF AtTheSender
  <2>3. InNetBridge(h, v)' /\ InCreditBridge(h, v)' /\ AtTheReceiver(h, v)'
    BY <1>1, <1>2, <1>10, NetBridgeStays, CreditBridgeStays, ReceiverStays
  <2> QED
    BY <2>1, <2>2, <2>3 DEF OfVC
<1>16. Elsewhere(g, h, v)
  <2>1. ASSUME NEW w \in VCs, w # v PROVE Same(g, h, w)
    BY <1>10, <2>1, FieldsOf DEF Same, Numbers
  <2>2. ASSUME NEW w \in VCs, w # v PROVE Untouched(w)
    BY <1>1, <2>2 DEF Untouched
  <2> QED
    BY <2>1, <2>2 DEF Elsewhere
<1> QED
  BY <1>1, <1>13, <1>14, <1>15, <1>16, OneVC

(* A hop without SerDes has as many flits on either side.                  *)
LEMMA PlainCounts ==
    ASSUME WidthsDivide, Typed, ~hop.serdes, NEW s \in Nat
    PROVE  /\ ~Joining
           /\ AtSender(s) \in Nat /\ AtReceiver(s) = AtSender(s) /\ Wide(s) = AtSender(s)
           /\ \A w \in Nat : w <= AtSender(s) => Upto(s)[w] = w
<1>1. ~Joining /\ Ratio = 1 /\ hop.src = hop.dst
  BY WidthsFit DEF Joining
<1>2. AtReceiver(s) = AtSender(s) /\ Wide(s) = AtSender(s) /\ Narrow(s) = AtSender(s)
  BY <1>1 DEF AtReceiver, AtSender, Wide, Narrow
<1>3. AtSender(s) \in Nat
  BY UptoIsLadder
<1>4. ASSUME NEW w \in Nat, w <= AtSender(s) PROVE Upto(s)[w] = w
  <2>1. Upto(s)[w] = IF w < AtSender(s) THEN w * 1 ELSE AtSender(s)
    BY <1>1, <1>2 DEF Upto
  <2>2. w * 1 = w
    OBVIOUS
  <2> QED
    BY <1>3, <1>4, <2>1, <2>2
<1> QED
  BY <1>1, <1>2, <1>3, <1>4

(* A flit passes the net bridge.                                           *)
LEMMA PassFlitKeeps ==
    ASSUME WidthsDivide, Typed, NEW g \in Counts, Tracks(g), PassFlit
    PROVE  Typed' /\ \E h \in Counts : Tracks(h)'
<1> DEFINE f == Head(toBridge)
<1>1. /\ ~hop.serdes /\ toBridge # << >> /\ toBridge \in Seq(Flit) /\ toReceiver \in Seq(Flit)
      /\ toReceiver' = Append(toReceiver, f) /\ toBridge' = Tail(toBridge)
      /\ UNCHANGED <<hop, leased, packet, credits, sizeSent, flitsSent, inBuffer,
                     toCreditBridge, extraCredit, lenBuffer, toSender>>
  BY DEF PassFlit, Typed, netVars, creditVars, senderVars
<1>2. f \in Flit /\ Tail(toBridge) \in Seq(Flit)
  BY <1>1, TakeFrom
<1> HIDE DEF f
<1>v. PICK v \in VCs : v = f.vc
  BY <1>2 DEF Flit
<1> DEFINE s == g.size[v]
<1>3. /\ Ordered(g, v) /\ AtTheSender(g, v) /\ InNetBridge(g, v) /\ InCreditBridge(g, v)
      /\ AtTheReceiver(g, v)
  BY DEF Tracks, OfVC
<1>4. /\ CarriesAll(toBridge, g.taken, g.sent, FlitStream(g.size))
      /\ CarriesAll(toReceiver, g.entered, g.made, FlitStream(g.size))
  BY DEF Tracks, OnTheWay
<1>5. /\ g.taken[v] < g.sent[v] /\ f = FlitStream(g.size)[v][g.taken[v]]
      /\ CarriesAll(Tail(toBridge), [g.taken EXCEPT ![v] = @ + 1], g.sent, FlitStream(g.size))
  BY <1>1, <1>4, <1>v, FieldsOf, WireTakes DEF f
<1>6. /\ s \in Nat /\ ~Joining /\ AtSender(s) \in Nat /\ AtReceiver(s) = AtSender(s)
      /\ Wide(s) = AtSender(s) /\ \A w \in Nat : w <= AtSender(s) => Upto(s)[w] = w
  <2>1. s \in Nat
    BY NumbersOf
  <2> QED
    BY <1>1, <2>1, PlainCounts
<1>7. g.made[v] = g.taken[v] /\ g.taken[v] + 1 <= AtSender(s)
  <2>1. g.taken[v] + 1 <= AtSender(s) /\ g.taken[v] <= AtSender(s)
    BY <1>3, <1>5, <1>6, NumbersOf DEF Ordered
  <2> QED
    BY <1>3, <1>6, <2>1, NumbersOf DEF Ordered
<1>8. CarriesAll(Append(toReceiver, f), g.entered, [g.made EXCEPT ![v] = @ + 1], FlitStream(g.size))
  BY <1>1, <1>2, <1>4, <1>5, <1>7, <1>v, FieldsOf, WireGets
<1>9. PICK h \in Counts :
        /\ h.taken = [g.taken EXCEPT ![v] = @ + 1] /\ h.made = [g.made EXCEPT ![v] = @ + 1]
        /\ h.size = g.size /\ h.sent = g.sent /\ h.entered = g.entered
        /\ h.left = g.left /\ h.turned = g.turned /\ h.given = g.given /\ h.back = g.back
  <2> DEFINE d == [g EXCEPT !.taken = [g.taken EXCEPT ![v] = @ + 1],
                            !.made = [g.made EXCEPT ![v] = @ + 1]]
  <2>1. d \in Counts
    BY FieldsOf, NextNumber DEF Counts
  <2> QED
    BY <2>1 DEF Counts
<1>10. h.taken[v] = g.taken[v] + 1 /\ h.made[v] = g.made[v] + 1
  <2>1. g.taken \in Numbers /\ g.made \in Numbers
    BY FieldsOf
  <2>2. h.taken[v] = g.taken[v] + 1
    BY <1>9, <2>1, NextNumber
  <2>3. h.made[v] = g.made[v] + 1
    BY <1>9, <2>1, NextNumber
  <2> QED
    BY <2>2, <2>3
<1>11. Typed'
  <2>1. toReceiver' \in Seq(Flit)
    BY <1>1, <1>2, AppendTo
  <2> QED
    BY <1>1, <1>2, <2>1 DEF Typed
<1>12. OnTheWay(h)'
  <2>1. LastCredit(h)' = LastCredit(g) /\ LastReturn(h)' = LastReturn(g)
    BY <1>1, <1>9, SameHop DEF LastCredit, LastReturn
  <2> QED
    BY <1>1, <1>5, <1>8, <1>9, <2>1 DEF Tracks, OnTheWay
<1>13. OfVC(h, v)'
  <2>1. Upto(s)[g.taken[v] + 1] = g.taken[v] + 1
    BY <1>6, <1>7, NumbersOf
  <2>2. Ordered(h, v)'
    <3>1. g.taken[v] + 1 <= g.sent[v] /\ g.entered[v] <= g.taken[v] + 1
          /\ g.given[v] <= g.taken[v] + 1
      BY <1>3, <1>5, <1>6, <1>7, NumbersOf DEF Ordered
    <3>2. g.taken[v] + 1 <= AtReceiver(s)
      BY <1>6, <1>7
    <3>3. Ordered(h, v)
      BY <1>3, <1>6, <1>7, <1>9, <1>10, <2>1, <3>1, <3>2 DEF Ordered
    <3> QED
      BY <1>1, <3>3, NumbersStay DEF Same
  <2>3. AtTheSender(h, v)' /\ AtTheReceiver(h, v)'
    BY <1>1, <1>3, <1>9, SenderStays, ReceiverStays
  <2>4. InNetBridge(h, v)'
    BY <1>1, <1>3 DEF InNetBridge
  <2>5. InCreditBridge(h, v)'
    BY <1>1, <1>3, <1>6, <1>9, SameHop DEF InCreditBridge
  <2> QED
    BY <2>2, <2>3, <2>4, <2>5 DEF OfVC
<1>14. Elsewhere(g, h, v)
  <2>1. ASSUME NEW w \in VCs, w # v PROVE Same(g, h, w)
    BY <1>9, <2>1, FieldsOf DEF Same, Numbers
  <2>2. ASSUME NEW w \in VCs, w # v PROVE Untouched(w)
    BY <1>1, <2>2 DEF Untouched
  <2> QED
    BY <2>1, <2>2 DEF Elsewhere
<1> QED
  BY <1>1, <1>11, <1>12, <1>13, <1>14, OneVC

(* A credit passes the credit bridge.                                      *)
LEMMA PassCreditKeeps ==
    ASSUME WidthsDivide, Typed, NEW g \in Counts, Tracks(g), PassCredit
    PROVE  Typed' /\ \E h \in Counts : Tracks(h)'
<1> DEFINE c == Head(toCreditBridge)
<1>1. /\ ~hop.serdes /\ toCreditBridge # << >> /\ toCreditBridge \in Seq(Credit)
      /\ toSender \in Seq(Credit)
      /\ toSender' = Append(toSender, c) /\ toCreditBridge' = Tail(toCreditBridge)
      /\ UNCHANGED <<hop, leased, packet, credits, toBridge, sizeSent, flitsSent, toReceiver,
                     inBuffer, extraCredit, lenBuffer>>
  BY DEF PassCredit, Typed, netVars, creditVars, senderVars
<1>2. c \in Credit /\ Tail(toCreditBridge) \in Seq(Credit)
  BY <1>1, TakeFrom
<1> HIDE DEF c
<1>v. PICK v \in VCs : v = c.vc
  BY <1>2 DEF Credit
<1> DEFINE s == g.size[v]
<1>3. /\ Ordered(g, v) /\ AtTheSender(g, v) /\ InNetBridge(g, v) /\ InCreditBridge(g, v)
      /\ AtTheReceiver(g, v)
  BY DEF Tracks, OfVC
<1>4. /\ CarriesAll(toCreditBridge, g.turned, g.left, CreditStream(LastCredit(g)))
      /\ CarriesAll(toSender, g.back, g.given, CreditStream(LastReturn(g)))
  BY DEF Tracks, OnTheWay
<1>5. /\ g.turned[v] < g.left[v] /\ c = CreditStream(LastCredit(g))[v][g.turned[v]]
      /\ CarriesAll(Tail(toCreditBridge), [g.turned EXCEPT ![v] = @ + 1], g.left,
                 CreditStream(LastCredit(g)))
  BY <1>1, <1>4, <1>v, FieldsOf, WireTakes DEF c
<1>6. /\ s \in Nat /\ ~Joining /\ AtSender(s) \in Nat /\ AtReceiver(s) = AtSender(s)
      /\ Wide(s) = AtSender(s) /\ \A w \in Nat : w <= AtSender(s) => Upto(s)[w] = w
  <2>1. s \in Nat
    BY NumbersOf
  <2> QED
    BY <1>1, <2>1, PlainCounts
<1>7. /\ g.given[v] = g.turned[v] /\ g.turned[v] + 1 <= AtSender(s)
      /\ g.given[v] + 1 <= g.taken[v]
  <2>1. g.turned[v] + 1 <= AtSender(s) /\ g.turned[v] + 1 <= g.made[v]
    BY <1>3, <1>5, <1>6, NumbersOf DEF Ordered
  <2>2. g.taken[v] <= AtSender(s) /\ g.given[v] <= g.taken[v]
    BY <1>3, <1>6, NumbersOf DEF Ordered
  <2>3. g.made[v] = g.taken[v]
    BY <1>3, <1>6, <2>2, NumbersOf DEF Ordered
  <2>4. Contain(s, g.turned[v], g.given[v]) /\ Upto(s)[g.given[v]] = g.given[v]
    BY <1>3, <1>6, <2>2, NumbersOf DEF Ordered
  <2>5. g.given[v] < AtSender(s) => Upto(s)[g.given[v] + 1] = g.given[v] + 1
    BY <1>6, NumbersOf
  <2> QED
    BY <1>6, <2>1, <2>2, <2>3, <2>4, <2>5, NumbersOf DEF Contain
<1>8. c = CreditStream(LastReturn(g))[v][g.given[v]]
  <2>1. LastReturn(g)[v] = LastCredit(g)[v]
    BY <1>6 DEF LastReturn, LastCredit
  <2> QED
    BY <1>5, <1>7, <2>1, NumbersOf DEF CreditStream
<1>9. CarriesAll(Append(toSender, c), g.back, [g.given EXCEPT ![v] = @ + 1],
              CreditStream(LastReturn(g)))
  BY <1>1, <1>2, <1>4, <1>8, <1>v, FieldsOf, WireGets
<1>10. PICK h \in Counts :
        /\ h.turned = [g.turned EXCEPT ![v] = @ + 1] /\ h.given = [g.given EXCEPT ![v] = @ + 1]
        /\ h.size = g.size /\ h.sent = g.sent /\ h.taken = g.taken /\ h.made = g.made
        /\ h.entered = g.entered /\ h.left = g.left /\ h.back = g.back
  <2> DEFINE d == [g EXCEPT !.turned = [g.turned EXCEPT ![v] = @ + 1],
                            !.given = [g.given EXCEPT ![v] = @ + 1]]
  <2>1. d \in Counts
    BY FieldsOf, NextNumber DEF Counts
  <2> QED
    BY <2>1 DEF Counts
<1>11. h.turned[v] = g.turned[v] + 1 /\ h.given[v] = g.given[v] + 1
  <2>1. g.turned \in Numbers /\ g.given \in Numbers
    BY FieldsOf
  <2>2. h.turned[v] = g.turned[v] + 1
    BY <1>10, <2>1, NextNumber
  <2>3. h.given[v] = g.given[v] + 1
    BY <1>10, <2>1, NextNumber
  <2> QED
    BY <2>2, <2>3
<1>12. Typed'
  <2>1. toSender' \in Seq(Credit)
    BY <1>1, <1>2, AppendTo
  <2> QED
    BY <1>1, <1>2, <2>1 DEF Typed
<1>13. OnTheWay(h)'
  <2>1. LastCredit(h)' = LastCredit(g) /\ LastReturn(h)' = LastReturn(g)
    BY <1>1, <1>10, SameHop DEF LastCredit, LastReturn
  <2> QED
    BY <1>1, <1>5, <1>9, <1>10, <2>1 DEF Tracks, OnTheWay
<1>14. OfVC(h, v)'
  <2>1. Contain(s, g.turned[v] + 1, g.given[v] + 1)
    <3>1. Upto(s)[g.given[v] + 1] = g.given[v] + 1
      BY <1>6, <1>7, NumbersOf
    <3>2. g.given[v] + 1 < AtSender(s) => Upto(s)[(g.given[v] + 1) + 1] = (g.given[v] + 1) + 1
      BY <1>6, NumbersOf
    <3> QED
      BY <1>6, <1>7, <3>1, <3>2, NumbersOf DEF Contain
  <2>2. Ordered(h, v)'
    <3>1. g.turned[v] + 1 <= g.left[v] /\ g.back[v] <= g.given[v] + 1
      BY <1>3, <1>5, NumbersOf DEF Ordered
    <3>2. Ordered(h, v)
      BY <1>3, <1>6, <1>7, <1>10, <1>11, <2>1, <3>1 DEF Ordered
    <3> QED
      BY <1>1, <3>2, NumbersStay DEF Same
  <2>3. AtTheSender(h, v)' /\ InNetBridge(h, v)' /\ AtTheReceiver(h, v)'
    BY <1>1, <1>3, <1>10, SenderStays, NetBridgeStays, ReceiverStays
  <2>4. InCreditBridge(h, v)'
    <3>1. Len(extraCredit[v]) = 0
      BY <1>1, <1>3 DEF InCreditBridge
    <3>2. /\ Upto(s)[g.given[v]] = g.given[v]
          /\ Upto(s)[g.given[v] + 1] = g.given[v] + 1
      BY <1>6, <1>7, NumbersOf
    <3>3. lenBuffer[v] = 0
      BY <1>3, <1>6, <1>7, <3>2, NumbersOf DEF InCreditBridge
    <3>4. h.turned[v] - Upto(s)[h.given[v]] = 0
      BY <1>7, <1>11, <3>2, NumbersOf
    <3> QED
      BY <1>1, <1>6, <1>10, <3>1, <3>3, <3>4, SameHop DEF InCreditBridge
  <2> QED
    BY <2>2, <2>3, <2>4 DEF OfVC
<1>15. Elsewhere(g, h, v)
  <2>1. ASSUME NEW w \in VCs, w # v PROVE Same(g, h, w)
    BY <1>10, <2>1, FieldsOf DEF Same, Numbers
  <2>2. ASSUME NEW w \in VCs PROVE Untouched(w)
    BY <1>1 DEF Untouched
  <2> QED
    BY <2>1, <2>2 DEF Elsewhere
<1> QED
  BY <1>1, <1>12, <1>13, <1>14, <1>15, OneVC

-----------------------------------------------------------------------------
(* What the net bridge makes of a flit                                     *)

(* A part of a wide flit is not a flit, all of its parts are.              *)
LEMMA PartOfFlit ==
    ASSUME NEW b \in Nat \ {0}, NEW r \in Nat \ {0}, NEW k \in 1 .. r
    PROVE  (k * b) \div (r * b) = IF k = r THEN 1 ELSE 0
<1> DEFINE x == k * b
           d == r * b
<1>1. x \in Nat /\ d \in Nat \ {0}
  OBVIOUS
<1>2. CASE k = r
  <2>1. x = 1 * d + 0
    BY <1>1, <1>2
  <2> HIDE DEF x, d
  <2> QED
    BY <1>1, <1>2, <2>1, OnlyDivAndMod DEF x, d
<1>3. CASE k # r
  <2>1. k < r
    BY <1>3
  <2>2. x < d
    BY <2>1, LessTimes
  <2>3. x = 0 * d + x /\ x \in 0 .. d - 1
    BY <1>1, <2>2
  <2> HIDE DEF x, d
  <2>4. x \div d = 0
    BY <1>1, <2>3, OnlyDivAndMod
  <2> QED
    BY <1>3, <2>4 DEF x, d
<1> QED
  BY <1>2, <1>3

(* What is left of s bytes when m full flits have been made of them.       *)
LEMMA RestOfPacket ==
    ASSUME NEW s \in Nat, NEW b \in Nat \ {0}, NEW m \in Nat, m < CeilDiv(s, b)
    PROVE  CeilDiv(s - m * b, b) = CeilDiv(s, b) - m
<1> DEFINE n == CeilDiv(s, b)
<1>1. n \in Nat /\ (n - 1) * b < s /\ s <= n * b
  BY CeilDivIs
<1> HIDE DEF n
<1>2. m <= n - 1
  BY <1>1 DEF n
<1>3. m * b <= (n - 1) * b
  <2>1. ~((n - 1) * b < m * b)
    BY <1>1, <1>2, LessTimes
  <2>2. m * b \in Int /\ (n - 1) * b \in Int
    BY <1>1
  <2> QED
    BY <2>1, <2>2
<1>4. s - m * b \in Nat
  <2>1. m * b \in Int /\ (n - 1) * b \in Int
    BY <1>1
  <2> QED
    BY <1>1, <1>3, <2>1
<1>5. (n - m - 1) * b = (n - 1) * b - m * b /\ (n - m) * b = n * b - m * b
  BY <1>1
<1>6. (n - m - 1) * b < s - m * b /\ s - m * b <= (n - m) * b
  <2>1. m * b \in Int /\ (n - 1) * b \in Int /\ n * b \in Int
    BY <1>1
  <2> QED
    BY <1>1, <1>5, <2>1
<1>7. n - m \in Int
  BY <1>1
<1> QED
  BY <1>4, <1>6, <1>7, OnlyCeilDiv DEF n

(* Flit f, the one after t flits of its packet, when m flits were made.    *)
Arrives(f, s, t, m) ==
    /\ f \in Flit /\ f.id = t /\ f.size = s /\ t < AtSender(s)
    /\ sizeSent[f.vc] = m * hop.dst
    /\ flitsSent[f.vc] = IF Joining THEN Upto(s)[m] ELSE m
    /\ IF Joining THEN Contain(s, t, m) ELSE m = Upto(s)[t]

(* It makes p more.                                                        *)
Makes(f, s, t, m, p) ==
    /\ FlitPossible(f) = p /\ m + p <= AtReceiver(s)
    /\ IsTail(f, hop.src) <=> t + 1 = AtSender(s)
    /\ IF Joining THEN p < 2 /\ Contain(s, t + 1, m + p)
                  ELSE p > 0 /\ m + p = Upto(s)[t + 1]
    /\ \A i \in 1 .. p : NewId(f, i - 1) = m + i - 1
    /\ p > 0 => Neutralized(f) = IF Joining THEN Upto(s)[m + 1] - Upto(s)[m]
                                            ELSE Upto(s)[t + 1] - Upto(s)[t]
    /\ t + 1 # AtSender(s) =>
         /\ SizeSent(f) = (m + p) * hop.dst
         /\ FlitsSent(f) = IF Joining THEN Upto(s)[m + p] ELSE m + p
    /\ t + 1 = AtSender(s) => SizeSent(f) = 0 /\ FlitsSent(f) = 0

LEMMA TailIsLast ==
    ASSUME WidthsDivide, Typed, NEW s \in Nat, NEW t \in Nat, NEW f, f.id = t, f.size = s
    PROVE  IsTail(f, hop.src) <=> t + 1 = AtSender(s)
<1>1. IsTail(f, hop.src) <=> t = AtSender(s) - 1
  BY DEF IsTail, FlitsAt, AtSender
<1>2. AtSender(s) \in Nat
  BY UptoIsLadder
<1> QED
  BY <1>1, <1>2

(* Joining: a flit more when its last part has come.                       *)
LEMMA JoinMakes ==
    ASSUME WidthsDivide, Typed, Joining, NEW s \in Nat, NEW t \in Nat, NEW m \in Nat,
           NEW f, Arrives(f, s, t, m)
    PROVE  \E p \in Nat : Makes(f, s, t, m, p)
<1> DEFINE u == Upto(s)
           w == Wide(s)
           n == Narrow(s)
           r == Ratio
           a == hop.src
           d == hop.dst
           p == IF t + 1 = u[m + 1] THEN 1 ELSE 0
<1>1. /\ a \in Nat \ {0} /\ d \in Nat \ {0} /\ r \in Nat \ {0} /\ d = r * a
  BY WidthsFit
<1>2. /\ Ladder(u, w, n)
      /\ \A x \in Nat : x < w => u[x] = x * r /\ u[x + 1] <= x * r + r
  BY UptoIsLadder
<1>3. n = AtSender(s) /\ w = AtReceiver(s) /\ n = CeilDiv(s, a) /\ w = CeilDiv(s, d)
  BY DEF Narrow, Wide, AtSender, AtReceiver
<1>4. w \in Nat /\ n \in Nat /\ (w - 1) * d < s
  BY <1>1, <1>2, <1>3, CeilDivIs DEF Ladder
<1>5. IsTail(f, a) <=> t + 1 = n
  BY <1>3, TailIsLast DEF Arrives
<1>6. u[m] <= t /\ (m < w => t < u[m + 1]) /\ t < n
  BY <1>3 DEF Arrives, Contain
<1> HIDE DEF u, w, n, r, a, d
<1>7. m < w /\ u[m] = m * r /\ t + 1 <= u[m + 1] /\ u[m + 1] <= m * r + r
      /\ u[m] \in Nat /\ u[m + 1] \in Nat
  <2>1. m < w
    BY <1>2, <1>4, <1>6 DEF Ladder
  <2>2. u[m] \in Nat /\ u[m + 1] \in Nat
    BY <1>2 DEF Ladder
  <2> QED
    BY <1>2, <1>6, <2>1, <2>2
<1>8. m + 1 < w => u[m + 1] < n
  <2>1. ASSUME m + 1 < w PROVE u[m + 1] < n
    <3>1. u[m + 1] < u[(m + 1) + 1] /\ u[(m + 1) + 1] <= n /\ u[(m + 1) + 1] \in Nat
      BY <1>2, <2>1 DEF Ladder
    <3> QED
      BY <1>4, <1>7, <3>1
  <2> QED
    BY <2>1
<1>9. m + 1 = w => u[m + 1] = n
  BY <1>2, <1>4 DEF Ladder
<1>10. FlitPossible(f) = p
  <2>1. f.size = s /\ f.id = t /\ sizeSent[f.vc] = m * d
    BY DEF Arrives, d
  <2>2. CASE t + 1 = n
    <3>1. m + 1 = w /\ t + 1 = u[m + 1]
      BY <1>4, <1>7, <1>8, <1>9, <2>2
    <3>2. SizeAvail(f) = s - m * d
      BY <1>5, <2>1, <2>2 DEF SizeAvail, a
    <3>3. FlitPossible(f) = CeilDiv(s - m * d, d)
      BY <1>5, <2>2, <3>2 DEF FlitPossible, a, d
    <3>4. CeilDiv(s - m * d, d) = w - m
      BY <1>1, <1>3, <1>7, RestOfPacket
    <3> QED
      BY <1>4, <3>1, <3>3, <3>4
  <2>3. CASE t + 1 # n
    <3> DEFINE k == t + 1 - m * r
    <3>1. k \in 1 .. r
      BY <1>1, <1>6, <1>7
    <3>2. SizeAvail(f) = (t + 1) * a - m * d
      BY <1>5, <2>1, <2>3 DEF SizeAvail, a
    <3>3. (t + 1) * a - m * d = k * a
      <4>1. m * d = (m * r) * a
        BY <1>1, TimesTimes
      <4>2. m * r \in Int
        BY <1>1
      <4>3. (t + 1 - m * r) * a = (t + 1) * a - (m * r) * a
        BY <1>1, <4>2
      <4> QED
        BY <4>1, <4>3
    <3>4. FlitPossible(f) = (k * a) \div (r * a)
      BY <1>1, <1>5, <2>3, <3>2, <3>3 DEF FlitPossible, a, d
    <3> HIDE DEF k
    <3>5. FlitPossible(f) = IF k = r THEN 1 ELSE 0
      BY <1>1, <3>1, <3>4, PartOfFlit
    <3>6. k = r <=> t + 1 = u[m + 1]
      <4>1. k = r <=> t + 1 = m * r + r
        BY <1>1 DEF k
      <4>2. t + 1 = u[m + 1] => m + 1 < w
        BY <1>4, <1>7, <1>9, <2>3
      <4>3. m + 1 < w => u[m + 1] = m * r + r
        <5>1. m + 1 < w => u[m + 1] = (m + 1) * r
          BY <1>2
        <5>2. (m + 1) * r = m * r + r
          BY <1>1
        <5> QED
          BY <5>1, <5>2
      <4>4. m * r \in Nat
        BY <1>1
      <4> QED
        BY <1>1, <1>7, <4>1, <4>2, <4>3, <4>4
    <3> QED
      BY <3>5, <3>6
  <2> QED
    BY <2>2, <2>3
<1>11. p \in Nat /\ p < 2 /\ m + p <= w
  BY <1>4, <1>7
<1>12. Contain(s, t + 1, m + p)
  <2>1. CASE t + 1 = u[m + 1]
    <3>1. m + 1 < w => u[m + 1] < u[(m + 1) + 1]
      BY <1>2 DEF Ladder
    <3> QED
      BY <1>7, <2>1, <3>1 DEF Contain, u, w
  <2>2. CASE t + 1 # u[m + 1]
    <3>1. u[m] <= t + 1 /\ t + 1 < u[m + 1]
      BY <1>6, <1>7, <2>2
    <3>2. m + p = m
      BY <2>2
    <3> QED
      BY <3>1, <3>2 DEF Contain, u, w
  <2> QED
    BY <2>1, <2>2
<1>13. ASSUME NEW i \in 1 .. p PROVE NewId(f, i - 1) = m + i - 1
  <2>1. i = 1 /\ t + 1 = u[m + 1]
    BY <1>13
  <2>2. NewId(f, i - 1) = CeilDiv(t + 1, r) - 1
    BY DEF NewId, Arrives, Ratio, r
  <2>3. CeilDiv(t + 1, r) = m + 1
    <3>1. ((m + 1) - 1) * r < t + 1 /\ t + 1 <= (m + 1) * r
      <4>1. (m + 1) - 1 = m /\ (m + 1) * r = m * r + r /\ m * r \in Nat
        BY <1>1
      <4> QED
        BY <1>1, <1>6, <1>7, <4>1
    <3> QED
      BY <1>1, <3>1, OnlyCeilDiv
  <2> QED
    BY <2>1, <2>2, <2>3
<1>14. p > 0 => Neutralized(f) = u[m + 1] - u[m]
  <2>1. Neutralized(f) = t + 1 - u[m]
    BY DEF Neutralized, Arrives, u
  <2>2. p > 0 => t + 1 = u[m + 1]
    OBVIOUS
  <2> HIDE DEF p
  <2> QED
    BY <1>7, <2>1, <2>2
<1>15. t + 1 # n => SizeSent(f) = (m + p) * d /\ FlitsSent(f) = u[m + p]
  <2>1. ASSUME t + 1 # n PROVE SizeSent(f) = (m + p) * d /\ FlitsSent(f) = u[m + p]
    <3>1. SizeSent(f) = m * d + p * d
      BY <1>5, <1>10, <2>1 DEF SizeSent, Arrives, a, d
    <3>2. (m + p) * d = m * d + p * d
      BY <1>1, <1>11
    <3>3. FlitsSent(f) = IF p > 0 THEN t + 1 ELSE u[m]
      BY <1>5, <1>10, <2>1 DEF FlitsSent, Arrives, a, u
    <3>4. u[m + p] = IF p > 0 THEN t + 1 ELSE u[m]
      OBVIOUS
    <3> QED
      BY <3>1, <3>2, <3>3, <3>4
  <2> QED
    BY <2>1
<1>16. t + 1 = n => SizeSent(f) = 0 /\ FlitsSent(f) = 0
  BY <1>5 DEF SizeSent, FlitsSent, a
<1> HIDE DEF p
<1>17. Makes(f, s, t, m, p)
  BY <1>3, <1>5, <1>10, <1>11, <1>12, <1>13, <1>14, <1>15, <1>16 DEF Makes, a, d, u
<1> QED
  BY <1>11, <1>17

(* Splitting: all parts of the flit at once.                               *)
LEMMA SplitMakes ==
    ASSUME WidthsDivide, Typed, ~Joining, NEW s \in Nat, NEW t \in Nat, NEW m \in Nat,
           NEW f, Arrives(f, s, t, m)
    PROVE  \E p \in Nat : Makes(f, s, t, m, p)
<1> DEFINE u == Upto(s)
           w == Wide(s)
           n == Narrow(s)
           r == Ratio
           a == hop.src
           d == hop.dst
           p == u[t + 1] - u[t]
<1>1. a \in Nat \ {0} /\ d \in Nat \ {0} /\ r \in Nat \ {0} /\ a = r * d
  BY WidthsFit
<1>2. /\ Ladder(u, w, n)
      /\ \A x \in Nat : x < w => u[x] = x * r
  BY UptoIsLadder
<1>3. n = AtReceiver(s) /\ w = AtSender(s) /\ n = CeilDiv(s, d) /\ w = CeilDiv(s, a)
  BY DEF Narrow, Wide, AtSender, AtReceiver
<1>4. w \in Nat /\ n \in Nat
  BY <1>2 DEF Ladder
<1>5. IsTail(f, a) <=> t + 1 = w
  BY <1>3, TailIsLast DEF Arrives
<1>6. m = u[t] /\ t < w
  BY <1>3 DEF Arrives
<1> HIDE DEF u, w, n, r, a, d
<1>7. /\ m = t * r /\ u[t] < u[t + 1] /\ u[t + 1] <= n /\ u[t + 1] \in Nat
      /\ t + 1 = w => u[t + 1] = n
      /\ t + 1 # w => u[t + 1] = t * r + r
  <2>1. m = t * r /\ u[t] < u[t + 1] /\ u[t + 1] <= n /\ u[t + 1] \in Nat
    BY <1>2, <1>6 DEF Ladder
  <2>2. t + 1 = w => u[t + 1] = n
    BY <1>2, <1>4 DEF Ladder
  <2>3. ASSUME t + 1 # w PROVE u[t + 1] = t * r + r
    <3>1. t + 1 < w
      BY <1>4, <1>6, <2>3
    <3>2. u[t + 1] = (t + 1) * r
      BY <1>2, <3>1
    <3> QED
      BY <1>1, <3>2
  <2> QED
    BY <2>1, <2>2, <2>3
<1>8. p \in Nat /\ p > 0 /\ m + p = u[t + 1]
  BY <1>6, <1>7
<1>9. FlitPossible(f) = p
  <2>1. f.size = s /\ f.id = t /\ sizeSent[f.vc] = m * d
    BY DEF Arrives, d
  <2>2. CASE t + 1 = w
    <3>1. SizeAvail(f) = s - m * d
      BY <1>5, <2>1, <2>2 DEF SizeAvail, a
    <3>2. FlitPossible(f) = CeilDiv(s - m * d, d)
      BY <1>5, <2>2, <3>1 DEF FlitPossible, a, d
    <3>3. m < n
      BY <1>4, <1>6, <1>7
    <3>4. CeilDiv(s - m * d, d) = n - m
      BY <1>1, <1>3, <3>3, RestOfPacket
    <3> QED
      BY <1>6, <1>7, <2>2, <3>2, <3>4
  <2>3. CASE t + 1 # w
    <3>1. SizeAvail(f) = (t + 1) * a - m * d
      BY <1>5, <2>1, <2>3 DEF SizeAvail, a
    <3>2. (t + 1) * a - m * d = a
      <4>1. m * d = t * a
        BY <1>1, <1>7, TimesTimes
      <4>2. (t + 1) * a = t * a + a /\ t * a \in Nat
        BY <1>1
      <4> QED
        BY <1>1, <4>1, <4>2
    <3>3. FlitPossible(f) = a \div d
      BY <1>5, <2>3, <3>1, <3>2 DEF FlitPossible, a, d
    <3>4. a \div d = r
      <4>1. a = r * d + 0 /\ 0 \in 0 .. d - 1
        BY <1>1
      <4> QED
        BY <1>1, <4>1, OnlyDivAndMod
    <3>5. t * r \in Nat
      BY <1>1
    <3> QED
      BY <1>1, <1>6, <1>7, <2>3, <3>3, <3>4, <3>5
  <2> QED
    BY <2>2, <2>3
<1>10. ASSUME NEW i \in 1 .. p PROVE NewId(f, i - 1) = m + i - 1
  <2>1. NewId(f, i - 1) = t * r + (i - 1)
    BY DEF NewId, Arrives, Ratio, r
  <2> HIDE DEF p
  <2> QED
    BY <1>7, <1>8, <2>1
<1>11. Neutralized(f) = u[t + 1] - u[t]
  BY <1>9 DEF Neutralized
<1>12. t + 1 # w => SizeSent(f) = (m + p) * d /\ FlitsSent(f) = m + p
  <2>1. ASSUME t + 1 # w PROVE SizeSent(f) = (m + p) * d /\ FlitsSent(f) = m + p
    <3> HIDE DEF p
    <3>1. SizeSent(f) = m * d + p * d
      BY <1>5, <1>9, <2>1 DEF SizeSent, Arrives, a, d
    <3>2. (m + p) * d = m * d + p * d
      BY <1>1, <1>8
    <3>3. FlitsSent(f) = m + p
      BY <1>5, <1>9, <2>1 DEF FlitsSent, Arrives, a
    <3> QED
      BY <3>1, <3>2, <3>3
  <2> QED
    BY <2>1
<1>13. t + 1 = w => SizeSent(f) = 0 /\ FlitsSent(f) = 0
  BY <1>5 DEF SizeSent, FlitsSent, a
<1>14. m + p <= n
  BY <1>7, <1>8
<1> HIDE DEF p
<1>15. Makes(f, s, t, m, p)
  BY <1>3, <1>5, <1>8, <1>9, <1>10, <1>11, <1>12, <1>13, <1>14 DEF Makes, a, d, u
<1> QED
  BY <1>8, <1>15

LEMMA NetBridgeMakes ==
    ASSUME WidthsDivide, Typed, NEW s \in Nat, NEW t \in Nat, NEW m \in Nat,
           NEW f, Arrives(f, s, t, m)
    PROVE  \E p \in Nat : Makes(f, s, t, m, p)
BY JoinMakes, SplitMakes

(* Several items of a VC join a wire.                                      *)
LEMMA WireGetsAll ==
    ASSUME NEW S, NEW q \in Seq(S), NEW p \in Seq(S), NEW from \in Numbers, NEW to \in Numbers,
           NEW item, CarriesAll(q, from, to, item), NEW v \in VCs, ItemsFrom(p, v, to[v], item)
    PROVE  CarriesAll(q \o p, from, [to EXCEPT ![v] = @ + Len(p)], item)
<1>1. from \in [VCs -> Nat] /\ to \in [VCs -> Nat]
  BY DEF Numbers
<1> QED
  BY <1>1, CarriesConcat

(* An entry more in extraCredit, for the wide flit after the first n.      *)
LEMMA EntryJoins ==
    ASSUME NEW e \in Seq(Int), NEW u \in [Nat -> Nat], NEW first \in Nat, NEW n \in Nat,
           Entries(e, u, first, n)
    PROVE  /\ Append(e, u[n + 1] - u[n]) \in Seq(Int)
           /\ Entries(Append(e, u[n + 1] - u[n]), u, first, n + 1)
<1> DEFINE x == u[n + 1] - u[n]
           a == Append(e, x)
<1>1. x \in Int
  OBVIOUS
<1> HIDE DEF x
<1>2. /\ a \in Seq(Int) /\ Len(e) \in Nat /\ Len(a) = Len(e) + 1 /\ a[Len(e) + 1] = x
      /\ \A i \in 1 .. Len(e) : a[i] = e[i]
  BY <1>1, AppendTo
<1> HIDE DEF a
<1>3. Len(a) = n + 1 - first
  BY <1>2 DEF Entries
<1>4. ASSUME NEW i \in 1 .. Len(a) PROVE a[i] = u[first + i] - u[first + i - 1]
  <2>1. CASE i \in 1 .. Len(e)
    BY <1>2, <2>1 DEF Entries
  <2>2. CASE i = Len(e) + 1
    <3>1. first + i = n + 1 /\ first + i - 1 = n
      BY <1>2, <2>2 DEF Entries
    <3> QED
      BY <1>2, <2>2, <3>1 DEF x
  <2> QED
    BY <1>2, <2>1, <2>2
<1>5. Entries(a, u, first, n + 1)
  BY <1>3, <1>4 DEF Entries
<1> QED
  BY <1>2, <1>5 DEF a, x

(* The flit that the net bridge finds is the next one of its packet.       *)
LEMMA FlitArrives ==
    ASSUME WidthsDivide, Typed, NEW g \in Counts, Tracks(g), hop.serdes, toBridge # << >>,
           NEW v \in VCs, v = Head(toBridge).vc
    PROVE  Arrives(Head(toBridge), g.size[v], g.taken[v], g.made[v])
<1>1. toBridge \in Seq(Flit) /\ toBridge # << >> /\ Head(toBridge) \in Flit
  <2>1. toBridge \in Seq(Flit)
    BY DEF Typed
  <2> QED
    BY <2>1, TakeFrom
<1>2. CarriesAll(toBridge, g.taken, g.sent, FlitStream(g.size))
  BY DEF Tracks, OnTheWay
<1>3. PICK f : f = Head(toBridge)
  OBVIOUS
<1>4. g.taken[v] < g.sent[v] /\ f = FlitStream(g.size)[v][g.taken[v]]
  <2>1. /\ g.taken[v] < g.sent[v] /\ Head(toBridge) = FlitStream(g.size)[v][g.taken[v]]
        /\ CarriesAll(Tail(toBridge), [g.taken EXCEPT ![v] = @ + 1], g.sent, FlitStream(g.size))
    BY <1>1, <1>2, FieldsOf, WireTakes
  <2> QED
    BY <1>3, <2>1
<1> DEFINE s == g.size[v]
           t == g.taken[v]
           m == g.made[v]
<1>5. Ordered(g, v) /\ InNetBridge(g, v)
  BY DEF Tracks, OfVC
<1>6. s \in Nat /\ t \in Nat /\ m \in Nat /\ AtSender(s) \in Nat
  BY NumbersOf, UptoIsLadder
<1>7. t < AtSender(s)
  BY <1>4, <1>5, <1>6, NumbersOf DEF Ordered
<1>8. f.id = t /\ f.size = s /\ f.vc = v
  BY <1>4, <1>6 DEF FlitStream
<1>9. /\ sizeSent[v] = m * hop.dst
      /\ flitsSent[v] = IF Joining THEN Upto(s)[m] ELSE m
  BY <1>5, <1>7 DEF InNetBridge
<1>10. IF Joining THEN Contain(s, t, m) ELSE m = Upto(s)[t]
  BY <1>5 DEF Ordered
<1>11. Arrives(f, s, t, m)
  BY <1>1, <1>3, <1>7, <1>8, <1>9, <1>10 DEF Arrives
<1> QED
  BY <1>3, <1>11

(* The net bridge takes a flit, and sends on what it can make.             *)
LEMMA ConvertKeeps ==
    ASSUME WidthsDivide, Typed, NEW g \in Counts, Tracks(g), Convert
    PROVE  Typed' /\ \E h \in Counts : Tracks(h)'
<1> DEFINE f == Head(toBridge)
<1>1. /\ hop.serdes /\ toBridge # << >> /\ toBridge \in Seq(Flit) /\ toReceiver \in Seq(Flit)
      /\ toReceiver' = toReceiver \o Parts(f) /\ toBridge' = Tail(toBridge)
      /\ sizeSent \in [VCs -> Int] /\ sizeSent' = [sizeSent EXCEPT ![f.vc] = SizeSent(f)]
      /\ flitsSent \in [VCs -> Int] /\ flitsSent' = [flitsSent EXCEPT ![f.vc] = FlitsSent(f)]
      /\ extraCredit \in [VCs -> Seq(Int)]
      /\ extraCredit' = IF FlitPossible(f) > 0
                        THEN [extraCredit EXCEPT ![f.vc] = Append(@, Neutralized(f))]
                        ELSE extraCredit
      /\ UNCHANGED <<hop, leased, packet, credits, inBuffer, toCreditBridge, lenBuffer, toSender>>
  BY DEF Convert, Typed, senderVars
<1>2. f \in Flit /\ Tail(toBridge) \in Seq(Flit)
  BY <1>1, TakeFrom
<1> HIDE DEF f
<1>v. PICK v \in VCs : v = f.vc
  BY <1>2 DEF Flit
<1> DEFINE s == g.size[v]
           t == g.taken[v]
           m == g.made[v]
<1>3. /\ Ordered(g, v) /\ AtTheSender(g, v) /\ InNetBridge(g, v) /\ InCreditBridge(g, v)
      /\ AtTheReceiver(g, v)
  BY DEF Tracks, OfVC
<1>4. /\ CarriesAll(toBridge, g.taken, g.sent, FlitStream(g.size))
      /\ CarriesAll(toReceiver, g.entered, g.made, FlitStream(g.size))
  BY DEF Tracks, OnTheWay
<1>5. /\ g.taken[v] < g.sent[v] /\ f = FlitStream(g.size)[v][g.taken[v]]
      /\ CarriesAll(Tail(toBridge), [g.taken EXCEPT ![v] = @ + 1], g.sent, FlitStream(g.size))
  BY <1>1, <1>4, <1>v, FieldsOf, WireTakes DEF f
<1>6. s \in Nat /\ t \in Nat /\ m \in Nat /\ AtSender(s) \in Nat
  BY NumbersOf, UptoIsLadder
<1>7. t < AtSender(s)
  BY <1>3, <1>5, <1>6, NumbersOf DEF Ordered
<1>8. f = [vc |-> v, id |-> t, size |-> s]
  BY <1>5, <1>6 DEF FlitStream
<1>9. Arrives(f, s, t, m)
  BY <1>1, <1>v, FlitArrives DEF f
<1> HIDE DEF s, t, m
<1>10. PICK p \in Nat : Makes(f, s, t, m, p)
  BY <1>6, <1>9, NetBridgeMakes
<1>11. /\ Parts(f) \in Seq(Flit) /\ Len(Parts(f)) = p
       /\ \A i \in 1 .. p : Parts(f)[i] = [vc |-> v, id |-> m + i - 1, size |-> s]
  <2>1. Parts(f) = [i \in 1 .. p |-> [f EXCEPT !.id = NewId(f, i - 1)]]
    BY <1>10 DEF Parts, Makes
  <2>2. ASSUME NEW i \in 1 .. p
        PROVE  [f EXCEPT !.id = NewId(f, i - 1)] = [vc |-> v, id |-> m + i - 1, size |-> s]
    <3>1. NewId(f, i - 1) = m + i - 1
      BY <1>10 DEF Makes
    <3> QED
      BY <1>8, <3>1
  <2>3. \A i \in 1 .. p : [vc |-> v, id |-> m + i - 1, size |-> s] \in Flit
    BY <1>6 DEF Flit
  <2>4. Parts(f) = [i \in 1 .. p |-> [vc |-> v, id |-> m + i - 1, size |-> s]]
    BY <2>1, <2>2
  <2> QED
    BY <2>3, <2>4
<1>12. CarriesAll(toReceiver \o Parts(f), g.entered, [g.made EXCEPT ![v] = @ + p], FlitStream(g.size))
  <2>1. ASSUME NEW i \in 1 .. p
        PROVE  Parts(f)[i].vc = v /\ Parts(f)[i] = FlitStream(g.size)[v][g.made[v] + (i - 1)]
    <3>1. m + (i - 1) \in Nat /\ m + i - 1 = m + (i - 1)
      BY <1>6
    <3> QED
      BY <1>11, <3>1 DEF FlitStream, s, m
  <2>2. ItemsFrom(Parts(f), v, g.made[v], FlitStream(g.size))
    BY <1>11, <2>1 DEF ItemsFrom
  <2> QED
    BY <1>1, <1>4, <1>11, <2>2, FieldsOf, WireGetsAll
<1>13. PICK h \in Counts :
        /\ h.taken = [g.taken EXCEPT ![v] = @ + 1] /\ h.made = [g.made EXCEPT ![v] = @ + p]
        /\ h.size = g.size /\ h.sent = g.sent /\ h.entered = g.entered
        /\ h.left = g.left /\ h.turned = g.turned /\ h.given = g.given /\ h.back = g.back
  <2> DEFINE d == [g EXCEPT !.taken = [g.taken EXCEPT ![v] = @ + 1],
                            !.made = [g.made EXCEPT ![v] = @ + p]]
  <2>1. [g.made EXCEPT ![v] = @ + p] \in Numbers
    BY FieldsOf DEF Numbers
  <2>2. d \in Counts
    BY <2>1, FieldsOf, NextNumber DEF Counts
  <2> QED
    BY <2>2 DEF Counts
<1>14. h.taken[v] = t + 1 /\ h.made[v] = m + p /\ h.size[v] = s
  BY <1>13, FieldsOf DEF Numbers, t, m, s
<1>15. /\ hop.dst \in Nat /\ Upto(s) \in [Nat -> Nat] /\ m + p \in Nat
       /\ \A x \in Nat : x < Wide(s) => Upto(s)[x] < Upto(s)[x + 1]
  <2>1. hop.dst \in Nat
    BY WidthsFit
  <2>2. Ladder(Upto(s), Wide(s), Narrow(s))
    BY <1>6, UptoIsLadder
  <2> QED
    BY <1>6, <2>1, <2>2 DEF Ladder
<1>16. /\ sizeSent' = [sizeSent EXCEPT ![v] = SizeSent(f)]
       /\ flitsSent' = [flitsSent EXCEPT ![v] = FlitsSent(f)]
       /\ SizeSent(f) = IF t + 1 = AtSender(s) THEN 0 ELSE (m + p) * hop.dst
       /\ FlitsSent(f) = IF t + 1 = AtSender(s) THEN 0
                         ELSE IF Joining THEN Upto(s)[m + p] ELSE m + p
       /\ SizeSent(f) \in Int /\ FlitsSent(f) \in Int
  <2>1. SizeSent(f) = IF t + 1 = AtSender(s) THEN 0 ELSE (m + p) * hop.dst
    BY <1>10 DEF Makes
  <2>2. FlitsSent(f) = IF t + 1 = AtSender(s) THEN 0
                       ELSE IF Joining THEN Upto(s)[m + p] ELSE m + p
    BY <1>10 DEF Makes
  <2>3. (m + p) * hop.dst \in Int /\ Upto(s)[m + p] \in Int /\ m + p \in Int
    BY <1>15
  <2> QED
    BY <1>1, <1>v, <2>1, <2>2, <2>3
<1> DEFINE e == extraCredit[v]
           first == IF Joining THEN g.turned[v] ELSE g.given[v]
           next == IF Joining THEN m ELSE t
           more == IF p > 0 THEN 1 ELSE 0
<1>17. /\ e \in Seq(Int) /\ first \in Nat /\ next \in Nat
       /\ Entries(e, Upto(s), first, next)
       /\ lenBuffer[v] = IF Joining THEN 0 ELSE g.turned[v] - Upto(s)[g.given[v]]
  BY <1>1, <1>3, <1>6, NumbersOf DEF InCreditBridge, m, t, s
<1>18. more = IF Joining THEN p ELSE 1
  BY <1>10 DEF Makes
<1>19. /\ extraCredit' \in [VCs -> Seq(Int)]
       /\ \A w \in VCs : w # v => extraCredit'[w] = extraCredit[w]
       /\ Entries(extraCredit'[v], Upto(s), first, next + more)
  <2>1. CASE p > 0
    <3> DEFINE x == Upto(s)[next + 1] - Upto(s)[next]
    <3>1. Neutralized(f) = x
      BY <1>10, <2>1 DEF Makes
    <3>2. extraCredit' = [extraCredit EXCEPT ![v] = Append(e, x)]
      BY <1>1, <1>10, <1>v, <2>1, <3>1 DEF Makes
    <3>3. more = 1
      BY <2>1
    <3> HIDE DEF x, next, first, e, more
    <3>4. Append(e, x) \in Seq(Int) /\ Entries(Append(e, x), Upto(s), first, next + 1)
      BY <1>15, <1>17, EntryJoins DEF x
    <3>5. extraCredit'[v] = Append(e, x)
      BY <1>1, <3>2
    <3>6. extraCredit' \in [VCs -> Seq(Int)]
      BY <1>1, <3>2, <3>4
    <3>7. \A w \in VCs : w # v => extraCredit'[w] = extraCredit[w]
      BY <1>1, <3>2
    <3> QED
      BY <3>3, <3>4, <3>5, <3>6, <3>7
  <2>2. CASE ~(p > 0)
    <3>1. extraCredit' = extraCredit /\ more = 0
      BY <1>1, <1>10, <2>2 DEF Makes
    <3> HIDE DEF next, first, more
    <3>2. next + more = next
      BY <1>17, <3>1
    <3> QED
      BY <1>1, <1>17, <3>1, <3>2
  <2> QED
    BY <2>1, <2>2
<1>20. Typed'
  <2>1. toReceiver' \in Seq(Flit)
    BY <1>1, <1>11, ConcatProperties
  <2>2. ASSUME NEW q \in [VCs -> Int], NEW x \in Int PROVE [q EXCEPT ![v] = x] \in [VCs -> Int]
    OBVIOUS
  <2>3. sizeSent' \in [VCs -> Int]
    BY <1>1, <1>16, <2>2
  <2>4. flitsSent' \in [VCs -> Int]
    BY <1>1, <1>16, <2>2
  <2> QED
    BY <1>1, <1>2, <1>19, <2>1, <2>3, <2>4 DEF Typed
<1>21. OnTheWay(h)'
  <2>1. LastCredit(h)' = LastCredit(g) /\ LastReturn(h)' = LastReturn(g)
    BY <1>1, <1>13, SameHop DEF LastCredit, LastReturn
  <2> QED
    BY <1>1, <1>5, <1>12, <1>13, <2>1 DEF Tracks, OnTheWay
<1>22. OfVC(h, v)'
  <2>1. Ordered(h, v)'
    <3>1. t + 1 <= AtSender(s) /\ t + 1 <= g.sent[v]
      BY <1>5, <1>6, <1>7, NumbersOf DEF t
    <3>2. m + p <= AtReceiver(s) /\ g.entered[v] <= m + p
      BY <1>3, <1>6, <1>10, NumbersOf DEF Ordered, Makes, m
    <3>3. ~Joining => g.given[v] <= t + 1
      BY <1>3, <1>6, NumbersOf DEF Ordered, t
    <3>4. IF Joining THEN Contain(s, t + 1, m + p) ELSE m + p = Upto(s)[t + 1]
      BY <1>10 DEF Makes
    <3> QED
      BY <1>1, <1>3, <1>13, <1>14, <3>1, <3>2, <3>3, <3>4, SameHop DEF Ordered, s
  <2>2. AtTheSender(h, v)' /\ AtTheReceiver(h, v)'
    BY <1>1, <1>3, <1>13, SenderStays, ReceiverStays
  <2>3. InNetBridge(h, v)'
    <3>1. sizeSent'[v] = SizeSent(f) /\ flitsSent'[v] = FlitsSent(f)
      BY <1>1, <1>16
    <3>2. h.taken[v] < AtSender(s) <=> t + 1 # AtSender(s)
      BY <1>6, <1>7, <1>14
    <3> QED
      BY <1>1, <1>14, <1>16, <3>1, <3>2, SameHop DEF InNetBridge
  <2>4. InCreditBridge(h, v)'
    <3>1. IF Joining THEN h.made[v] = next + more ELSE h.taken[v] = next + more
      BY <1>14, <1>18
    <3>2. first = IF Joining THEN h.turned[v] ELSE h.given[v]
      BY <1>13
    <3> HIDE DEF next, more, first, e
    <3>3. lenBuffer'[v] = IF Joining THEN 0 ELSE h.turned[v] - Upto(s)[h.given[v]]
      BY <1>1, <1>13, <1>17
    <3>4. CASE Joining
      BY <1>1, <1>14, <1>19, <3>1, <3>2, <3>3, <3>4, SameHop DEF InCreditBridge
    <3>5. CASE ~Joining
      BY <1>1, <1>14, <1>19, <3>1, <3>2, <3>3, <3>5, SameHop DEF InCreditBridge
    <3> QED
      BY <3>4, <3>5
  <2> QED
    BY <2>1, <2>2, <2>3, <2>4 DEF OfVC
<1>23. Elsewhere(g, h, v)
  <2>1. ASSUME NEW w \in VCs, w # v PROVE Same(g, h, w)
    BY <1>13, <2>1, FieldsOf DEF Same, Numbers
  <2>2. ASSUME NEW w \in VCs, w # v PROVE Untouched(w)
    BY <1>1, <1>16, <1>19, <2>2 DEF Untouched
  <2> QED
    BY <2>1, <2>2 DEF Elsewhere
<1> QED
  BY <1>1, <1>20, <1>21, <1>22, <1>23, OneVC

-----------------------------------------------------------------------------
(* What the credit bridge makes of a credit                                *)

(* The first entry of extraCredit leaves.                                  *)
LEMMA EntryLeaves ==
    ASSUME NEW e \in Seq(Int), NEW u \in [Nat -> Nat], NEW first \in Nat, NEW next \in Nat,
           first < next, Entries(e, u, first, next)
    PROVE  /\ e # << >> /\ Head(e) = u[first + 1] - u[first]
           /\ Tail(e) \in Seq(Int) /\ Entries(Tail(e), u, first + 1, next)
<1>1. Len(e) = next - first /\ \A i \in 1 .. Len(e) : e[i] = u[first + i] - u[first + i - 1]
  BY DEF Entries
<1>2. e # << >>
  BY <1>1, LengthOf
<1>3. /\ Len(e) \in Nat \ {0} /\ Head(e) = e[1]
      /\ Tail(e) \in Seq(Int) /\ Len(Tail(e)) = Len(e) - 1
      /\ \A i \in 1 .. Len(e) - 1 : Tail(e)[i] = e[i + 1]
  BY <1>2, TakeFrom
<1>4. e[1] = u[first + 1] - u[first + 1 - 1] /\ first + 1 - 1 = first
  BY <1>1, <1>3
<1>5. Len(Tail(e)) = next - (first + 1)
  BY <1>1, <1>3
<1>6. ASSUME NEW i \in 1 .. Len(Tail(e))
      PROVE  Tail(e)[i] = u[first + 1 + i] - u[first + 1 + i - 1]
  <2>1. i + 1 \in 1 .. Len(e) /\ first + (i + 1) = first + 1 + i
        /\ first + (i + 1) - 1 = first + 1 + i - 1
    BY <1>3
  <2>2. e[i + 1] = u[first + (i + 1)] - u[first + (i + 1) - 1]
    BY <1>1, <2>1
  <2> QED
    BY <1>3, <2>1, <2>2
<1> QED
  BY <1>2, <1>3, <1>4, <1>5, <1>6 DEF Entries

(* A credit of the wide receiver becomes the credits of the parts.         *)
LEMMA SplitCreditKeeps ==
    ASSUME WidthsDivide, Typed, NEW g \in Counts, Tracks(g), SplitCredit
    PROVE  Typed' /\ \E h \in Counts : Tracks(h)'
<1> DEFINE c == Head(toCreditBridge)
<1>1. /\ hop.serdes /\ Joining
      /\ toCreditBridge # << >> /\ toCreditBridge \in Seq(Credit) /\ toSender \in Seq(Credit)
      /\ toSender' = toSender \o CreditParts(c) /\ toCreditBridge' = Tail(toCreditBridge)
      /\ extraCredit \in [VCs -> Seq(Int)]
      /\ extraCredit' = [extraCredit EXCEPT ![c.vc] = Tail(@)]
      /\ UNCHANGED <<hop, leased, packet, credits, toBridge, sizeSent, flitsSent, toReceiver,
                     inBuffer, lenBuffer>>
  BY DEF SplitCredit, Typed, netVars, senderVars
<1>2. c \in Credit /\ Tail(toCreditBridge) \in Seq(Credit)
  BY <1>1, TakeFrom
<1> HIDE DEF c
<1>v. PICK v \in VCs : v = c.vc
  BY <1>2 DEF Credit
<1> DEFINE s == g.size[v]
           k == g.turned[v]
           m == g.made[v]
           e == extraCredit[v]
           u == Upto(s)
           n == u[k + 1] - u[k]
<1>3. /\ Ordered(g, v) /\ AtTheSender(g, v) /\ InNetBridge(g, v) /\ InCreditBridge(g, v)
      /\ AtTheReceiver(g, v)
  BY DEF Tracks, OfVC
<1>4. /\ CarriesAll(toCreditBridge, g.turned, g.left, CreditStream(LastCredit(g)))
      /\ CarriesAll(toSender, g.back, g.given, CreditStream(LastReturn(g)))
  BY DEF Tracks, OnTheWay
<1>5. /\ g.turned[v] < g.left[v] /\ c = CreditStream(LastCredit(g))[v][g.turned[v]]
      /\ CarriesAll(Tail(toCreditBridge), [g.turned EXCEPT ![v] = @ + 1], g.left,
                 CreditStream(LastCredit(g)))
  BY <1>1, <1>4, <1>v, FieldsOf, WireTakes DEF c
<1>6. /\ s \in Nat /\ k \in Nat /\ m \in Nat /\ Ladder(u, AtReceiver(s), AtSender(s))
      /\ AtSender(s) \in Nat /\ AtReceiver(s) \in Nat
  <2>1. s \in Nat /\ k \in Nat /\ m \in Nat
    BY NumbersOf
  <2>2. Wide(s) = AtReceiver(s) /\ Narrow(s) = AtSender(s)
    BY <1>1 DEF Wide, Narrow
  <2>3. Ladder(u, Wide(s), Narrow(s)) /\ AtSender(s) \in Nat /\ AtReceiver(s) \in Nat
    BY <2>1, UptoIsLadder
  <2> QED
    BY <2>1, <2>2, <2>3
<1>7. /\ k < m /\ k < AtReceiver(s) /\ k + 1 <= g.left[v]
      /\ g.given[v] = u[k] /\ lenBuffer[v] = 0
      /\ Entries(e, u, k, m) /\ e \in Seq(Int)
  <2>1. k < m /\ k < AtReceiver(s) /\ k + 1 <= g.left[v]
    BY <1>3, <1>5, <1>6, NumbersOf DEF Ordered
  <2>2. g.given[v] = u[k]
    BY <1>1, <1>3 DEF Ordered
  <2>3. lenBuffer[v] = 0 /\ Entries(e, u, k, m)
    BY <1>1, <1>3 DEF InCreditBridge
  <2> QED
    BY <1>1, <2>1, <2>2, <2>3
<1>8. c = [vc |-> v, free |-> k + 1 = AtReceiver(s)]
  BY <1>5, <1>6 DEF CreditStream, LastCredit
<1> HIDE DEF s, k, m, e, u
<1>9. /\ u \in [Nat -> Nat] /\ u[k] \in Nat /\ n \in Nat /\ n > 0
      /\ k + 1 = AtReceiver(s) => u[k + 1] = AtSender(s)
      /\ k + 1 # AtReceiver(s) => u[k + 1] < AtSender(s)
  <2>0. u \in [Nat -> Nat] /\ k \in Nat /\ k + 1 \in Nat
    BY <1>6 DEF Ladder
  <2>1. u \in [Nat -> Nat] /\ u[k] < u[k + 1] /\ u[k] \in Nat /\ u[k + 1] \in Nat
    <3>1. u[k] \in Nat /\ u[k + 1] \in Nat
      BY <2>0
    <3>2. u[k] < u[k + 1]
      BY <1>6, <1>7, <2>0 DEF Ladder
    <3> QED
      BY <2>0, <3>1, <3>2
  <2>2. k + 1 = AtReceiver(s) => u[k + 1] = AtSender(s)
    BY <1>6 DEF Ladder
  <2>3. ASSUME k + 1 # AtReceiver(s) PROVE u[k + 1] < AtSender(s)
    <3>1. k + 1 < AtReceiver(s)
      BY <1>6, <1>7, <2>3
    <3>2. u[k + 1] < u[(k + 1) + 1] /\ u[(k + 1) + 1] <= AtSender(s) /\ u[(k + 1) + 1] \in Nat
      BY <1>6, <3>1 DEF Ladder
    <3> QED
      BY <1>6, <2>1, <3>2
  <2> QED
    BY <2>1, <2>2, <2>3
<1>10. Head(e) = n /\ Tail(e) \in Seq(Int) /\ Entries(Tail(e), u, k + 1, m)
  BY <1>6, <1>7, <1>9, EntryLeaves
<1> HIDE DEF n
<1>11. /\ CreditParts(c) \in Seq(Credit) /\ Len(CreditParts(c)) = n
       /\ \A i \in 1 .. n : CreditParts(c)[i] = [vc |-> v, free |-> c.free /\ i = n]
  <2>1. CreditParts(c) = [i \in 1 .. n |-> [c EXCEPT !.free = c.free /\ i = n]]
    BY <1>10, <1>v DEF CreditParts, e
  <2>2. \A i \in 1 .. n :
          [c EXCEPT !.free = c.free /\ i = n] = [vc |-> v, free |-> c.free /\ i = n]
    BY <1>8
  <2>3. \A i \in 1 .. n : [vc |-> v, free |-> c.free /\ i = n] \in Credit
    BY DEF Credit
  <2> DEFINE x == [i \in 1 .. n |-> [vc |-> v, free |-> c.free /\ i = n]]
  <2>4. CreditParts(c) = x
    BY <2>1, <2>2
  <2>5. x \in [1 .. n -> Credit]
    BY <2>3
  <2>6. \A i \in 1 .. n : x[i] = [vc |-> v, free |-> c.free /\ i = n]
    OBVIOUS
  <2> HIDE DEF x
  <2>7. n \in Nat
    BY <1>9
  <2>8. x \in Seq(Credit) /\ Len(x) = n
    BY <2>5, <2>7, SeqDef, LenProperties
  <2> QED
    BY <2>4, <2>6, <2>8
<1>12. CarriesAll(toSender \o CreditParts(c), g.back, [g.given EXCEPT ![v] = @ + n],
               CreditStream(LastReturn(g)))
  <2>1. ASSUME NEW i \in 1 .. n
        PROVE  /\ CreditParts(c)[i].vc = v
               /\ CreditParts(c)[i] = CreditStream(LastReturn(g))[v][g.given[v] + (i - 1)]
    <3>1. CreditStream(LastReturn(g))[v][g.given[v] + (i - 1)] =
            [vc |-> v, free |-> (g.given[v] + (i - 1)) + 1 = AtSender(s)]
      <4>1. g.given[v] + (i - 1) \in Nat
        <5>1. g.given[v] \in Nat /\ i \in Nat \ {0}
          BY <1>9, NumbersOf
        <5> QED
          BY <5>1
      <4>2. LastReturn(g)[v] = AtSender(s)
        BY DEF LastReturn, s
      <4> QED
        BY <4>1, <4>2 DEF CreditStream
    <3>2. c.free <=> k + 1 = AtReceiver(s)
      BY <1>8
    <3>3. (g.given[v] + (i - 1)) + 1 = u[k] + i
      <4> DEFINE a == u[k]
      <4>1. g.given[v] = a /\ a \in Int
        BY <1>7, <1>9
      <4>2. i \in Int
        BY <1>9
      <4> HIDE DEF a
      <4>3. (a + (i - 1)) + 1 = a + i
        BY ONLY <4>1, <4>2
      <4> QED
        BY ONLY <4>1, <4>3 DEF a
    <3>4. u[k + 1] = u[k] + n /\ u[k + 1] \in Nat
      BY <1>6, <1>9 DEF n
    <3>5. (c.free /\ i = n) <=> u[k] + i = AtSender(s)
      BY <1>6, <1>9, <3>2, <3>4
    <3> QED
      BY <1>11, <3>1, <3>3, <3>5
  <2>2. ItemsFrom(CreditParts(c), v, g.given[v], CreditStream(LastReturn(g)))
    BY <1>11, <2>1 DEF ItemsFrom
  <2> QED
    BY <1>1, <1>4, <1>11, <2>2, FieldsOf, WireGetsAll
<1>13. PICK h \in Counts :
        /\ h.turned = [g.turned EXCEPT ![v] = @ + 1] /\ h.given = [g.given EXCEPT ![v] = @ + n]
        /\ h.size = g.size /\ h.sent = g.sent /\ h.taken = g.taken /\ h.made = g.made
        /\ h.entered = g.entered /\ h.left = g.left /\ h.back = g.back
  <2> DEFINE d == [g EXCEPT !.turned = [g.turned EXCEPT ![v] = @ + 1],
                            !.given = [g.given EXCEPT ![v] = @ + n]]
  <2>1. [g.given EXCEPT ![v] = @ + n] \in Numbers
    BY <1>9, FieldsOf DEF Numbers
  <2>2. d \in Counts
    BY <2>1, FieldsOf, NextNumber DEF Counts
  <2> QED
    BY <2>2 DEF Counts
<1>14. h.turned[v] = k + 1 /\ h.given[v] = u[k + 1] /\ h.size[v] = s /\ h.made[v] = m
  <2>1. h.turned[v] = g.turned[v] + 1 /\ h.given[v] = g.given[v] + n
    BY <1>13, FieldsOf DEF Numbers
  <2>2. u[k] + n = u[k + 1]
    BY <1>6, <1>9 DEF n, Ladder
  <2> QED
    BY <1>7, <1>13, <2>1, <2>2 DEF k, s, m
<1>15. /\ extraCredit' \in [VCs -> Seq(Int)] /\ extraCredit'[v] = Tail(e)
       /\ \A w \in VCs : w # v => extraCredit'[w] = extraCredit[w]
  <2>1. extraCredit' = [extraCredit EXCEPT ![v] = Tail(e)]
    BY <1>1, <1>v DEF e
  <2> QED
    BY <1>1, <1>10, <2>1
<1>16. Typed'
  <2>1. toSender' \in Seq(Credit)
    BY <1>1, <1>11, ConcatProperties
  <2> QED
    BY <1>1, <1>2, <1>15, <2>1 DEF Typed
<1>17. OnTheWay(h)'
  <2>1. LastCredit(h)' = LastCredit(g) /\ LastReturn(h)' = LastReturn(g)
    BY <1>1, <1>13, SameHop DEF LastCredit, LastReturn
  <2> QED
    BY <1>1, <1>5, <1>12, <1>13, <2>1 DEF Tracks, OnTheWay
<1>18. OfVC(h, v)'
  <2>1. Ordered(h, v)'
    <3>1. g.back[v] <= u[k + 1]
      <4>1. g.back[v] <= u[k] /\ g.back[v] \in Nat
        BY <1>3, <1>7, NumbersOf DEF Ordered
      <4>2. u[k + 1] = u[k] + n
        BY <1>6, <1>9 DEF n, Ladder
      <4> QED
        BY <1>9, <4>1, <4>2
    <3>2. Contain(s, g.taken[v], m)
      BY <1>1, <1>3 DEF Ordered, s, m
    <3> QED
      BY <1>1, <1>3, <1>7, <1>13, <1>14, <3>1, <3>2, SameHop DEF Ordered, s, u
  <2>2. AtTheSender(h, v)' /\ InNetBridge(h, v)' /\ AtTheReceiver(h, v)'
    BY <1>1, <1>3, <1>13, SenderStays, NetBridgeStays, ReceiverStays
  <2>3. InCreditBridge(h, v)'
    BY <1>1, <1>7, <1>10, <1>14, <1>15, SameHop DEF InCreditBridge, u
  <2> QED
    BY <2>1, <2>2, <2>3 DEF OfVC
<1>19. Elsewhere(g, h, v)
  <2>1. ASSUME NEW w \in VCs, w # v PROVE Same(g, h, w)
    BY <1>13, <2>1, FieldsOf DEF Same, Numbers
  <2>2. ASSUME NEW w \in VCs, w # v PROVE Untouched(w)
    BY <1>1, <1>15, <2>2 DEF Untouched
  <2> QED
    BY <2>1, <2>2 DEF Elsewhere
<1> QED
  BY <1>1, <1>16, <1>17, <1>18, <1>19, OneVC

(* The last of the narrow receiver's credits for a wide flit becomes its   *)
(* credit.                                                                 *)
LEMMA JoinCreditKeeps ==
    ASSUME WidthsDivide, Typed, NEW g \in Counts, Tracks(g), JoinCredit
    PROVE  Typed' /\ \E h \in Counts : Tracks(h)'
<1> DEFINE c == Head(toCreditBridge)
           complete == lenBuffer[c.vc] + 1 = Head(extraCredit[c.vc])
<1>1. /\ hop.serdes /\ ~Joining
      /\ toCreditBridge # << >> /\ toCreditBridge \in Seq(Credit) /\ toSender \in Seq(Credit)
      /\ toCreditBridge' = Tail(toCreditBridge)
      /\ toSender' = IF complete THEN Append(toSender, c) ELSE toSender
      /\ extraCredit \in [VCs -> Seq(Int)]
      /\ extraCredit' = IF complete THEN [extraCredit EXCEPT ![c.vc] = Tail(@)]
                        ELSE extraCredit
      /\ lenBuffer \in [VCs -> Int]
      /\ lenBuffer' = [lenBuffer EXCEPT ![c.vc] = IF complete THEN 0 ELSE @ + 1]
      /\ UNCHANGED <<hop, leased, packet, credits, toBridge, sizeSent, flitsSent, toReceiver,
                     inBuffer>>
  BY DEF JoinCredit, Typed, netVars, senderVars
<1>2. c \in Credit /\ Tail(toCreditBridge) \in Seq(Credit)
  BY <1>1, TakeFrom
<1> HIDE DEF c
<1>v. PICK v \in VCs : v = c.vc
  BY <1>2 DEF Credit
<1> DEFINE s == g.size[v]
           k == g.turned[v]
           q == g.given[v]
           t == g.taken[v]
           e == extraCredit[v]
           u == Upto(s)
           p == IF complete THEN 1 ELSE 0
<1>3. /\ Ordered(g, v) /\ AtTheSender(g, v) /\ InNetBridge(g, v) /\ InCreditBridge(g, v)
      /\ AtTheReceiver(g, v)
  BY DEF Tracks, OfVC
<1>4. /\ CarriesAll(toCreditBridge, g.turned, g.left, CreditStream(LastCredit(g)))
      /\ CarriesAll(toSender, g.back, g.given, CreditStream(LastReturn(g)))
  BY DEF Tracks, OnTheWay
<1>5. /\ g.turned[v] < g.left[v] /\ c = CreditStream(LastCredit(g))[v][g.turned[v]]
      /\ CarriesAll(Tail(toCreditBridge), [g.turned EXCEPT ![v] = @ + 1], g.left,
                 CreditStream(LastCredit(g)))
  BY <1>1, <1>4, <1>v, FieldsOf, WireTakes DEF c
<1>6. /\ s \in Nat /\ k \in Nat /\ q \in Nat /\ t \in Nat
      /\ Ladder(u, AtSender(s), AtReceiver(s))
      /\ AtSender(s) \in Nat /\ AtReceiver(s) \in Nat
  <2>1. s \in Nat /\ k \in Nat /\ q \in Nat /\ t \in Nat
    BY NumbersOf
  <2>2. Wide(s) = AtSender(s) /\ Narrow(s) = AtReceiver(s)
    BY <1>1 DEF Wide, Narrow
  <2>3. Ladder(u, Wide(s), Narrow(s)) /\ AtSender(s) \in Nat /\ AtReceiver(s) \in Nat
    BY <2>1, UptoIsLadder
  <2> QED
    BY <2>1, <2>2, <2>3
<1>7. /\ k + 1 <= g.left[v] /\ k < u[t] /\ t <= AtSender(s) /\ q <= t /\ u[q] <= k
      /\ q < AtSender(s) => k < u[q + 1]
      /\ lenBuffer[v] = k - u[q]
      /\ Entries(e, u, q, t) /\ e \in Seq(Int)
      /\ g.made[v] = u[t]
  <2>1. g.made[v] = u[t] /\ Contain(s, k, q) /\ q <= t
    BY <1>1, <1>3 DEF Ordered
  <2>2. k + 1 <= g.left[v] /\ k < g.made[v]
    BY <1>3, <1>5, <1>6, NumbersOf DEF Ordered
  <2>3. t <= AtSender(s)
    BY <1>3, <1>6, NumbersOf DEF Ordered
  <2>4. u[q] <= k /\ (q < AtSender(s) => k < u[q + 1])
    BY <1>1, <2>1 DEF Contain, Wide
  <2>5. lenBuffer[v] = k - u[q] /\ Entries(e, u, q, t)
    BY <1>1, <1>3 DEF InCreditBridge
  <2> QED
    BY <1>1, <2>1, <2>2, <2>3, <2>4, <2>5
<1>8. c = [vc |-> v, free |-> k + 1 = AtReceiver(s)]
  BY <1>5, <1>6 DEF CreditStream, LastCredit
<1> HIDE DEF s, k, q, t, e, u
<1>9. /\ u \in [Nat -> Nat] /\ u[q] \in Nat /\ u[q + 1] \in Nat
      /\ q < t /\ q < AtSender(s) /\ k + 1 <= u[q + 1]
      /\ q + 1 = AtSender(s) => u[q + 1] = AtReceiver(s)
      /\ q + 1 # AtSender(s) => u[q + 1] < AtReceiver(s) /\ u[q + 1] < u[(q + 1) + 1]
      /\ u[(q + 1) + 1] \in Nat
  <2>1. u \in [Nat -> Nat] /\ q + 1 \in Nat /\ (q + 1) + 1 \in Nat
    BY <1>6 DEF Ladder
  <2>2. u[q] \in Nat /\ u[q + 1] \in Nat /\ u[(q + 1) + 1] \in Nat /\ u[t] \in Nat
    BY <1>6, <2>1
  <2>3. q # t
    <3>1. ASSUME q = t PROVE FALSE
      <4>1. u[q] = u[t]
        BY <3>1
      <4> QED
        BY <1>6, <1>7, <2>2, <4>1
    <3> QED
      BY <3>1
  <2>4. q < t /\ q < AtSender(s)
    BY <1>6, <1>7, <2>3
  <2>5. k + 1 <= u[q + 1]
    BY <1>6, <1>7, <2>2, <2>4
  <2>6. q + 1 = AtSender(s) => u[q + 1] = AtReceiver(s)
    BY <1>6, <2>1 DEF Ladder
  <2>7. ASSUME q + 1 # AtSender(s)
        PROVE  u[q + 1] < AtReceiver(s) /\ u[q + 1] < u[(q + 1) + 1]
    <3>1. q + 1 < AtSender(s)
      BY <1>6, <2>4, <2>7
    <3>2. u[q + 1] < u[(q + 1) + 1] /\ u[(q + 1) + 1] <= AtReceiver(s)
      BY <1>6, <2>1, <3>1 DEF Ladder
    <3> QED
      BY <1>6, <2>2, <3>2
  <2> QED
    BY <2>1, <2>2, <2>4, <2>5, <2>6, <2>7
<1>10. /\ Head(e) = u[q + 1] - u[q]
       /\ Tail(e) \in Seq(Int) /\ Entries(Tail(e), u, q + 1, t)
  BY <1>6, <1>7, <1>9, EntryLeaves
<1>11. complete <=> k + 1 = u[q + 1]
  <2>1. complete <=> k - u[q] + 1 = u[q + 1] - u[q]
    BY <1>7, <1>10, <1>v DEF e
  <2> QED
    BY <1>6, <1>9, <2>1
<1>12. p \in Nat /\ p = IF k + 1 = u[q + 1] THEN 1 ELSE 0
  BY <1>11
<1>13. /\ toSender' \in Seq(Credit)
       /\ [g.given EXCEPT ![v] = @ + p] \in Numbers
       /\ CarriesAll(toSender', g.back, [g.given EXCEPT ![v] = @ + p],
                  CreditStream(LastReturn(g)))
  <2>1. CASE complete
    <3>1. c = CreditStream(LastReturn(g))[v][q]
      <4>1. CreditStream(LastReturn(g))[v][q] = [vc |-> v, free |-> q + 1 = AtSender(s)]
        BY <1>6 DEF CreditStream, LastReturn, s
      <4>2. k + 1 = AtReceiver(s) <=> q + 1 = AtSender(s)
        BY <1>6, <1>9, <1>11, <2>1
      <4> QED
        BY <1>8, <4>1, <4>2
    <3>2. /\ [g.given EXCEPT ![v] = @ + 1] \in Numbers
          /\ CarriesAll(Append(toSender, c), g.back, [g.given EXCEPT ![v] = @ + 1],
                     CreditStream(LastReturn(g)))
      <4>1. toSender \in Seq(Credit) /\ c \in Credit /\ c.vc = v
        BY <1>1, <1>2, <1>v
      <4>2. /\ g.back \in Numbers /\ g.given \in Numbers
            /\ CarriesAll(toSender, g.back, g.given, CreditStream(LastReturn(g)))
            /\ c = CreditStream(LastReturn(g))[v][g.given[v]]
        BY <1>4, <3>1, FieldsOf DEF q
      <4> QED
        BY <4>1, <4>2, WireGets
    <3>3. p = 1 /\ toSender' = Append(toSender, c)
      BY <1>1, <2>1
    <3>4. Append(toSender, c) \in Seq(Credit)
      BY <1>1, <1>2, AppendTo
    <3> HIDE DEF p, complete
    <3> QED
      BY <3>2, <3>3, <3>4
  <2>2. CASE ~complete
    <3>1. p = 0 /\ toSender' = toSender
      BY <1>1, <2>2
    <3>2. [g.given EXCEPT ![v] = @ + 0] = g.given
      BY FieldsOf DEF Numbers
    <3> HIDE DEF p, complete
    <3> QED
      BY <1>1, <1>4, <3>1, <3>2, FieldsOf
  <2> QED
    BY <2>1, <2>2
<1>14. PICK h \in Counts :
        /\ h.turned = [g.turned EXCEPT ![v] = @ + 1] /\ h.given = [g.given EXCEPT ![v] = @ + p]
        /\ h.size = g.size /\ h.sent = g.sent /\ h.taken = g.taken /\ h.made = g.made
        /\ h.entered = g.entered /\ h.left = g.left /\ h.back = g.back
  <2> HIDE DEF p
  <2> DEFINE d == [g EXCEPT !.turned = [g.turned EXCEPT ![v] = @ + 1],
                            !.given = [g.given EXCEPT ![v] = @ + p]]
  <2>1. d \in Counts
    BY <1>13, FieldsOf, NextNumber DEF Counts
  <2> QED
    BY <2>1 DEF Counts
<1>15. h.turned[v] = k + 1 /\ h.given[v] = q + p /\ h.size[v] = s /\ h.taken[v] = t
  <2> HIDE DEF p
  <2>1. h.turned[v] = g.turned[v] + 1 /\ h.given[v] = g.given[v] + p
    BY <1>14, FieldsOf DEF Numbers
  <2> QED
    BY <1>14, <2>1 DEF k, s, q, t
<1>16. /\ extraCredit' \in [VCs -> Seq(Int)]
       /\ \A w \in VCs : w # v => extraCredit'[w] = extraCredit[w]
       /\ Entries(extraCredit'[v], u, q + p, t)
  <2>1. CASE complete
    <3>1. extraCredit' = [extraCredit EXCEPT ![v] = Tail(e)] /\ q + p = q + 1
      BY <1>1, <1>v, <2>1 DEF e
    <3> HIDE DEF p, complete
    <3> QED
      BY <1>1, <1>10, <3>1
  <2>2. CASE ~complete
    <3>1. extraCredit' = extraCredit /\ q + p = q
      BY <1>1, <1>6, <2>2
    <3> HIDE DEF p, complete
    <3> QED
      BY <1>1, <1>7, <3>1 DEF e
  <2> QED
    BY <2>1, <2>2
<1>17. /\ lenBuffer' \in [VCs -> Int] /\ lenBuffer'[v] = (k + 1) - u[q + p]
       /\ \A w \in VCs : w # v => lenBuffer'[w] = lenBuffer[w]
  <2>1. lenBuffer'[v] = (k + 1) - u[q + p]
    <3>1. CASE complete
      <4>1. lenBuffer'[v] = 0 /\ q + p = q + 1
        BY <1>1, <1>v, <3>1
      <4> QED
        BY <1>9, <1>11, <3>1, <4>1
    <3>2. CASE ~complete
      <4>1. lenBuffer'[v] = lenBuffer[v] + 1 /\ q + p = q
        BY <1>1, <1>6, <1>v, <3>2
      <4> QED
        BY <1>6, <1>7, <1>9, <4>1
    <3> QED
      BY <3>1, <3>2
  <2>2. (k + 1) - u[q + p] \in Int
    BY <1>6, <1>9, <1>12
  <2>3. lenBuffer' = [lenBuffer EXCEPT ![v] = lenBuffer'[v]]
    BY <1>1, <1>v
  <2> HIDE DEF p, complete
  <2> QED
    BY <1>1, <2>1, <2>2, <2>3
<1>18. Typed'
  BY <1>1, <1>2, <1>13, <1>16, <1>17 DEF Typed
<1>19. OnTheWay(h)'
  <2>1. LastCredit(h)' = LastCredit(g) /\ LastReturn(h)' = LastReturn(g)
    BY <1>1, <1>14, SameHop DEF LastCredit, LastReturn
  <2> HIDE DEF p, complete
  <2> QED
    BY <1>1, <1>5, <1>13, <1>14, <2>1 DEF Tracks, OnTheWay
<1>20. OfVC(h, v)'
  <2>1. Contain(s, k + 1, q + p)
    <3>1. CASE k + 1 = u[q + 1]
      <4>1. q + p = q + 1
        BY <1>12, <3>1
      <4>2. Wide(s) = AtSender(s)
        BY <1>1 DEF Wide
      <4>3. q + 1 < AtSender(s) => k + 1 < u[(q + 1) + 1]
        BY <1>6, <1>9, <3>1
      <4> HIDE DEF p, complete
      <4> QED
        BY <1>6, <1>9, <3>1, <4>1, <4>2, <4>3 DEF Contain, u
    <3>2. CASE k + 1 # u[q + 1]
      <4>1. q + p = q
        BY <1>6, <1>12, <3>2
      <4>2. u[q] <= k + 1 /\ k + 1 < u[q + 1]
        <5>1. /\ u[q] \in Nat /\ u[q + 1] \in Nat /\ k \in Nat
              /\ u[q] <= k /\ k + 1 <= u[q + 1]
          BY <1>6, <1>7, <1>9
        <5> QED
          BY <3>2, <5>1
      <4> HIDE DEF p, complete
      <4> QED
        BY <4>1, <4>2 DEF Contain, u
    <3> QED
      BY <3>1, <3>2
  <2>2. g.back[v] <= q + p /\ q + p <= t
    <3>1. g.back[v] <= q /\ g.back[v] \in Nat
      BY <1>3, NumbersOf DEF Ordered, q
    <3> QED
      BY <1>6, <1>9, <1>12, <3>1
  <2> HIDE DEF p, complete
  <2>3. Ordered(h, v)'
    BY <1>1, <1>3, <1>7, <1>14, <1>15, <2>1, <2>2, SameHop DEF Ordered, s, t
  <2>4. AtTheSender(h, v)' /\ InNetBridge(h, v)' /\ AtTheReceiver(h, v)'
    BY <1>1, <1>3, <1>14, SenderStays, NetBridgeStays, ReceiverStays
  <2>5. InCreditBridge(h, v)'
    BY <1>1, <1>15, <1>16, <1>17, SameHop DEF InCreditBridge, u
  <2> QED
    BY <2>3, <2>4, <2>5 DEF OfVC
<1>21. Elsewhere(g, h, v)
  <2> HIDE DEF p, complete
  <2>1. ASSUME NEW w \in VCs, w # v PROVE Same(g, h, w)
    BY <1>14, <2>1, FieldsOf DEF Same, Numbers
  <2>2. ASSUME NEW w \in VCs, w # v PROVE Untouched(w)
    BY <1>1, <1>16, <1>17, <2>2 DEF Untouched
  <2> QED
    BY <2>1, <2>2 DEF Elsewhere
<1> QED
  BY <1>1, <1>18, <1>19, <1>20, <1>21, OneVC

(* When the last credit of a packet is on its way, the rest of it is done. *)
LEMMA LastCreditMeansDone ==
    ASSUME WidthsDivide, Typed, NEW g \in Counts, NEW v \in VCs, Ordered(g, v),
           g.back[v] < g.given[v], g.back[v] + 1 = AtSender(g.size[v])
    PROVE  LET s == g.size[v] IN
           /\ g.sent[v] = AtSender(s) /\ g.taken[v] = AtSender(s) /\ g.given[v] = AtSender(s)
           /\ g.made[v] = AtReceiver(s) /\ g.entered[v] = AtReceiver(s)
           /\ g.left[v] = AtReceiver(s) /\ g.turned[v] = AtReceiver(s)
           /\ ~Joining => Upto(s)[g.given[v]] = AtReceiver(s)
<1> DEFINE s == g.size[v]
           u == Upto(s)
           n == AtSender(s)
           m == AtReceiver(s)
           turned == g.turned[v]
           made == g.made[v]
           taken == g.taken[v]
           given == g.given[v]
<1>1. /\ s \in Nat /\ turned \in Nat /\ made \in Nat /\ taken \in Nat /\ given \in Nat
      /\ g.sent[v] \in Nat /\ g.entered[v] \in Nat /\ g.left[v] \in Nat /\ g.back[v] \in Nat
  BY NumbersOf
<1>2. n \in Nat /\ m \in Nat /\ Ladder(u, Wide(s), Narrow(s))
  BY <1>1, UptoIsLadder
<1>3. /\ taken <= g.sent[v] /\ g.sent[v] <= n
      /\ turned <= g.left[v] /\ g.left[v] <= g.entered[v] /\ g.entered[v] <= made /\ made <= m
      /\ given >= n
  BY <1>1, <1>2 DEF Ordered
<1>4. CASE Joining
  <2>1. Wide(s) = m /\ Narrow(s) = n
    BY <1>4 DEF Wide, Narrow
  <2>2. given = u[turned] /\ Contain(s, taken, made)
    BY <1>4 DEF Ordered
  <2> HIDE DEF u, n, m, turned, made, taken, given, s
  <2>3. turned = m
    <3>1. ASSUME turned < m PROVE FALSE
      <4>1. u[turned] < u[turned + 1] /\ u[turned + 1] <= n
        BY <1>1, <1>2, <2>1, <3>1 DEF Ladder
      <4>2. u[turned] \in Nat /\ u[turned + 1] \in Nat
        BY <1>1, <1>2 DEF Ladder
      <4> QED
        BY <1>2, <1>3, <2>2, <4>1, <4>2
    <3> QED
      BY <1>1, <1>2, <1>3, <3>1
  <2>4. made = m /\ g.entered[v] = m /\ g.left[v] = m
    BY <1>1, <1>2, <1>3, <2>3
  <2>5. u[m] = n
    BY <1>2, <2>1 DEF Ladder
  <2>6. taken >= n
    BY <1>1, <1>2, <2>2, <2>4, <2>5 DEF Contain, u
  <2>7. taken = n /\ g.sent[v] = n /\ given = n
    BY <1>1, <1>2, <1>3, <2>2, <2>3, <2>5, <2>6
  <2> QED
    BY <1>4, <2>3, <2>4, <2>7 DEF n, m, turned, made, taken, given, s
<1>5. CASE ~Joining
  <2>1. Wide(s) = n /\ Narrow(s) = m
    BY <1>5 DEF Wide, Narrow
  <2>2. made = u[taken] /\ Contain(s, turned, given) /\ given <= taken
    BY <1>5 DEF Ordered
  <2> HIDE DEF u, n, m, turned, made, taken, given, s
  <2>3. given = n /\ taken = n /\ g.sent[v] = n
    BY <1>1, <1>2, <1>3, <2>2
  <2>4. u[n] = m
    BY <1>2, <2>1 DEF Ladder
  <2>5. turned >= m
    BY <1>1, <1>2, <2>2, <2>3, <2>4 DEF Contain, u
  <2>6. turned = m /\ made = m /\ g.entered[v] = m /\ g.left[v] = m
    BY <1>1, <1>2, <1>3, <2>5
  <2> QED
    BY <2>3, <2>4, <2>6 DEF n, m, u, turned, made, taken, given, s
<1> QED
  BY <1>4, <1>5

(* A credit of a flit that is not the last comes back.                     *)
LEMMA PlainCreditArrives ==
    ASSUME WidthsDivide, Typed, NEW g \in Counts, Tracks(g), CreditArrives,
           ~Head(toSender).free
    PROVE  Typed' /\ \E h \in Counts : Tracks(h)'
<1> DEFINE c == Head(toSender)
<1>1. /\ toSender # << >> /\ toSender \in Seq(Credit) /\ toSender' = Tail(toSender)
      /\ credits \in [VCs -> Int] /\ credits' = [credits EXCEPT ![c.vc] = @ + 1]
      /\ UNCHANGED <<hop, leased, packet, toBridge, sizeSent, flitsSent, toReceiver, inBuffer,
                     toCreditBridge, extraCredit, lenBuffer>>
  BY DEF CreditArrives, Typed, netVars, creditVars
<1>2. c \in Credit /\ Tail(toSender) \in Seq(Credit)
  BY <1>1, TakeFrom
<1> HIDE DEF c
<1>v. PICK v \in VCs : v = c.vc
  BY <1>2 DEF Credit
<1>3. /\ Ordered(g, v) /\ AtTheSender(g, v) /\ InNetBridge(g, v) /\ InCreditBridge(g, v)
      /\ AtTheReceiver(g, v)
  BY DEF Tracks, OfVC
<1>4. CarriesAll(toSender, g.back, g.given, CreditStream(LastReturn(g)))
  BY DEF Tracks, OnTheWay
<1>5. /\ g.back[v] < g.given[v]
      /\ CarriesAll(Tail(toSender), [g.back EXCEPT ![v] = @ + 1], g.given,
                 CreditStream(LastReturn(g)))
  BY <1>1, <1>4, <1>v, FieldsOf, WireTakes DEF c
<1>6. PICK h \in Counts :
        /\ h.back = [g.back EXCEPT ![v] = @ + 1]
        /\ h.size = g.size /\ h.sent = g.sent /\ h.taken = g.taken /\ h.made = g.made
        /\ h.entered = g.entered /\ h.left = g.left /\ h.turned = g.turned
        /\ h.given = g.given
  <2> DEFINE d == [g EXCEPT !.back = [g.back EXCEPT ![v] = @ + 1]]
  <2>1. d \in Counts
    BY FieldsOf, NextNumber DEF Counts
  <2> QED
    BY <2>1 DEF Counts
<1>7. h.back[v] = g.back[v] + 1
  BY <1>6, FieldsOf, NextNumber
<1>8. Typed'
  <2>1. credits' \in [VCs -> Int]
    BY <1>1, <1>v
  <2> QED
    BY <1>1, <1>2, <2>1 DEF Typed
<1>9. OnTheWay(h)'
  <2>1. LastCredit(h)' = LastCredit(g) /\ LastReturn(h)' = LastReturn(g)
    BY <1>1, <1>6, SameHop DEF LastCredit, LastReturn
  <2> QED
    BY <1>1, <1>5, <1>6, <2>1 DEF Tracks, OnTheWay
<1>10. OfVC(h, v)'
  <2>1. Ordered(h, v)'
    <3>1. h.back[v] <= g.given[v]
      BY <1>5, <1>7, NumbersOf
    <3> QED
      BY <1>1, <1>3, <1>6, <3>1, SameHop DEF Ordered
  <2>2. AtTheSender(h, v)'
    <3>1. credits'[v] = credits[v] + 1 /\ credits[v] = hop.depth - g.sent[v] + g.back[v]
      BY <1>1, <1>3, <1>v DEF AtTheSender
    <3>2. hop.depth \in Int /\ g.back[v] \in Int /\ g.sent[v] \in Int
      BY NumbersOf, WidthsFit
    <3>3. credits'[v] = hop.depth - g.sent[v] + (g.back[v] + 1)
      BY <3>1, <3>2
    <3> QED
      BY <1>1, <1>3, <1>6, <1>7, <3>3, SameHop DEF AtTheSender
  <2>3. InNetBridge(h, v)' /\ InCreditBridge(h, v)' /\ AtTheReceiver(h, v)'
    BY <1>1, <1>3, <1>6, NetBridgeStays, CreditBridgeStays, ReceiverStays
  <2> QED
    BY <2>1, <2>2, <2>3 DEF OfVC
<1>11. Elsewhere(g, h, v)
  <2>1. ASSUME NEW w \in VCs, w # v PROVE Same(g, h, w)
    BY <1>6, <2>1, FieldsOf DEF Same, Numbers
  <2>2. ASSUME NEW w \in VCs, w # v PROVE Untouched(w)
    BY <1>1, <1>v, <2>2 DEF Untouched
  <2> QED
    BY <2>1, <2>2 DEF Elsewhere
<1> QED
  BY <1>1, <1>8, <1>9, <1>10, <1>11, OneVC

(* The free signal comes back: the VC is as if it never had a packet.      *)
LEMMA FreeCreditArrives ==
    ASSUME WidthsDivide, Typed, NEW g \in Counts, Tracks(g), CreditArrives,
           Head(toSender).free
    PROVE  Typed' /\ \E h \in Counts : Tracks(h)'
<1> DEFINE c == Head(toSender)
<1>1. /\ toSender # << >> /\ toSender \in Seq(Credit) /\ toSender' = Tail(toSender)
      /\ credits \in [VCs -> Int] /\ credits' = [credits EXCEPT ![c.vc] = @ + 1]
      /\ leased' = leased \ {c.vc}
      /\ UNCHANGED <<hop, packet, toBridge, sizeSent, flitsSent, toReceiver, inBuffer,
                     toCreditBridge, extraCredit, lenBuffer>>
  BY DEF CreditArrives, Typed, netVars, creditVars
<1>2. c \in Credit /\ Tail(toSender) \in Seq(Credit) /\ c.free
  BY <1>1, TakeFrom
<1> HIDE DEF c
<1>v. PICK v \in VCs : v = c.vc
  BY <1>2 DEF Credit
<1> DEFINE s == g.size[v]
<1>3. /\ Ordered(g, v) /\ AtTheSender(g, v) /\ InNetBridge(g, v) /\ InCreditBridge(g, v)
      /\ AtTheReceiver(g, v)
  BY DEF Tracks, OfVC
<1>4. OnTheWay(g)
  BY DEF Tracks
<1>5. /\ g.back[v] < g.given[v] /\ c = CreditStream(LastReturn(g))[v][g.back[v]]
      /\ [g.back EXCEPT ![v] = @ + 1] \in Numbers
      /\ CarriesAll(Tail(toSender), [g.back EXCEPT ![v] = @ + 1], g.given,
                 CreditStream(LastReturn(g)))
  <2>1. CarriesAll(toSender, g.back, g.given, CreditStream(LastReturn(g)))
    BY <1>4 DEF OnTheWay
  <2> QED
    BY <1>1, <1>v, <2>1, FieldsOf, WireTakes DEF c
<1>6. g.back[v] + 1 = AtSender(s)
  BY <1>2, <1>5, NumbersOf DEF CreditStream, LastReturn
<1>7. /\ g.sent[v] = AtSender(s) /\ g.taken[v] = AtSender(s) /\ g.given[v] = AtSender(s)
      /\ g.made[v] = AtReceiver(s) /\ g.entered[v] = AtReceiver(s)
      /\ g.left[v] = AtReceiver(s) /\ g.turned[v] = AtReceiver(s)
      /\ ~Joining => Upto(s)[g.given[v]] = AtReceiver(s)
  BY <1>3, <1>5, <1>6, LastCreditMeansDone
<1>8. s \in Nat /\ AtSender(s) \in Nat /\ AtReceiver(s) \in Nat
  BY NumbersOf, UptoIsLadder
<1> DEFINE Zero(n) == [n EXCEPT ![v] = 0]
<1>9. \A n \in Numbers : Zero(n) \in Numbers /\ Zero(n)[v] = 0
                         /\ \A w \in VCs : w # v => Zero(n)[w] = n[w]
  BY DEF Numbers
<1>10. PICK h \in Counts :
        /\ h.size = Zero(g.size) /\ h.sent = Zero(g.sent) /\ h.taken = Zero(g.taken)
        /\ h.made = Zero(g.made) /\ h.entered = Zero(g.entered) /\ h.left = Zero(g.left)
        /\ h.turned = Zero(g.turned) /\ h.given = Zero(g.given) /\ h.back = Zero(g.back)
  <2> HIDE DEF Zero
  <2> DEFINE d == [size |-> Zero(g.size), sent |-> Zero(g.sent), taken |-> Zero(g.taken),
                   made |-> Zero(g.made), entered |-> Zero(g.entered), left |-> Zero(g.left),
                   turned |-> Zero(g.turned), given |-> Zero(g.given), back |-> Zero(g.back)]
  <2>1. d \in Counts
    BY <1>9, FieldsOf DEF Counts
  <2> QED
    BY <2>1
<1>11. /\ h.size[v] = 0 /\ h.sent[v] = 0 /\ h.taken[v] = 0 /\ h.made[v] = 0
       /\ h.entered[v] = 0 /\ h.left[v] = 0 /\ h.turned[v] = 0 /\ h.given[v] = 0
       /\ h.back[v] = 0
  <2> HIDE DEF Zero
  <2> QED
    BY <1>9, <1>10, FieldsOf
<1>12. OnTheWay(h)'
  <2>1. toBridge \in Seq(Flit) /\ toReceiver \in Seq(Flit) /\ toCreditBridge \in Seq(Credit)
    BY DEF Typed
  <2>2. /\ CarriesAll(toBridge, Zero(g.taken), Zero(g.sent), FlitStream(Zero(g.size)))
        /\ CarriesAll(toReceiver, Zero(g.entered), Zero(g.made), FlitStream(Zero(g.size)))
    BY <1>4, <1>7, <2>1, FieldsOf, FlitsStartOver DEF OnTheWay
  <2>3. AtSender(0) = 0 /\ AtReceiver(0) = 0
    BY UptoIsLadder
  <2>4. LastCredit(g) \in Numbers /\ LastReturn(g) \in Numbers
    BY LastNumbers
  <2>5. CarriesAll(toCreditBridge, Zero(g.turned), Zero(g.left), CreditStream(Zero(LastCredit(g))))
    BY <1>4, <1>7, <2>1, <2>4, FieldsOf, CreditsStartOver DEF OnTheWay
  <2>6. CarriesAll(Tail(toSender), Zero(g.back), Zero(g.given), CreditStream(Zero(LastReturn(g))))
    <3> DEFINE b == [g.back EXCEPT ![v] = @ + 1]
    <3>1. b[v] = g.given[v]
      BY <1>6, <1>7, FieldsOf, NextNumber
    <3>2. Zero(b) = Zero(g.back)
      BY FieldsOf DEF Numbers
    <3>3. b \in Numbers /\ CarriesAll(Tail(toSender), b, g.given, CreditStream(LastReturn(g)))
      BY <1>5
    <3> HIDE DEF b
    <3>4. CarriesAll(Tail(toSender), Zero(b), Zero(g.given), CreditStream(Zero(LastReturn(g))))
      BY <1>2, <2>4, <3>1, <3>3, FieldsOf, CreditsStartOver
    <3> HIDE DEF Zero
    <3> QED
      BY <3>2, <3>4
  <2>7. /\ LastCredit(h) = [LastCredit(g) EXCEPT ![v] = AtReceiver(0)]
        /\ LastReturn(h) = [LastReturn(g) EXCEPT ![v] = AtSender(0)]
    <3>1. h.size = [g.size EXCEPT ![v] = 0]
      BY <1>10
    <3> QED
      BY <3>1, LastNumbersOf
  <2>8. LastCredit(h)' = Zero(LastCredit(g)) /\ LastReturn(h)' = Zero(LastReturn(g))
    BY <1>1, <2>3, <2>7, SameHop
  <2> HIDE DEF Zero
  <2> QED
    BY <1>1, <1>10, <2>2, <2>5, <2>6, <2>8 DEF OnTheWay
<1> HIDE DEF Zero
<1>13. OfVC(h, v)'
  <2>1. AtSender(0) = 0 /\ AtReceiver(0) = 0 /\ Contain(0, 0, 0) /\ Upto(0)[0] = 0
    <3>1. AtSender(0) = 0 /\ AtReceiver(0) = 0 /\ Upto(0)[0] = 0
      BY UptoIsLadder DEF Ladder
    <3>2. Wide(0) = 0
      BY <3>1 DEF Wide
    <3> QED
      BY <3>1, <3>2 DEF Contain
  <2>2. Ordered(h, v)'
    BY <1>1, <1>11, <2>1, SameHop DEF Ordered
  <2>3. AtTheSender(h, v)'
    <3>1. credits'[v] = hop.depth - 0 + 0
      <4>1. credits'[v] = credits[v] + 1 /\ credits[v] = hop.depth - AtSender(s) + g.back[v]
        BY <1>1, <1>3, <1>7, <1>v DEF AtTheSender
      <4>2. hop.depth \in Int /\ g.back[v] \in Int
        BY NumbersOf, WidthsFit
      <4> QED
        BY <1>6, <1>8, <4>1, <4>2
    <3>2. packet'[v] = None
      BY <1>1, <1>3, <1>7, <1>8 DEF AtTheSender
    <3>3. v \notin leased'
      BY <1>1, <1>v
    <3> QED
      BY <1>1, <1>11, <2>1, <3>1, <3>2, <3>3, SameHop DEF AtTheSender
  <2>4. InNetBridge(h, v)'
    <3>1. sizeSent[v] = 0 /\ flitsSent[v] = 0
      BY <1>3, <1>7, <1>8 DEF InNetBridge
    <3> QED
      BY <1>1, <1>11, <2>1, <3>1, SameHop DEF InNetBridge
  <2>5. InCreditBridge(h, v)'
    <3>1. Len(extraCredit[v]) = 0
      BY <1>3, <1>7, <1>8 DEF InCreditBridge, Entries
    <3>2. lenBuffer[v] = 0
      BY <1>3, <1>7, <1>8 DEF InCreditBridge
    <3> QED
      BY <1>1, <1>11, <2>1, <3>1, <3>2, SameHop DEF InCreditBridge, Entries
  <2>6. AtTheReceiver(h, v)'
    <3>1. Len(inBuffer[v]) = 0
      BY <1>3, <1>7, <1>8 DEF AtTheReceiver
    <3> QED
      BY <1>1, <1>11, <3>1 DEF AtTheReceiver
  <2> QED
    BY <2>2, <2>3, <2>4, <2>5, <2>6 DEF OfVC
<1>14. Typed'
  <2>1. credits' \in [VCs -> Int]
    BY <1>1, <1>v
  <2>2. leased' \in SUBSET VCs
    BY <1>1 DEF Typed
  <2> QED
    BY <1>1, <1>2, <2>1, <2>2 DEF Typed
<1>15. Elsewhere(g, h, v)
  <2>1. ASSUME NEW w \in VCs, w # v PROVE Same(g, h, w)
    BY <1>9, <1>10, <2>1, FieldsOf DEF Same
  <2>2. ASSUME NEW w \in VCs, w # v PROVE Untouched(w)
    BY <1>1, <1>v, <2>2 DEF Untouched
  <2> QED
    BY <2>1, <2>2 DEF Elsewhere
<1> QED
  BY <1>1, <1>12, <1>13, <1>14, <1>15, OneVC

-----------------------------------------------------------------------------
(* The invariant is inductive                                              *)

(* A credit arrives, with or without the free signal.                      *)
LEMMA CreditArrivesKeeps ==
    ASSUME WidthsDivide, Typed, NEW g \in Counts, Tracks(g), CreditArrives
    PROVE  Typed' /\ \E h \in Counts : Tracks(h)'
BY PlainCreditArrives, FreeCreditArrives

(* At first all numbers are 0.                                             *)
LEMMA InitTracks ==
    ASSUME WidthsDivide, Init
    PROVE  IInv
<1> DEFINE zero == [v \in VCs |-> 0]
           g == [size |-> zero, sent |-> zero, taken |-> zero, made |-> zero,
                 entered |-> zero, left |-> zero, turned |-> zero, given |-> zero,
                 back |-> zero]
<1>1. Typed
  <2>1. hop.depth \in Int
    BY HopsAssumption DEF Init
  <2>2. \A S : << >> \in Seq(S)
    OBVIOUS
  <2>3. None \in [size : Nat, sent : Nat]
    BY DEF None
  <2>4. hop \in Hops /\ leased \in SUBSET VCs
    BY DEF Init
  <2>5. packet \in [VCs -> [size : Nat, sent : Nat]]
    BY <2>3 DEF Init
  <2>6. credits \in [VCs -> Int]
    BY <2>1 DEF Init
  <2>7. /\ toBridge \in Seq(Flit) /\ toReceiver \in Seq(Flit)
        /\ toCreditBridge \in Seq(Credit) /\ toSender \in Seq(Credit)
    BY <2>2 DEF Init
  <2>8. sizeSent \in [VCs -> Int] /\ flitsSent \in [VCs -> Int] /\ lenBuffer \in [VCs -> Int]
    BY DEF Init
  <2>9. inBuffer \in [VCs -> Seq(Flit)] /\ extraCredit \in [VCs -> Seq(Int)]
    BY <2>2 DEF Init
  <2> QED
    BY <2>4, <2>5, <2>6, <2>7, <2>8, <2>9 DEF Typed
<1>2. zero \in Numbers /\ zero \in [VCs -> Nat]
  BY DEF Numbers
<1>3. \A v \in VCs : zero[v] = 0
  OBVIOUS
<1> HIDE DEF zero
<1>4. g \in Counts
  BY <1>2 DEF Counts
<1>5. AtSender(0) = 0 /\ AtReceiver(0) = 0 /\ Upto(0)[0] = 0 /\ Contain(0, 0, 0)
  <2>1. AtSender(0) = 0 /\ AtReceiver(0) = 0 /\ Upto(0)[0] = 0
    BY <1>1, UptoIsLadder DEF Ladder
  <2>2. Wide(0) = 0
    BY <2>1 DEF Wide
  <2> QED
    BY <2>1, <2>2 DEF Contain
<1>6. OnTheWay(g)
  <2>1. \A item : CarriesAll(<< >>, zero, zero, item)
    BY <1>2, CarriesNothing
  <2> QED
    BY <2>1 DEF OnTheWay, Init
<1>7. ASSUME NEW v \in VCs PROVE OfVC(g, v)
  <2>1. /\ g.size[v] = 0 /\ g.sent[v] = 0 /\ g.taken[v] = 0 /\ g.made[v] = 0
        /\ g.entered[v] = 0 /\ g.left[v] = 0 /\ g.turned[v] = 0 /\ g.given[v] = 0
        /\ g.back[v] = 0
    BY <1>3
  <2> HIDE DEF g
  <2>2. Ordered(g, v)
    BY <1>5, <2>1 DEF Ordered
  <2>3. AtTheSender(g, v)
    <3>1. hop.depth \in Int
      BY HopsAssumption DEF Init
    <3>2. credits[v] = hop.depth - 0 + 0
      BY <3>1 DEF Init
    <3>3. leased = {} /\ packet[v] = None
      BY DEF Init
    <3> QED
      BY <1>5, <2>1, <3>2, <3>3 DEF AtTheSender
  <2>4. InNetBridge(g, v)
    <3>1. sizeSent[v] = 0 /\ flitsSent[v] = 0
      BY DEF Init
    <3> QED
      BY <1>5, <2>1, <3>1 DEF InNetBridge
  <2>5. InCreditBridge(g, v)
    <3>1. Len(extraCredit[v]) = 0 /\ lenBuffer[v] = 0
      BY DEF Init
    <3> QED
      BY <1>5, <2>1, <3>1 DEF InCreditBridge, Entries
  <2>6. AtTheReceiver(g, v)
    <3>1. Len(inBuffer[v]) = 0
      BY DEF Init
    <3> QED
      BY <2>1, <3>1 DEF AtTheReceiver
  <2> QED
    BY <2>2, <2>3, <2>4, <2>5, <2>6 DEF OfVC
<1> HIDE DEF g
<1>8. Tracks(g)
  BY <1>6, <1>7 DEF Tracks
<1> QED
  BY <1>1, <1>4, <1>8 DEF IInv

(* Every step leaves numbers that are right.                               *)
LEMMA NextTracks ==
    ASSUME WidthsDivide, IInv, [Next]_vars
    PROVE  IInv'
<1>1. PICK g \in Counts : Typed /\ Tracks(g)
  BY DEF IInv
<1>2. ASSUME NEW v \in VCs, NEW s \in Sizes, Lease(v, s) PROVE IInv'
  BY <1>1, <1>2, LeaseKeeps DEF IInv
<1>3. ASSUME NEW v \in VCs, SendFlit(v) PROVE IInv'
  BY <1>1, <1>3, SendFlitKeeps DEF IInv
<1>4. ASSUME Convert PROVE IInv'
  BY <1>1, <1>4, ConvertKeeps DEF IInv
<1>5. ASSUME PassFlit PROVE IInv'
  BY <1>1, <1>5, PassFlitKeeps DEF IInv
<1>6. ASSUME Receive PROVE IInv'
  BY <1>1, <1>6, ReceiveKeeps DEF IInv
<1>7. ASSUME NEW v \in VCs, ReturnCredit(v) PROVE IInv'
  BY <1>1, <1>7, ReturnCreditKeeps DEF IInv
<1>8. ASSUME SplitCredit PROVE IInv'
  BY <1>1, <1>8, SplitCreditKeeps DEF IInv
<1>9. ASSUME JoinCredit PROVE IInv'
  BY <1>1, <1>9, JoinCreditKeeps DEF IInv
<1>10. ASSUME PassCredit PROVE IInv'
  BY <1>1, <1>10, PassCreditKeeps DEF IInv
<1>11. ASSUME CreditArrives PROVE IInv'
  BY <1>1, <1>11, CreditArrivesKeeps DEF IInv
<1>12. ASSUME UNCHANGED vars PROVE IInv'
  <2>1. /\ hop' = hop
        /\ UNCHANGED <<leased, packet, credits, toBridge, sizeSent, flitsSent, toReceiver,
                       inBuffer, toCreditBridge, extraCredit, lenBuffer, toSender>>
    BY <1>12 DEF vars
  <2>2. Typed'
    BY <1>1, <2>1 DEF Typed
  <2>3. OnTheWay(g)'
    <3>1. LastCredit(g)' = LastCredit(g) /\ LastReturn(g)' = LastReturn(g)
      BY <2>1, SameHop
    <3> QED
      BY <1>1, <2>1, <3>1 DEF Tracks, OnTheWay
  <2>4. ASSUME NEW v \in VCs PROVE OfVC(g, v)'
    <3>1. Same(g, g, v) /\ Untouched(v)
      BY <2>1 DEF Same, Untouched
    <3> QED
      BY <1>1, <2>1, <3>1, OtherVC DEF Tracks
  <2> QED
    BY <2>2, <2>3, <2>4 DEF IInv, Tracks
<1> QED
  BY <1>2, <1>3, <1>4, <1>5, <1>6, <1>7, <1>8, <1>9, <1>10, <1>11, <1>12 DEF Next

(* For every VC there are always numbers of its flits and credits that     *)
(* account for all that the two ends, the wires and the bridges hold.      *)
THEOREM NumbersAccount ==
    ASSUME WidthsDivide
    PROVE  Spec => []IInv
<1>1. Init => IInv
  BY InitTracks
<1>2. IInv /\ [Next]_vars => IInv'
  BY NextTracks
<1> QED
  BY <1>1, <1>2, PTL DEF Spec

-----------------------------------------------------------------------------
(* What the numbers imply                                                  *)

(* A wire has nothing of a VC, or its first entry of the VC is the first   *)
(* of the items it carries.                                                *)
StartsWith(q, v, from, to, item) ==
    /\ from[v] = to[v] => IndicesOf(q, v) = {}
    /\ from[v] # to[v] => \E i \in IndicesOf(q, v) : q[i] = item[v][from[v]]

LEMMA FirstOfWire ==
    ASSUME NEW S, NEW q \in Seq(S), NEW v \in VCs,
           NEW from \in Numbers, NEW to \in Numbers, NEW item,
           CarriesAll(q, from, to, item)
    PROVE  StartsWith(q, v, from, to, item)
<1>1. to[v] = from[v] + CountOf(q, v) /\ CountOf(q, v) \in Nat /\ from[v] \in Nat
  <2>1. CountOf(q, v) \in Nat
    BY IndicesFinite
  <2> QED
    BY <2>1 DEF CarriesAll, Numbers
<1>2. CountOf(q, v) = 0 <=> IndicesOf(q, v) = {}
  BY IndicesFinite, FS_EmptySet DEF CountOf
<1>3. ASSUME from[v] # to[v]
      PROVE  \E i \in IndicesOf(q, v) : q[i] = item[v][from[v]]
  <2>1. IndicesOf(q, v) # {} /\ IndicesOf(q, v) \in SUBSET Nat
    BY <1>1, <1>2, <1>3 DEF IndicesOf
  <2>2. PICK i \in IndicesOf(q, v) : \A j \in IndicesOf(q, v) : i <= j
    BY <2>1, LeastNumber
  <2>3. i \in 1 .. Len(q) /\ q[i].vc = v /\ Len(q) \in Nat
    BY LenProperties DEF IndicesOf
  <2>4. \A k \in 1 .. i - 1 : q[k].vc # q[i].vc
    BY <2>2, <2>3 DEF IndicesOf
  <2>5. PlaceOn(q, i) = 0
    BY <2>3, <2>4, PlacesInOrder
  <2> QED
    BY <1>1, <2>3, <2>5 DEF CarriesAll
<1> QED
  BY <1>1, <1>2, <1>3 DEF StartsWith

(* The first flit ahead of the net bridge is the next one to be taken.     *)
LEMMA FirstFlit ==
    ASSUME Typed, NEW g \in Counts, Tracks(g), NEW v \in VCs
    PROVE  /\ g.taken[v] = g.sent[v] => IndicesOf(toBridge, v) = {}
           /\ g.taken[v] # g.sent[v] =>
                \E i \in IndicesOf(toBridge, v) : toBridge[i].id = g.taken[v]
<1>1. CarriesAll(toBridge, g.taken, g.sent, FlitStream(g.size)) /\ toBridge \in Seq(Flit)
  BY DEF Tracks, OnTheWay, Typed
<1>3. StartsWith(toBridge, v, g.taken, g.sent, FlitStream(g.size))
  BY <1>1, FieldsOf, FirstOfWire
<1>4. FlitStream(g.size)[v][g.taken[v]].id = g.taken[v]
  BY NumbersOf DEF FlitStream
<1> QED
  BY <1>3, <1>4 DEF StartsWith

(* Every flit ahead of the net bridge is numbered from the next one on.    *)
LEMMA FlitsAhead ==
    ASSUME Typed, NEW g \in Counts, Tracks(g), NEW v \in VCs,
           NEW i \in IndicesOf(toBridge, v)
    PROVE  toBridge[i].id \in Nat /\ toBridge[i].id >= g.taken[v]
<1>1. CarriesAll(toBridge, g.taken, g.sent, FlitStream(g.size)) /\ toBridge \in Seq(Flit)
  BY DEF Tracks, OnTheWay, Typed
<1>2. i \in 1 .. Len(toBridge) /\ toBridge[i].vc = v
  BY DEF IndicesOf
<1>3. PlaceOn(toBridge, i) \in Nat
  BY <1>1, <1>2, PlacesInOrder
<1>4. g.taken[v] + PlaceOn(toBridge, i) \in Nat
  BY <1>3, NumbersOf
<1>5. toBridge[i] = FlitStream(g.size)[v][g.taken[v] + PlaceOn(toBridge, i)]
  BY <1>1, <1>2 DEF CarriesAll
<1>6. toBridge[i].id = g.taken[v] + PlaceOn(toBridge, i)
  BY <1>4, <1>5 DEF FlitStream
<1> QED
  BY <1>3, <1>4, <1>6, NumbersOf

(* A joining bridge that has all flits of a packet has sent on all of it.  *)
LEMMA AllMadeAtTheEnd ==
    ASSUME WidthsDivide, Typed, Joining, NEW s \in Nat, NEW m \in Nat,
           Contain(s, AtSender(s), m), m <= AtReceiver(s)
    PROVE  m = AtReceiver(s) /\ Upto(s)[m] = AtSender(s)
<1> DEFINE u == Upto(s)
           w == AtReceiver(s)
           n == AtSender(s)
<1>1. Wide(s) = w /\ Narrow(s) = n
  BY DEF Wide, Narrow
<1>2. Ladder(u, w, n) /\ w \in Nat /\ n \in Nat
  BY <1>1, UptoIsLadder
<1>3. m < w => n < u[m + 1]
  BY <1>1 DEF Contain
<1> HIDE DEF u, w, n
<1>4. ~(m < w)
  <2>1. ASSUME m < w PROVE FALSE
    <3>1. u[m + 1] <= n /\ u[m + 1] \in Nat
      BY <1>2, <2>1 DEF Ladder
    <3> QED
      BY <1>2, <1>3, <2>1, <3>1
  <2> QED
    BY <2>1
<1>5. m = w
  BY <1>2, <1>4 DEF w
<1>6. u[m] = n
  BY <1>2, <1>5 DEF Ladder
<1> QED
  BY <1>5, <1>6 DEF u, w, n

(* What it holds back are the flits that are in no wide one yet.           *)
LEMMA HeldIsTheRest ==
    ASSUME WidthsDivide, Typed, NEW g \in Counts, Tracks(g), NEW v \in VCs,
           hop.serdes, Joining
    PROVE  Held(v) = g.taken[v] - Upto(g.size[v])[g.made[v]]
<1> DEFINE s == g.size[v]
           ahead == {toBridge[i].id : i \in IndicesOf(toBridge, v)}
           next == IF ahead # {} THEN Min(ahead) ELSE packet[v].sent
<1>1. Ordered(g, v) /\ AtTheSender(g, v) /\ InNetBridge(g, v)
  BY DEF Tracks, OfVC
<1>2. /\ s \in Nat /\ g.taken[v] \in Nat /\ g.sent[v] \in Nat /\ g.made[v] \in Nat
      /\ AtSender(s) \in Nat
  BY NumbersOf, UptoIsLadder
<1>3. g.taken[v] <= g.sent[v] /\ g.sent[v] <= AtSender(s)
  BY <1>1 DEF Ordered
<1>4. Held(v) = next - flitsSent[v]
  BY DEF Held
<1>5. CASE g.taken[v] # g.sent[v]
  <2>1. g.taken[v] \in ahead
    BY <1>5, FirstFlit
  <2>2. \A x \in ahead : x \in Nat /\ x >= g.taken[v]
    BY FlitsAhead
  <2>3. next = Min(ahead)
    BY <2>1
  <2> HIDE DEF ahead
  <2>4. Min(ahead) = g.taken[v]
    <3>1. \A x \in ahead : g.taken[v] <= x
      BY <1>2, <2>2
    <3>2. Min(ahead) \in ahead /\ \A x \in ahead : Min(ahead) <= x
      BY <2>1, <3>1 DEF Min
    <3>3. Min(ahead) \in Nat /\ g.taken[v] <= Min(ahead) /\ Min(ahead) <= g.taken[v]
      BY <2>1, <2>2, <3>1, <3>2
    <3> QED
      BY <1>2, <3>3
  <2>5. g.taken[v] < AtSender(s)
    BY <1>2, <1>3, <1>5
  <2>6. flitsSent[v] = Upto(s)[g.made[v]]
    BY <1>1, <2>5 DEF InNetBridge
  <2> QED
    BY <1>4, <2>3, <2>4, <2>6
<1>6. CASE g.taken[v] = g.sent[v]
  <2>1. ahead = {}
    BY <1>6, FirstFlit
  <2>2. next = packet[v].sent
    BY <2>1
  <2> HIDE DEF next, ahead
  <2>3. CASE g.sent[v] < AtSender(s)
    <3>1. packet[v].sent = g.sent[v]
      BY <1>1, <2>3 DEF AtTheSender
    <3>2. flitsSent[v] = Upto(s)[g.made[v]]
      BY <1>1, <1>6, <2>3 DEF InNetBridge
    <3> QED
      BY <1>4, <1>6, <2>2, <3>1, <3>2
  <2>4. CASE ~(g.sent[v] < AtSender(s))
    <3>1. g.taken[v] = AtSender(s)
      BY <1>2, <1>3, <1>6, <2>4
    <3>2. packet[v] = None /\ flitsSent[v] = 0
      BY <1>1, <1>2, <2>4, <3>1 DEF AtTheSender, InNetBridge
    <3>3. Upto(s)[g.made[v]] = AtSender(s)
      <4>1. Contain(s, AtSender(s), g.made[v]) /\ g.made[v] <= AtReceiver(s)
        BY <1>1, <1>2, <3>1, NumbersOf, UptoIsLadder DEF Ordered
      <4> QED
        BY <1>2, <4>1, AllMadeAtTheEnd
    <3>4. next = 0
      BY <2>2, <3>2 DEF None
    <3> HIDE DEF s
    <3> QED
      BY <1>2, <1>4, <3>1, <3>2, <3>3, <3>4 DEF s
  <2> QED
    BY <2>3, <2>4
<1> QED
  BY <1>5, <1>6

(* The totals of the wires, the buffers and the extraCredit entries.       *)
LEMMA WireCounts ==
    ASSUME WidthsDivide, Typed, NEW g \in Counts, Tracks(g), NEW v \in VCs
    PROVE  /\ CountOf(toBridge, v) = g.sent[v] - g.taken[v]
           /\ CountOf(toReceiver, v) = g.made[v] - g.entered[v]
           /\ CountOf(toCreditBridge, v) = g.left[v] - g.turned[v]
           /\ CountOf(toSender, v) = g.given[v] - g.back[v]
<1>1. ASSUME NEW S, NEW q \in Seq(S), NEW from \in Numbers, NEW to \in Numbers, NEW item,
             CarriesAll(q, from, to, item)
      PROVE  CountOf(q, v) = to[v] - from[v]
  <2>1. CountOf(q, v) \in Nat
    BY IndicesFinite
  <2>2. from[v] \in Nat /\ to[v] = from[v] + CountOf(q, v)
    BY <1>1 DEF CarriesAll, Numbers
  <2> QED
    BY <2>1, <2>2
<1>2. /\ toBridge \in Seq(Flit) /\ toReceiver \in Seq(Flit)
      /\ toCreditBridge \in Seq(Credit) /\ toSender \in Seq(Credit)
  BY DEF Typed
<1>3. OnTheWay(g)
  BY DEF Tracks
<1>4. CountOf(toBridge, v) = g.sent[v] - g.taken[v]
  BY <1>1, <1>2, <1>3, FieldsOf DEF OnTheWay
<1>5. CountOf(toReceiver, v) = g.made[v] - g.entered[v]
  BY <1>1, <1>2, <1>3, FieldsOf DEF OnTheWay
<1>6. CountOf(toCreditBridge, v) = g.left[v] - g.turned[v]
  BY <1>1, <1>2, <1>3, FieldsOf DEF OnTheWay
<1>7. CountOf(toSender, v) = g.given[v] - g.back[v]
  BY <1>1, <1>2, <1>3, FieldsOf DEF OnTheWay
<1> QED
  BY <1>4, <1>5, <1>6, <1>7

LEMMA EntryTotals ==
    ASSUME NEW e \in Seq(Int), NEW u \in [Nat -> Nat], NEW first \in Nat, NEW next \in Nat,
           Entries(e, u, first, next)
    PROVE  Total(e) = u[next] - u[first] /\ Len(e) = next - first
<1>1. Total(e) = SumOf(e)
  BY DEF Total, SumOf
<1>2. Len(e) = next - first /\ Len(e) \in Nat
  BY LengthOf DEF Entries
<1>3. u \in [Nat -> Int] /\ \A i \in 1 .. Len(e) : e[i] = u[first + i] - u[first + i - 1]
  BY DEF Entries
<1>4. SumOf(e) = u[first + Len(e)] - u[first]
  BY <1>3, SumOfDifferences
<1>5. first + Len(e) = next
  BY <1>2
<1> QED
  BY <1>1, <1>2, <1>4, <1>5

(* Without SerDes a flit and a credit pass as they are.                    *)
LEMMA PlainNumbers ==
    ASSUME WidthsDivide, Typed, NEW g \in Counts, NEW v \in VCs, Ordered(g, v), ~hop.serdes
    PROVE  g.made[v] = g.taken[v] /\ g.given[v] = g.turned[v]
<1> DEFINE s == g.size[v]
           u == Upto(s)
           n == AtSender(s)
<1>1. /\ s \in Nat /\ g.made[v] \in Nat /\ g.taken[v] \in Nat /\ g.given[v] \in Nat
      /\ g.turned[v] \in Nat /\ g.sent[v] \in Nat /\ g.left[v] \in Nat /\ g.entered[v] \in Nat
  BY NumbersOf
<1>2. /\ ~Joining /\ n \in Nat /\ AtReceiver(s) = n /\ Wide(s) = n
      /\ \A w \in Nat : w <= n => u[w] = w
  BY <1>1, PlainCounts
<1>3. /\ g.made[v] = u[g.taken[v]] /\ Contain(s, g.turned[v], g.given[v])
      /\ g.given[v] <= g.taken[v] /\ g.taken[v] <= g.sent[v] /\ g.sent[v] <= n
      /\ g.turned[v] <= g.left[v] /\ g.left[v] <= g.entered[v] /\ g.entered[v] <= g.made[v]
      /\ g.made[v] <= n
  BY <1>2 DEF Ordered
<1> HIDE DEF n, s
<1>4. g.taken[v] <= n /\ g.turned[v] <= n /\ g.given[v] <= n
  BY <1>1, <1>2, <1>3
<1>5. g.made[v] = g.taken[v]
  BY <1>1, <1>2, <1>3, <1>4
<1>6. u[g.given[v]] = g.given[v] /\ (g.given[v] < n => u[g.given[v] + 1] = g.given[v] + 1)
  BY <1>1, <1>2, <1>4
<1>7. g.given[v] <= g.turned[v] /\ (g.given[v] < n => g.turned[v] < g.given[v] + 1)
  BY <1>2, <1>3, <1>6 DEF Contain
<1>8. g.given[v] = g.turned[v]
  BY <1>1, <1>2, <1>4, <1>7
<1> QED
  BY <1>5, <1>8

LEMMA NumbersConserveCredits ==
    ASSUME WidthsDivide, IInv
    PROVE  CreditConservation
<1>1. PICK g \in Counts : Typed /\ Tracks(g)
  BY DEF IInv
<1>2. SUFFICES ASSUME NEW v \in VCs
               PROVE  LET beyond == CountOf(toReceiver, v) + Len(inBuffer[v])
                                      + CountOf(toCreditBridge, v)
                          around == credits[v] + CountOf(toBridge, v) + CountOf(toSender, v)
                      IN  IF ~hop.serdes THEN around + beyond = hop.depth
                          ELSE IF Joining
                          THEN /\ around + Held(v) + Total(extraCredit[v]) = hop.depth
                               /\ beyond = Len(extraCredit[v])
                          ELSE /\ around + Len(extraCredit[v]) = hop.depth
                               /\ beyond = Total(extraCredit[v]) - lenBuffer[v]
  BY DEF CreditConservation
<1> DEFINE beyond == CountOf(toReceiver, v) + Len(inBuffer[v]) + CountOf(toCreditBridge, v)
           around == credits[v] + CountOf(toBridge, v) + CountOf(toSender, v)
           e == extraCredit[v]
           u == Upto(g.size[v])
           made == g.made[v]
           turned == g.turned[v]
           taken == g.taken[v]
           given == g.given[v]
<1>3. /\ Ordered(g, v) /\ AtTheSender(g, v) /\ InCreditBridge(g, v) /\ AtTheReceiver(g, v)
  BY <1>1 DEF Tracks, OfVC
<1>4. /\ g.size[v] \in Nat /\ g.sent[v] \in Nat /\ g.entered[v] \in Nat /\ g.left[v] \in Nat
      /\ g.back[v] \in Nat /\ made \in Nat /\ turned \in Nat /\ taken \in Nat /\ given \in Nat
      /\ hop.depth \in Nat
  BY <1>1, NumbersOf, WidthsFit
<1>5. beyond = made - turned
  <2>1. Len(inBuffer[v]) = g.entered[v] - g.left[v]
    BY <1>3 DEF AtTheReceiver
  <2>2. CountOf(toReceiver, v) = made - g.entered[v]
        /\ CountOf(toCreditBridge, v) = g.left[v] - turned
    BY <1>1, WireCounts
  <2> QED
    BY <1>4, <2>1, <2>2
<1>6. around = hop.depth - taken + given
  <2>1. credits[v] = hop.depth - g.sent[v] + g.back[v]
    BY <1>3 DEF AtTheSender
  <2> QED
    BY <1>1, <1>4, <2>1, WireCounts
<1>7. u \in [Nat -> Nat] /\ e \in Seq(Int)
  BY <1>1, <1>4, UptoIsLadder DEF Ladder, Typed
<1>8. u[made] \in Nat /\ u[turned] \in Nat /\ u[taken] \in Nat /\ u[given] \in Nat
  BY <1>4, <1>7
<1>9. CASE ~hop.serdes
  <2>1. made = taken /\ given = turned
    BY <1>1, <1>3, <1>9, PlainNumbers
  <2> HIDE DEF made, taken, given, turned, around, beyond
  <2>2. around + beyond = hop.depth
    BY <1>4, <1>5, <1>6, <2>1
  <2> QED
    BY <1>9, <2>2 DEF around, beyond
<1>10. CASE hop.serdes /\ Joining
  <2>1. Entries(e, u, turned, made)
    BY <1>3, <1>10 DEF InCreditBridge
  <2>2. Held(v) = taken - u[made] /\ given = u[turned]
    BY <1>1, <1>3, <1>10, HeldIsTheRest DEF Ordered
  <2>3. e \in Seq(Int) /\ u \in [Nat -> Nat] /\ turned \in Nat /\ made \in Nat
    BY <1>4, <1>7
  <2> HIDE DEF made, taken, given, turned, around, beyond, e, u
  <2>4. Total(e) = u[made] - u[turned] /\ Len(e) = made - turned
    BY ONLY <2>1, <2>3, EntryTotals
  <2>5. around + Held(v) + Total(e) = hop.depth
    <3>1. Total(e) = u[made] - given /\ Held(v) = taken - u[made]
      BY <2>2, <2>4
    <3>2. around = hop.depth - taken + given
      BY <1>6
    <3>3. /\ u[made] \in Int /\ given \in Int /\ taken \in Int /\ hop.depth \in Int
          /\ Total(e) \in Int /\ Held(v) \in Int /\ around \in Int
      BY <1>4, <1>8, <3>1, <3>2
    <3> QED
      BY ONLY <3>1, <3>2, <3>3
  <2>6. beyond = Len(e)
    BY <1>5, <2>4
  <2> QED
    BY <1>10, <2>5, <2>6 DEF around, beyond, e
<1>11. CASE hop.serdes /\ ~Joining
  <2>1. Entries(e, u, given, taken) /\ lenBuffer[v] = turned - u[given] /\ made = u[taken]
    BY <1>3, <1>11 DEF InCreditBridge, Ordered
  <2>2. e \in Seq(Int) /\ u \in [Nat -> Nat] /\ given \in Nat /\ taken \in Nat
    BY <1>4, <1>7
  <2> HIDE DEF made, taken, given, turned, around, beyond, e, u
  <2>3. Total(e) = u[taken] - u[given] /\ Len(e) = taken - given
    BY ONLY <2>1, <2>2, EntryTotals
  <2>4. around + Len(e) = hop.depth
    BY <1>4, <1>6, <2>3
  <2>5. beyond = Total(e) - lenBuffer[v]
    BY <1>4, <1>5, <1>8, <2>1, <2>3
  <2> QED
    BY <1>11, <2>4, <2>5 DEF around, beyond, e
<1> QED
  BY <1>9, <1>10, <1>11

(* A hop that changes the width loses and makes no credit: the flits on    *)
(* their way, those the bridges stand for and the credits are always as    *)
(* many as the sender's buffers.                                           *)
THEOREM CreditsConserved ==
    ASSUME WidthsDivide
    PROVE  Spec => []CreditConservation
BY NumbersAccount, NumbersConserveCredits, PTL

LEMMA NumbersForget ==
    ASSUME WidthsDivide, IInv
    PROVE  IdleMeansForgotten
<1>1. PICK g \in Counts : Typed /\ Tracks(g)
  BY DEF IInv
<1>2. ASSUME NEW v \in VCs \ leased
      PROVE  /\ credits[v] = hop.depth
             /\ sizeSent[v] = 0 /\ flitsSent[v] = 0
             /\ extraCredit[v] = << >> /\ lenBuffer[v] = 0
  <2>1. /\ Ordered(g, v) /\ AtTheSender(g, v) /\ InNetBridge(g, v) /\ InCreditBridge(g, v)
    BY <1>1 DEF Tracks, OfVC
  <2>2. g.size[v] = 0
    BY <2>1, NumbersOf DEF AtTheSender
  <2>3. /\ g.sent[v] = 0 /\ g.taken[v] = 0 /\ g.made[v] = 0 /\ g.entered[v] = 0
        /\ g.left[v] = 0 /\ g.turned[v] = 0 /\ g.given[v] = 0 /\ g.back[v] = 0
    BY <1>1, <2>1, <2>2, NoPacketNoNumbers
  <2>4. AtSender(0) = 0 /\ AtReceiver(0) = 0 /\ Upto(0)[0] = 0
    BY <1>1, UptoIsLadder DEF Ladder
  <2>5. credits[v] = hop.depth
    <3>1. hop.depth \in Int
      BY <1>1, WidthsFit
    <3> QED
      BY <2>1, <2>3, <3>1 DEF AtTheSender
  <2>6. sizeSent[v] = 0 /\ flitsSent[v] = 0
    BY <2>1, <2>2, <2>3, <2>4 DEF InNetBridge
  <2>7. Len(extraCredit[v]) = 0 /\ lenBuffer[v] = 0
    BY <2>1, <2>2, <2>3, <2>4 DEF InCreditBridge, Entries
  <2>8. extraCredit[v] \in Seq(Int)
    BY <1>1 DEF Typed
  <2> QED
    BY <2>5, <2>6, <2>7, <2>8, NoLength
<1> QED
  BY <1>2 DEF IdleMeansForgotten

(* A VC that is IDLE_ again has all its credits, and neither bridge keeps  *)
(* anything of its last packet.                                            *)
THEOREM NothingLeftBehind ==
    ASSUME WidthsDivide
    PROVE  Spec => []IdleMeansForgotten
BY NumbersAccount, NumbersForget, PTL

(* A credit that reaches the credit bridge finds the number that the net   *)
(* bridge has left for it, which is not 0.                                 *)
LEMMA CreditFindsNumber ==
    ASSUME WidthsDivide, Typed, NEW g \in Counts, Tracks(g), hop.serdes,
           toCreditBridge # << >>, NEW v \in VCs, v = Head(toCreditBridge).vc
    PROVE  extraCredit[v] # << >> /\ Head(extraCredit[v]) > 0
<1> DEFINE s == g.size[v]
           u == Upto(s)
           e == extraCredit[v]
           k == g.turned[v]
           m == g.made[v]
           q == g.given[v]
           t == g.taken[v]
<1>1. toCreditBridge \in Seq(Credit) /\ e \in Seq(Int)
  BY DEF Typed
<1>2. CarriesAll(toCreditBridge, g.turned, g.left, CreditStream(LastCredit(g)))
  BY DEF Tracks, OnTheWay
<1>3. g.turned[v] < g.left[v]
  BY <1>1, <1>2, FieldsOf, WireTakes
<1>4. Ordered(g, v) /\ InCreditBridge(g, v)
  BY DEF Tracks, OfVC
<1>5. s \in Nat /\ k \in Nat /\ m \in Nat /\ q \in Nat /\ t \in Nat
  BY NumbersOf
<1>6. k < m /\ m <= AtReceiver(s) /\ t <= AtSender(s)
  <2>1. /\ g.left[v] <= g.entered[v] /\ g.entered[v] <= m /\ m <= AtReceiver(s)
        /\ g.left[v] \in Nat /\ g.entered[v] \in Nat
    BY <1>4, NumbersOf DEF Ordered
  <2>2. t <= g.sent[v] /\ g.sent[v] <= AtSender(s) /\ g.sent[v] \in Nat
    BY <1>4, NumbersOf DEF Ordered
  <2>3. AtSender(s) \in Nat /\ AtReceiver(s) \in Nat
    BY <1>5, UptoIsLadder
  <2>4. k < m
    BY <1>3, <1>5, <2>1
  <2> HIDE DEF s
  <2>5. t <= AtSender(s)
    BY <1>5, <2>2, <2>3
  <2> QED
    BY <2>1, <2>4, <2>5
<1>7. u \in [Nat -> Nat] /\ Wide(s) \in Nat /\ \A x \in Nat : x < Wide(s) => u[x] < u[x + 1]
  BY <1>5, UptoIsLadder DEF Ladder
<1> DEFINE first == IF Joining THEN k ELSE q
           next  == IF Joining THEN m ELSE t
<1>8. Entries(e, u, first, next)
  BY <1>4 DEF InCreditBridge
<1>9. first \in Nat /\ next \in Nat /\ first < next /\ next <= Wide(s)
  <2>1. CASE Joining
    BY <1>5, <1>6, <2>1 DEF Wide
  <2>2. CASE ~Joining
    <3>1. m = u[t] /\ u[q] <= k /\ q <= t
      BY <1>4, <2>2 DEF Ordered, Contain
    <3>2. Wide(s) = AtSender(s)
      BY <2>2 DEF Wide
    <3> HIDE DEF m, k, q, t, u
    <3>3. q # t
      <4>1. ASSUME q = t PROVE FALSE
        <5>1. u[q] = u[t] /\ u[q] \in Nat
          BY <1>5, <1>7, <4>1
        <5> QED
          BY <1>5, <1>6, <3>1, <5>1
      <4> QED
        BY <4>1
    <3> QED
      BY <1>5, <1>6, <2>2, <3>1, <3>2, <3>3
  <2> QED
    BY <2>1, <2>2
<1> HIDE DEF e, u, first, next
<1>10. e # << >> /\ Head(e) = u[first + 1] - u[first]
  BY <1>1, <1>7, <1>8, <1>9, EntryLeaves
<1>11. u[first] < u[first + 1] /\ u[first] \in Nat /\ u[first + 1] \in Nat
  <2> HIDE DEF s
  <2>1. first < Wide(s) /\ first + 1 \in Nat
    BY <1>7, <1>9
  <2>2. u[first] < u[first + 1]
    BY <1>7, <1>9, <2>1
  <2> QED
    BY <1>7, <1>9, <2>1, <2>2
<1> QED
  BY <1>10, <1>11 DEF e

(* What the net bridge makes of a flit stays inside the packet.            *)
LEMMA PartsInside ==
    ASSUME WidthsDivide, Typed, NEW g \in Counts, Tracks(g), hop.serdes, toBridge # << >>,
           NEW f, f = Head(toBridge)
    PROVE  /\ IF Joining THEN FlitPossible(f) < 2 ELSE FlitPossible(f) > 0
           /\ \A i \in DOMAIN Parts(f) : Parts(f)[i].id < FlitsAt(f, hop.dst)
<1>1. f \in Flit
  <2>1. toBridge \in Seq(Flit)
    BY DEF Typed
  <2> QED
    BY <2>1, TakeFrom
<1>2. PICK v \in VCs : v = f.vc
  BY <1>1 DEF Flit
<1> DEFINE s == g.size[v]
           t == g.taken[v]
           m == g.made[v]
<1>3. s \in Nat /\ t \in Nat /\ m \in Nat
  BY NumbersOf
<1>4. Arrives(f, s, t, m)
  BY <1>2, FlitArrives
<1> HIDE DEF s, t, m
<1>5. PICK p \in Nat : Makes(f, s, t, m, p)
  BY <1>3, <1>4, NetBridgeMakes
<1>6. FlitPossible(f) = p /\ IF Joining THEN p < 2 ELSE p > 0
  BY <1>5 DEF Makes
<1>7. FlitsAt(f, hop.dst) = AtReceiver(s)
  BY <1>4 DEF Arrives, FlitsAt, AtReceiver
<1>8. ASSUME NEW i \in DOMAIN Parts(f)
      PROVE  Parts(f)[i].id < FlitsAt(f, hop.dst)
  <2>1. i \in 1 .. p /\ Parts(f)[i] = [f EXCEPT !.id = NewId(f, i - 1)]
    BY <1>6, <1>8 DEF Parts
  <2>2. Parts(f)[i].id = m + i - 1
    <3>1. NewId(f, i - 1) = m + i - 1
      BY <1>5, <2>1 DEF Makes
    <3> QED
      BY <1>1, <2>1, <3>1 DEF Flit
  <2>3. m + p <= AtReceiver(s) /\ AtReceiver(s) \in Nat
    BY <1>3, <1>5, UptoIsLadder DEF Makes
  <2> QED
    BY <1>3, <1>7, <2>1, <2>2, <2>3
<1> QED
  BY <1>6, <1>8

LEMMA NumbersAssert ==
    ASSUME WidthsDivide, WidthsDiffer, IInv
    PROVE  AssertsHold
<1>1. PICK g \in Counts : Typed /\ Tracks(g)
  BY DEF IInv
<1>2. ASSUME hop.serdes, toCreditBridge # << >>
      PROVE  LET numbers == extraCredit[Head(toCreditBridge).vc]
             IN  numbers # << >> /\ Head(numbers) > 0
  <2>1. toCreditBridge \in Seq(Credit)
    BY <1>1 DEF Typed
  <2>2. Head(toCreditBridge) \in Credit
    BY <1>2, <2>1, TakeFrom
  <2>3. Head(toCreditBridge).vc \in VCs
    BY <2>2 DEF Credit
  <2> QED
    BY <1>1, <1>2, <2>3, CreditFindsNumber
<1>3. hop.serdes => hop.src # hop.dst
  BY <1>1 DEF Typed, WidthsDiffer
<1>4. hop.serdes /\ ~Joining => hop.src > hop.dst
  BY <1>1, <1>3, WidthsFit DEF Joining
<1>5. ASSUME hop.serdes, toBridge # << >>, NEW f, f = Head(toBridge)
      PROVE  /\ IF Joining THEN FlitPossible(f) < 2
                ELSE FlitPossible(f) > 0 /\ hop.src > hop.dst
             /\ \A i \in DOMAIN Parts(f) : Parts(f)[i].id < FlitsAt(f, hop.dst)
  BY <1>1, <1>4, <1>5, PartsInside
<1> QED
  BY <1>2, <1>3, <1>5 DEF AssertsHold

(* Where no bridge with SerDes stands between equal widths, none of the    *)
(* assertions of flitisizeAndSend, flit::serialize and deserialize fails.  *)
THEOREM BridgesAssert ==
    ASSUME WidthsDivide, WidthsDiffer
    PROVE  Spec => []AssertsHold
BY NumbersAccount, NumbersAssert, PTL

(* The flits of a VC behind the net bridge, in the receiver and on the way *)
(* to it, are together a piece of the packet's stream.                     *)
LEMMA BehindIsStream ==
    ASSUME Typed, NEW g \in Counts, Tracks(g), NEW v \in VCs
    PROVE  /\ inBuffer[v] \o toReceiver \in Seq(Flit)
           /\ CarriesAll(inBuffer[v] \o toReceiver, [g.entered EXCEPT ![v] = g.left[v]], g.made,
                      FlitStream(g.size))
<1> DEFINE p == inBuffer[v]
           n == g.left[v]
           item == FlitStream(g.size)
<1>1. p \in Seq(Flit) /\ toReceiver \in Seq(Flit)
  BY DEF Typed
<1>2. /\ Len(p) = g.entered[v] - n
      /\ \A i \in 1 .. Len(p) : p[i] = item[v][n + i - 1]
  BY DEF Tracks, OfVC, AtTheReceiver
<1>3. n \in Nat /\ g.entered[v] \in Nat
  BY NumbersOf
<1>4. g.entered[v] = n + Len(p)
  BY <1>2, <1>3
<1>5. ItemsFrom(p, v, n, item)
  <2>1. ASSUME NEW i \in 1 .. Len(p)
        PROVE  p[i].vc = v /\ p[i] = item[v][n + (i - 1)]
    <3>1. Len(p) \in Nat
      BY <1>1, LengthOf
    <3>2. n + (i - 1) = n + i - 1 /\ n + (i - 1) \in Nat
      BY <1>3, <3>1
    <3>3. item[v][n + (i - 1)].vc = v
      BY <3>2 DEF FlitStream
    <3> QED
      BY <1>2, <3>2, <3>3
  <2> QED
    BY <2>1 DEF ItemsFrom
<1>6. CarriesAll(toReceiver, g.entered, g.made, item)
  BY DEF Tracks, OnTheWay
<1>7. g.entered \in [VCs -> Nat] /\ g.made \in [VCs -> Nat]
  BY FieldsOf DEF Numbers
<1> HIDE DEF item, p, n
<1>8. CarriesAll(p \o toReceiver, [g.entered EXCEPT ![v] = n], g.made, item)
  BY <1>1, <1>3, <1>4, <1>5, <1>6, <1>7, CarriesBefore
<1>9. p \o toReceiver \in Seq(Flit)
  BY <1>1, ConcatProperties
<1> QED
  BY <1>8, <1>9 DEF p, n, item

LEMMA NumbersKeepWhole ==
    ASSUME WidthsDivide, IInv
    PROVE  PacketsWhole
<1>1. PICK g \in Counts : Typed /\ Tracks(g)
  BY DEF IInv
<1>2. SUFFICES ASSUME NEW v \in VCs
               PROVE  LET behind == inBuffer[v] \o toReceiver
                          places == IndicesOf(behind, v)
                      IN  \A i \in places :
                            /\ behind[i].id < FlitsAt(behind[i], hop.dst)
                            /\ \A j \in places :
                                 i < j /\ (\A k \in i + 1 .. j - 1 : k \notin places)
                                 => Follows(behind[i], behind[j])
  BY DEF PacketsWhole
<1> DEFINE behind == inBuffer[v] \o toReceiver
           places == IndicesOf(behind, v)
           first == [g.entered EXCEPT ![v] = g.left[v]]
           n == g.left[v]
           s == g.size[v]
           last == AtReceiver(s)
<1>3. behind \in Seq(Flit) /\ CarriesAll(behind, first, g.made, FlitStream(g.size))
  BY <1>1, BehindIsStream
<1>4. n \in Nat /\ s \in Nat /\ g.made[v] \in Nat /\ last \in Nat
  BY <1>1, NumbersOf, UptoIsLadder
<1>5. g.made[v] <= last
  BY <1>1 DEF Tracks, OfVC, Ordered
<1>6. first \in [VCs -> Nat] /\ first[v] = n
  BY <1>4, FieldsOf DEF Numbers
<1> HIDE DEF behind, first, n, s, last
<1>7. g.made[v] = n + CountOf(behind, v)
  BY <1>3, <1>6 DEF CarriesAll
<1>8. ASSUME NEW i \in places
      PROVE  /\ i \in 1 .. Len(behind) /\ behind[i].vc = v
             /\ behind[i].id = n + PlaceOn(behind, i) /\ behind[i].size = s
             /\ PlaceOn(behind, i) \in Nat /\ n + PlaceOn(behind, i) < last
             /\ FlitsAt(behind[i], hop.dst) = last
  <2>1. i \in 1 .. Len(behind) /\ behind[i].vc = v
    BY DEF IndicesOf
  <2>2. PlaceOn(behind, i) \in Nat /\ PlaceOn(behind, i) < CountOf(behind, v)
    BY <1>3, <2>1, PlacesInOrder
  <2>3. behind[i] = FlitStream(g.size)[v][n + PlaceOn(behind, i)]
    BY <1>3, <1>6, <2>1 DEF CarriesAll
  <2>4. behind[i] = [vc |-> v, id |-> n + PlaceOn(behind, i), size |-> s]
    BY <1>4, <2>2, <2>3 DEF FlitStream, s
  <2>5. CountOf(behind, v) \in Nat
    BY <1>3, IndicesFinite
  <2>6. n + PlaceOn(behind, i) < last
    BY <1>4, <1>5, <1>7, <2>2, <2>5
  <2>7. behind[i].id = n + PlaceOn(behind, i) /\ behind[i].size = s
    BY <2>4
  <2>8. FlitsAt(behind[i], hop.dst) = last
    BY <2>7 DEF FlitsAt, AtReceiver, last
  <2> QED
    BY <2>1, <2>2, <2>6, <2>7, <2>8
<1>9. ASSUME NEW i \in places, NEW j \in places, i < j,
             \A k \in i + 1 .. j - 1 : k \notin places
      PROVE  Follows(behind[i], behind[j])
  <2>1. /\ i \in 1 .. Len(behind) /\ behind[i].vc = v
        /\ j \in 1 .. Len(behind) /\ behind[j].vc = v
        /\ PlaceOn(behind, i) \in Nat /\ PlaceOn(behind, j) \in Nat
    BY <1>8
  <2>2. \A k \in i + 1 .. j - 1 : behind[k].vc # behind[i].vc
    <3>1. Len(behind) \in Nat
      BY <1>3, LengthOf
    <3>2. ASSUME NEW k \in i + 1 .. j - 1 PROVE k \in 1 .. Len(behind)
      BY <2>1, <3>1
    <3> QED
      BY <1>9, <2>1, <3>2 DEF IndicesOf
  <2>3. PlaceOn(behind, j) = PlaceOn(behind, i) + 1
    BY <1>3, <1>9, <2>1, <2>2, PlacesInOrder
  <2>4. /\ behind[i].id = n + PlaceOn(behind, i) /\ behind[i].size = s
        /\ behind[j].id = n + PlaceOn(behind, j) /\ behind[j].size = s
        /\ n + PlaceOn(behind, j) < last /\ FlitsAt(behind[i], hop.dst) = last
    BY <1>8
  <2>5. behind[j].id = behind[i].id + 1
    BY <1>4, <2>1, <2>3, <2>4
  <2>6. ~IsTail(behind[i], hop.dst)
    <3>1. n + PlaceOn(behind, i) # last - 1
      BY <1>4, <2>1, <2>3, <2>4
    <3> QED
      BY <2>4, <3>1 DEF IsTail
  <2> QED
    BY <2>4, <2>5, <2>6 DEF Follows
<1>10. ASSUME NEW i \in places
       PROVE  behind[i].id < FlitsAt(behind[i], hop.dst)
  BY <1>8, <1>10
<1> QED
  BY <1>9, <1>10 DEF behind

(* Behind the net bridge every packet has the flits of its new width, in   *)
(* order and without a gap.                                                *)
THEOREM PacketsStayWhole ==
    ASSUME WidthsDivide
    PROVE  Spec => []PacketsWhole
BY NumbersAccount, NumbersKeepWhole, PTL
=============================================================================
