---------------------------- MODULE DataTheorems ----------------------------
(***************************************************************************)
(* Numbers, queues and sets as the models use them: the least elements by  *)
(* which the arbiters and allocators choose, queues at both ends, small    *)
(* sets as sequences, and what appending to a wire and taking its head do  *)
(* to the entries of a VC.                                                 *)
(***************************************************************************)
EXTENDS Wires, SequencesExt, FiniteSetsExt, FiniteSetTheorems, SequenceTheorems,
        WellFoundedInduction, TLAPS

(* How many times something is so.                                         *)
One(b) == IF b THEN 1 ELSE 0

(* A nonempty set of natural numbers has a least member.                   *)
LEMMA LeastNumber ==
    ASSUME NEW S \in SUBSET Nat, S # {}
    PROVE  \E m \in S : \A k \in S : m <= k
<1>1. PICK m \in S : \A y \in S : ~(<<y, m>> \in OpToRel(<, Nat))
  BY NatLessThanWellFounded, WFMin, Zenon
<1>2. ASSUME NEW k \in S PROVE ~(k < m)
  BY <1>1 DEF OpToRel
<1> QED
  BY <1>2

(* Among things that are ranked there is one of least rank.                *)
LEMMA LeastRank ==
    ASSUME NEW S, S # {}, NEW rank \in [S -> Nat]
    PROVE  \E x \in S : \A y \in S : rank[x] <= rank[y]
<1> DEFINE R == {rank[x] : x \in S}
<1>1. R \in SUBSET Nat /\ R # {}
  OBVIOUS
<1>2. PICK m \in R : \A k \in R : m <= k
  BY <1>1, LeastNumber
<1>3. PICK x \in S : rank[x] = m
  BY <1>2
<1> QED
  BY <1>2, <1>3

(* A place in a round of n, counted from any start.                        *)
LEMMA InARound == \A x \in Int, n \in Nat \ {0} : x % n \in 0 .. n - 1
OBVIOUS

(* The first member of a set of numbers at or after start, modulo n.       *)
LEMMA FirstInRound ==
    ASSUME NEW S \in SUBSET Int, S # {}, NEW start \in Int, NEW n \in Nat \ {0}
    PROVE  \E x \in S : \A y \in S : (x - start) % n <= (y - start) % n
<1> DEFINE rank == [x \in S |-> (x - start) % n]
<1>1. rank \in [S -> Nat]
  <2>1. \A x \in S : x - start \in Int
    OBVIOUS
  <2>2. \A x \in S : (x - start) % n \in Nat
    BY <2>1, InARound
  <2> QED
    BY <2>2
<1>2. \A x \in S : rank[x] = (x - start) % n
  OBVIOUS
<1>3. \E x \in S : \A y \in S : rank[x] <= rank[y]
  <2> HIDE DEF rank
  <2> QED
    BY <1>1, LeastRank
<1> QED
  BY <1>2, <1>3

(* What the minimum of a set of numbers is taken for.                      *)
LEMMA MinPicks ==
    ASSUME NEW S \in SUBSET Nat, S # {}
    PROVE  Min(S) \in S
BY LeastNumber DEF Min

(* What the maximum of a set of numbers up to b is taken for.              *)
LEMMA MaxPicks ==
    ASSUME NEW S \in SUBSET Nat, S # {}, NEW b \in Nat, \A x \in S : x <= b
    PROVE  Max(S) \in S /\ \A x \in S : x <= Max(S)
<1> DEFINE rank == [x \in S |-> b - x]
<1>1. \A x \in S : b - x \in Nat
  OBVIOUS
<1>2. rank \in [S -> Nat]
  BY <1>1
<1>3. PICK x \in S : \A y \in S : rank[x] <= rank[y]
  BY <1>2, LeastRank
<1>4. \A y \in S : x >= y
  <2> SUFFICES ASSUME NEW y \in S PROVE x >= y
    OBVIOUS
  <2>1. b - x <= b - y
    BY <1>3
  <2> QED
    BY <2>1
<1>5. Max(S) \in S /\ \A y \in S : Max(S) >= y
  BY <1>4 DEF Max
<1> QED
  BY <1>5

(* The last member of a set of numbers at or after start, modulo n.        *)
LEMMA LastInRound ==
    ASSUME NEW S \in SUBSET Int, S # {}, NEW start \in Int, NEW n \in Nat \ {0}
    PROVE  \E x \in S : \A y \in S : ~((x - start) % n < (y - start) % n)
<1> DEFINE rank == [x \in S |-> n - 1 - ((x - start) % n)]
<1>1. \A x \in S : (x - start) % n \in 0 .. n - 1
  <2>1. \A x \in S : x - start \in Int
    OBVIOUS
  <2> QED
    BY <2>1, InARound
<1>2. rank \in [S -> Nat]
  <2>1. \A k \in 0 .. n - 1 : n - 1 - k \in Nat
    OBVIOUS
  <2> QED
    BY <1>1, <2>1
<1>3. PICK x \in S : \A y \in S : rank[x] <= rank[y]
  <2> HIDE DEF rank
  <2> QED
    BY <1>2, LeastRank
<1>4. ASSUME NEW y \in S PROVE ~((x - start) % n < (y - start) % n)
  <2>1. n - 1 - ((x - start) % n) <= n - 1 - ((y - start) % n)
    BY <1>3
  <2> DEFINE a == (x - start) % n
             b == (y - start) % n
  <2>2. a \in Int /\ b \in Int
    BY <1>1
  <2> HIDE DEF a, b
  <2>3. ~(a < b)
    BY <2>1, <2>2 DEF a, b
  <2> QED
    BY <2>3 DEF a, b
<1> QED
  BY <1>4

(* Numbers of one round are told apart by their distance from any number.  *)
LEMMA RoundIsInjective ==
    ASSUME NEW n \in Nat \ {0}, NEW a \in 0 .. n - 1, NEW j \in 0 .. n - 1,
           NEW k \in 0 .. n - 1, (j - a) % n = (k - a) % n
    PROVE  j = k
<1>1. ASSUME NEW i \in 0 .. n - 1
      PROVE  (i - a) % n = IF i >= a THEN i - a ELSE i - a + n
  <2> DEFINE x == i - a
  <2>1. x \in Int /\ x \in 1 - n .. n - 1 /\ (i >= a <=> x >= 0)
    OBVIOUS
  <2> HIDE DEF x
  <2>2. CASE x >= 0
    <3>1. x % n = x
      BY <2>1, <2>2
    <3> QED
      BY <2>1, <2>2, <3>1 DEF x
  <2>3. CASE x < 0
    <3>1. x % n = x + n
      <4> DEFINE q == x \div n
                 r == x % n
      <4>1. q \in Int /\ r \in 0 .. n - 1 /\ x = n * q + r
        BY ONLY <2>1, n \in Nat \ {0}
      <4> HIDE DEF q, r
      <4>2. q = -1
        <5>1. CASE q >= 0
          <6>1. n * q >= 0
            BY <4>1, <5>1
          <6> DEFINE p == n * q
          <6>2. p \in Int
            BY <4>1
          <6> HIDE DEF p
          <6> QED
            BY <2>1, <2>3, <4>1, <6>1, <6>2 DEF p
        <5>2. CASE q <= -2
          <6>1. n * q <= n * (-2)
            BY <4>1, <5>2
          <6> DEFINE p == n * q
          <6>2. p \in Int /\ n * (-2) = -(n + n)
            BY <4>1
          <6> HIDE DEF p
          <6> QED
            BY <2>1, <2>3, <4>1, <6>1, <6>2 DEF p
        <5> QED
          BY <4>1, <5>1, <5>2
      <4>3. n * (-1) = -n
        OBVIOUS
      <4> QED
        BY <4>1, <4>2, <4>3 DEF r
    <3> QED
      BY <2>1, <2>3, <3>1 DEF x
  <2> QED
    BY <2>1, <2>2, <2>3
<1>2. /\ (j - a) % n = IF j >= a THEN j - a ELSE j - a + n
      /\ (k - a) % n = IF k >= a THEN k - a ELSE k - a + n
  BY <1>1
<1> QED
  BY <1>2

(* VC k of a vnet, among the VCs of all vnets.                             *)
LEMMA DivOfSum ==
    ASSUME NEW n \in Nat, NEW d \in Nat \ {0}, NEW k \in 0 .. d - 1
    PROVE  (n * d + k) \div d = n /\ n * d + k \in Nat
<1> DEFINE p == n * d
<1>1. p \in Nat
  OBVIOUS
<1> DEFINE q == (p + k) \div d
           r == (p + k) % d
<1>2. q \in Int /\ r \in 0 .. d - 1 /\ p + k = d * q + r
  <2> HIDE DEF p
  <2> QED
    BY <1>1
<1>3. d * q - d * n = k - r
  BY <1>2
<1>4. d * (q - n) = k - r
  BY <1>2, <1>3
<1>5. -d < k - r /\ k - r < d
  BY <1>2
<1>6. \A z \in Int : -d < d * z /\ d * z < d => z = 0
  OBVIOUS
<1>7. q - n = 0
  <2>1. q - n \in Int
    BY <1>2
  <2> HIDE DEF q, r
  <2> QED
    BY <1>4, <1>5, <1>6, <2>1
<1> QED
  BY <1>1, <1>2, <1>7

(* The vnet of a VC, and the VCs of a vnet.                                *)
LEMMA DivBelow ==
    ASSUME NEW n \in Nat, NEW d \in Nat \ {0}, NEW x \in 0 .. n * d - 1
    PROVE  x \div d \in 0 .. n - 1
<1> DEFINE p == n * d
           q == x \div d
           r == x % d
<1>1. p \in Nat /\ x \in Nat /\ x < p
  OBVIOUS
<1>2. q \in Nat /\ r \in 0 .. d - 1 /\ x = d * q + r
  <2>1. x \in Nat
    BY <1>1
  <2> QED
    BY ONLY <2>1, d \in Nat \ {0}
<1>3. d * q < d * n
  BY <1>1, <1>2
<1>4. \A y \in Nat : n <= y => d * n <= d * y
  OBVIOUS
<1>5. q < n
  <2> HIDE DEF q
  <2> QED
    BY <1>2, <1>3, <1>4
<1> QED
  BY <1>2, <1>5

LEMMA SumBelow ==
    ASSUME NEW m \in Nat, NEW d \in Nat \ {0}, NEW n \in 0 .. m - 1, NEW k \in 0 .. d - 1
    PROVE  n * d + k \in 0 .. m * d - 1
<1>1. n * d \in Nat /\ m * d \in Nat
  OBVIOUS
<1>2. m * d >= (n + 1) * d
  <2>1. m - (n + 1) \in Nat
    OBVIOUS
  <2>2. (m - (n + 1)) * d \in Nat
    BY <2>1
  <2>3. (m - (n + 1)) * d = m * d - (n + 1) * d
    OBVIOUS
  <2> QED
    BY <2>2, <2>3
<1>3. (n + 1) * d = n * d + d
  OBVIOUS
<1> DEFINE a == n * d
           b == m * d
<1>4. a \in Nat /\ b \in Nat /\ b >= a + d
  BY <1>1, <1>2, <1>3
<1> HIDE DEF a, b
<1>5. a + k \in 0 .. b - 1
  BY <1>4
<1> QED
  BY <1>5 DEF a, b

(* Counting up, with the quotient and the remainder.                       *)
LEMMA DivAndMod ==
    ASSUME NEW x \in Nat, NEW d \in Nat \ {0}
    PROVE  x \div d \in Nat /\ x % d \in 0 .. d - 1 /\ x = (x \div d) * d + (x % d)
<1> DEFINE q == x \div d
           r == x % d
<1>1. q \in Nat /\ r \in 0 .. d - 1 /\ x = d * q + r
  BY ONLY x \in Nat, d \in Nat \ {0}
<1>2. d * q = q * d
  <2> HIDE DEF q
  <2> QED
    BY <1>1
<1>3. q \in Nat /\ r \in 0 .. d - 1 /\ x = q * d + r
  <2> HIDE DEF q, r
  <2> QED
    BY <1>1, <1>2
<1> QED
  BY <1>3, Zenon

LEMMA OnlyDivAndMod ==
    ASSUME NEW x \in Nat, NEW d \in Nat \ {0}, NEW n \in Nat, NEW k \in 0 .. d - 1,
           x = n * d + k
    PROVE  x \div d = n /\ x % d = k
<1>1. x \div d = n
  BY DivOfSum
<1> DEFINE p == n * d
           r == x % d
<1>2. p \in Nat /\ x = p + r /\ x = p + k
  <2>1. x = (x \div d) * d + r
    BY DivAndMod
  <2>2. x = n * d + r
    BY <1>1, <2>1, Zenon
  <2> QED
    BY <2>2
<1>3. r \in Int
  BY DivAndMod
<1> HIDE DEF p, r
<1>4. r = k
  BY <1>2, <1>3
<1> QED
  BY <1>1, <1>4 DEF r

LEMMA DivAndModOfNext ==
    ASSUME NEW x \in Nat, NEW d \in Nat \ {0}
    PROVE  /\ (x % d) + 1 < d => (x + 1) \div d = x \div d /\ (x + 1) % d = (x % d) + 1
           /\ (x % d) + 1 = d => (x + 1) \div d = (x \div d) + 1 /\ (x + 1) % d = 0
<1> DEFINE q == x \div d
           r == x % d
           p == q * d
<1>1. q \in Nat /\ r \in 0 .. d - 1 /\ x = p + r /\ p \in Nat
  <2>1. q \in Nat /\ r \in 0 .. d - 1 /\ x = p + r
    BY DivAndMod, Zenon
  <2> HIDE DEF q
  <2>2. p \in Nat
    BY <2>1
  <2> QED
    BY <2>1, <2>2
<1>2. (q + 1) * d = p + d /\ q + 1 \in Nat
  BY <1>1
<1>3. ASSUME r + 1 < d PROVE (x + 1) \div d = q /\ (x + 1) % d = r + 1
  <2>1. r + 1 \in 0 .. d - 1 /\ x + 1 = p + (r + 1)
    <3> HIDE DEF p, q, r
    <3> QED
      BY <1>1, <1>3
  <2> HIDE DEF q, r
  <2> QED
    BY <1>1, <2>1, OnlyDivAndMod
<1>4. ASSUME r + 1 = d PROVE (x + 1) \div d = q + 1 /\ (x + 1) % d = 0
  <2>1. x + 1 = (q + 1) * d + 0
    <3>1. x + 1 = p + d
      <4> HIDE DEF p, q, r
      <4> QED
        BY <1>1, <1>4
    <3> HIDE DEF q, r
    <3> QED
      BY <1>2, <3>1
  <2>2. 0 \in 0 .. d - 1
    OBVIOUS
  <2> HIDE DEF q, r
  <2> QED
    BY <1>2, <2>1, <2>2, OnlyDivAndMod
<1> QED
  BY <1>3, <1>4

(* Numbers of the same remainder, within one round of each other.          *)
LEMMA SameRound ==
    ASSUME NEW n \in Nat \ {0}, NEW a \in Nat, NEW x \in a .. a + n - 1,
           NEW y \in a .. a + n - 1, x % n = y % n
    PROVE  x = y
<1> DEFINE u == x \div n
           v == y \div n
           r == x % n
<1>1. x \in Nat /\ y \in Nat
  OBVIOUS
<1>2. u \in Nat /\ x = u * n + r /\ r \in 0 .. n - 1
  BY <1>1, DivAndMod
<1>3. v \in Nat /\ y = v * n + r
  BY <1>1, DivAndMod
<1> HIDE DEF u, v, r
<1>4. u * n - v * n = x - y
  <2> DEFINE p == u * n
             q == v * n
  <2>1. p \in Nat /\ q \in Nat
    BY <1>2, <1>3
  <2> HIDE DEF p, q
  <2>2. x = p + r /\ y = q + r
    BY <1>2, <1>3 DEF p, q
  <2>3. p - q = x - y
    BY <1>1, <1>2, <2>1, <2>2
  <2> QED
    BY <2>3 DEF p, q
<1>5. n * (u - v) = x - y
  BY <1>2, <1>3, <1>4
<1>6. -n < x - y /\ x - y < n
  OBVIOUS
<1>7. \A z \in Int : -n < n * z /\ n * z < n => z = 0
  OBVIOUS
<1>8. u = v
  <2>1. u - v \in Int
    BY <1>2, <1>3
  <2>2. u - v = 0
    BY <1>5, <1>6, <1>7, <2>1
  <2> QED
    BY <1>2, <1>3, <2>2
<1> QED
  BY <1>2, <1>3, <1>8

(* A number divided twice.                                                 *)
LEMMA DivTwice ==
    ASSUME NEW x \in Nat, NEW d \in Nat \ {0}
    PROVE  x \div (d * d) = (x \div d) \div d
<1> DEFINE q == x \div d
           r == x % d
           v == q \div d
           k == q % d
           e == d * d
<1>1. q \in Nat /\ r \in 0 .. d - 1 /\ x = q * d + r
  BY DivAndMod
<1>2. v \in Nat /\ k \in 0 .. d - 1 /\ q = v * d + k
  <2> HIDE DEF q
  <2> QED
    BY <1>1, DivAndMod
<1> HIDE DEF q, r, v, k
<1>3. e \in Nat \ {0}
  OBVIOUS
<1>4. q * d = v * e + k * d
  <2>1. q * d = (v * d) * d + k * d
    BY <1>1, <1>2
  <2>2. (v * d) * d = v * e
    BY <1>2
  <2> QED
    BY <2>1, <2>2
<1>5. k * d + r \in 0 .. e - 1
  BY <1>1, <1>2, SumBelow
<1>6. x = v * e + (k * d + r)
  <2> DEFINE a == v * e
             b == k * d
  <2>1. a \in Nat /\ b \in Nat
    BY <1>2, <1>3
  <2> HIDE DEF a, b
  <2>2. q * d = a + b
    BY <1>4 DEF a, b
  <2>3. x = a + (b + r)
    BY <1>1, <2>1, <2>2
  <2> QED
    BY <2>3 DEF a, b
<1> HIDE DEF e
<1>7. x \div e = v
  BY <1>2, <1>3, <1>5, <1>6, OnlyDivAndMod
<1> QED
  BY <1>7 DEF e, q, v

-----------------------------------------------------------------------------
(* Queues: what appending to one and taking its head do.                   *)

LEMMA AppendTo ==
    ASSUME NEW S, NEW q \in Seq(S), NEW x \in S
    PROVE  /\ Len(q) \in Nat
           /\ Append(q, x) \in Seq(S) /\ Append(q, x) # << >>
           /\ Len(Append(q, x)) = Len(q) + 1
           /\ \A i \in 1 .. Len(q) : Append(q, x)[i] = q[i]
           /\ Append(q, x)[Len(q) + 1] = x
BY LenProperties, AppendProperties

LEMMA TakeFrom ==
    ASSUME NEW S, NEW q \in Seq(S), q # << >>
    PROVE  /\ Len(q) \in Nat \ {0}
           /\ Head(q) \in S /\ Head(q) = q[1]
           /\ Tail(q) \in Seq(S) /\ Len(Tail(q)) = Len(q) - 1
           /\ \A i \in 1 .. Len(q) - 1 : Tail(q)[i] = q[i + 1]
BY LenProperties, HeadTailProperties

LEMMA LengthOf ==
    ASSUME NEW S, NEW q \in Seq(S)
    PROVE  /\ Len(q) \in Nat /\ DOMAIN q = 1 .. Len(q)
           /\ q # << >> <=> Len(q) > 0
           /\ \A i \in 1 .. Len(q) : q[i] \in S
BY LenProperties, EmptySeq

LEMMA NoLength ==
    ASSUME NEW S, NEW q \in Seq(S), Len(q) = 0
    PROVE  q = << >>
BY EmptySeq

LEMMA OneElement ==
    ASSUME NEW S, NEW x \in S
    PROVE  /\ << x >> \in Seq(S) /\ << x >> # << >>
           /\ Len(<< x >>) = 1 /\ << x >>[1] = x /\ Head(<< x >>) = x
OBVIOUS

LEMMA TakeOnly ==
    ASSUME NEW S, NEW q \in Seq(S), q # << >>, Len(q) = 1
    PROVE  Tail(q) = << >>
<1>1. Tail(q) \in Seq(S) /\ Len(Tail(q)) = 1 - 1
  BY TakeFrom
<1> QED
  BY <1>1, NoLength, 1 - 1 = 0

(* What a queue contains.                                                  *)
LEMMA InSeq ==
    ASSUME NEW S, NEW q \in Seq(S), NEW y
    PROVE  Contains(q, y) <=> \E i \in 1 .. Len(q) : q[i] = y
BY DEF Contains

LEMMA InEmpty == \A y : ~Contains(<< >>, y)
BY DEF Contains

LEMMA InAppended ==
    ASSUME NEW S, NEW q \in Seq(S), NEW x \in S, NEW y
    PROVE  Contains(Append(q, x), y) <=> Contains(q, y) \/ y = x
<1>1. /\ Len(q) \in Nat /\ Len(Append(q, x)) = Len(q) + 1
      /\ \A i \in 1 .. Len(q) : Append(q, x)[i] = q[i]
      /\ Append(q, x)[Len(q) + 1] = x
  BY AppendTo
<1> DEFINE a == Append(q, x)
<1> HIDE DEF a
<1>2. /\ Len(q) \in Nat /\ Len(a) = Len(q) + 1 /\ a[Len(q) + 1] = x
      /\ \A i \in 1 .. Len(q) : a[i] = q[i]
  BY <1>1 DEF a
<1>3. Contains(a, y) <=> Contains(q, y) \/ y = x
  BY <1>2 DEF Contains
<1> QED
  BY <1>3 DEF a

LEMMA InConcat ==
    ASSUME NEW S, NEW p \in Seq(S), NEW q \in Seq(S), NEW y
    PROVE  Contains(p \o q, y) <=> Contains(p, y) \/ Contains(q, y)
<1> DEFINE c == p \o q
<1>1. /\ Len(p) \in Nat /\ Len(q) \in Nat /\ Len(c) = Len(p) + Len(q)
      /\ \A i \in 1 .. Len(p) + Len(q) :
            c[i] = IF i <= Len(p) THEN p[i] ELSE q[i - Len(p)]
  BY ConcatProperties, LenProperties
<1> HIDE DEF c
<1>2. ASSUME Contains(c, y) PROVE Contains(p, y) \/ Contains(q, y)
  BY <1>1, <1>2 DEF Contains
<1>3. ASSUME Contains(p, y) PROVE Contains(c, y)
  BY <1>1, <1>3 DEF Contains
<1>4. ASSUME Contains(q, y) PROVE Contains(c, y)
  <2>1. PICK i \in 1 .. Len(q) : q[i] = y
    BY <1>4 DEF Contains
  <2>2. Len(p) + i \in 1 .. Len(c) /\ c[Len(p) + i] = y
    BY <1>1, <2>1
  <2> QED
    BY <2>2 DEF Contains
<1> QED
  BY <1>2, <1>3, <1>4 DEF c

(* A queue without repetition stays one.                                   *)
LEMMA OnceAppended ==
    ASSUME NEW S, NEW q \in Seq(S), NEW x \in S, IsInjective(q), ~Contains(q, x)
    PROVE  IsInjective(Append(q, x))
<1>1. /\ Append(q, x) \in Seq(S) /\ Len(q) \in Nat /\ Len(Append(q, x)) = Len(q) + 1
      /\ \A i \in 1 .. Len(q) : Append(q, x)[i] = q[i]
      /\ Append(q, x)[Len(q) + 1] = x
  BY AppendTo
<1>2. DOMAIN q = 1 .. Len(q) /\ DOMAIN Append(q, x) = 1 .. Len(q) + 1
  BY <1>1, LengthOf
<1> DEFINE a == Append(q, x)
<1>3. \A i \in 1 .. Len(q) : q[i] # x
  BY DEF Contains
<1>4. \A i, j \in 1 .. Len(q) + 1 : a[i] = a[j] => i = j
  <2>1. \A i, j \in 1 .. Len(q) : q[i] = q[j] => i = j
    BY <1>2 DEF IsInjective
  <2>2. a[Len(q) + 1] = x /\ \A i \in 1 .. Len(q) : a[i] = q[i]
    BY <1>1
  <2> HIDE DEF a
  <2> QED
    BY <1>1, <1>3, <2>1, <2>2
<1> QED
  BY <1>2, <1>4 DEF IsInjective

LEMMA OnceConcatenated ==
    ASSUME NEW S, NEW p \in Seq(S), NEW q \in Seq(S), IsInjective(p), IsInjective(q),
           \A y \in S : Contains(p, y) => ~Contains(q, y)
    PROVE  IsInjective(p \o q)
<1> DEFINE c == p \o q
<1>1. /\ Len(p) \in Nat /\ Len(q) \in Nat /\ c \in Seq(S) /\ Len(c) = Len(p) + Len(q)
      /\ \A i \in 1 .. Len(p) + Len(q) :
            c[i] = IF i <= Len(p) THEN p[i] ELSE q[i - Len(p)]
  BY ConcatProperties, LenProperties
<1>2. DOMAIN p = 1 .. Len(p) /\ DOMAIN q = 1 .. Len(q) /\ DOMAIN c = 1 .. Len(p) + Len(q)
  BY <1>1, LengthOf
<1>3. /\ \A i, j \in 1 .. Len(p) : p[i] = p[j] => i = j
      /\ \A i, j \in 1 .. Len(q) : q[i] = q[j] => i = j
  BY <1>2 DEF IsInjective
<1>4. \A i \in 1 .. Len(p), j \in 1 .. Len(q) : p[i] # q[j]
  <2>1. \A i \in 1 .. Len(p) : p[i] \in S /\ Contains(p, p[i])
    BY LengthOf DEF Contains
  <2> QED
    BY <2>1 DEF Contains
<1> HIDE DEF c
<1>5. \A i, j \in 1 .. Len(p) + Len(q) : c[i] = c[j] => i = j
  <2> SUFFICES ASSUME NEW i \in 1 .. Len(p) + Len(q), NEW j \in 1 .. Len(p) + Len(q),
                      c[i] = c[j], i < j
               PROVE  FALSE
    BY <1>1
  <2>1. CASE j <= Len(p)
    BY <1>1, <1>3, <2>1
  <2>2. CASE i > Len(p)
    <3>1. i - Len(p) \in 1 .. Len(q) /\ j - Len(p) \in 1 .. Len(q) /\ i - Len(p) # j - Len(p)
      BY <1>1, <2>2
    <3>2. q[i - Len(p)] = q[j - Len(p)]
      BY <1>1, <2>2
    <3> QED
      BY <1>3, <3>1, <3>2
  <2>3. CASE i <= Len(p) /\ j > Len(p)
    <3>1. i \in 1 .. Len(p) /\ j - Len(p) \in 1 .. Len(q)
      BY <1>1, <2>3
    <3>2. p[i] = q[j - Len(p)]
      BY <1>1, <2>3
    <3> QED
      BY <1>4, <3>1, <3>2
  <2> QED
    BY <1>1, <2>1, <2>2, <2>3
<1> QED
  BY <1>2, <1>5 DEF IsInjective, c

(* Of one thing a sequence has one element, of nothing none.               *)
LEMMA SeqOfFew ==
    /\ SetToSeq({}) = << >>
    /\ \A x : SetToSeq({x}) = << x >>
<1>1. SetToSeq({}) = << >>
  <2>1. Cardinality({}) = 0
    BY FS_EmptySet
  <2>2. << >> \in [1 .. 0 -> {}] /\ IsInjective(<< >>)
    BY DEF IsInjective
  <2>3. \A f \in [1 .. 0 -> {}] : f = << >>
    OBVIOUS
  <2> QED
    BY <2>1, <2>2, <2>3 DEF SetToSeq
<1>2. ASSUME NEW x PROVE SetToSeq({x}) = << x >>
  <2>1. Cardinality({x}) = 1
    BY FS_Singleton
  <2>2. << x >> \in [1 .. 1 -> {x}] /\ IsInjective(<< x >>)
    BY DEF IsInjective
  <2>3. \A f \in [1 .. 1 -> {x}] : f = << x >>
    OBVIOUS
  <2> QED
    BY <2>1, <2>2, <2>3 DEF SetToSeq
<1> QED
  BY <1>1, <1>2

(* A finite set as a sequence of its members.                              *)
LEMMA SetAsSeqIs ==
    ASSUME NEW S, IsFiniteSet(S)
    PROVE  /\ SetToSeq(S) \in Seq(S) /\ IsInjective(SetToSeq(S))
           /\ Len(SetToSeq(S)) = Cardinality(S) /\ Cardinality(S) \in Nat
<1>1. PICK n \in Nat : ExistsBijection(1 .. n, S)
  BY FS_NatBijection
<1>2. Cardinality(S) = n
  BY <1>1, FS_CountingElements
<1>3. \E f \in [1 .. n -> S] : IsInjective(f)
  BY <1>1 DEF ExistsBijection, Bijection, Injection
<1>4. SetToSeq(S) \in [1 .. n -> S] /\ IsInjective(SetToSeq(S))
  BY <1>2, <1>3 DEF SetToSeq
<1>5. SetToSeq(S) \in Seq(S) /\ Len(SetToSeq(S)) = n
  BY <1>4, SeqDef
<1> QED
  BY <1>2, <1>4, <1>5

LEMMA SetAsSeq ==
    ASSUME NEW S, IsFiniteSet(S)
    PROVE  SetToSeq(S) \in Seq(S) /\ Cardinality(S) \in Nat
BY SetAsSeqIs

(* Counting the members of smaller rank numbers the members of a set.      *)
LEMMA RanksCount ==
    ASSUME NEW F, IsFiniteSet(F), NEW rank \in [F -> Int], IsInjective(rank),
           NEW turn, turn = [k \in F |-> Cardinality({j \in F : rank[j] < rank[k]})]
    PROVE  turn \in Bijection(F, 0 .. Cardinality(F) - 1)
<1> DEFINE Below(k) == {j \in F : rank[j] < rank[k]}
           c == Cardinality(F)
<1>1. c \in Nat
  BY FS_CardinalityType
<1>2. ASSUME NEW k \in F
      PROVE  IsFiniteSet(Below(k)) /\ Cardinality(Below(k)) \in Nat /\ turn[k] = Cardinality(Below(k))
  <2>1. IsFiniteSet(Below(k))
    BY FS_Subset
  <2> QED
    BY <2>1, FS_CardinalityType
<1>3. ASSUME NEW k \in F PROVE turn[k] \in 0 .. c - 1
  <2>1. Below(k) \in SUBSET (F \ {k})
    OBVIOUS
  <2>2. IsFiniteSet(F \ {k}) /\ Cardinality(F \ {k}) = c - 1
    BY FS_RemoveElement
  <2>3. Cardinality(Below(k)) <= c - 1
    <3> HIDE DEF Below, c
    <3> QED
      BY <2>1, <2>2, FS_Subset
  <2> HIDE DEF Below, c
  <2> QED
    BY <1>1, <1>2, <2>3
<1>4. ASSUME NEW j \in F, NEW k \in F, rank[j] < rank[k] PROVE turn[j] < turn[k]
  <2>1. Below(j) \cup {j} \in SUBSET Below(k) /\ j \notin Below(j)
    BY <1>4
  <2>2. Cardinality(Below(j) \cup {j}) = Cardinality(Below(j)) + 1
    <3>1. IsFiniteSet(Below(j)) /\ j \notin Below(j)
      BY <1>2, <2>1
    <3> HIDE DEF Below
    <3> QED
      BY <3>1, FS_AddElement
  <2>3. Cardinality(Below(j) \cup {j}) <= Cardinality(Below(k))
    <3>1. IsFiniteSet(Below(k))
      BY <1>2
    <3> HIDE DEF Below
    <3> QED
      BY <2>1, <3>1, FS_Subset
  <2>4. /\ Cardinality(Below(j)) \in Nat /\ turn[j] = Cardinality(Below(j))
        /\ Cardinality(Below(k)) \in Nat /\ turn[k] = Cardinality(Below(k))
    BY <1>2
  <2> HIDE DEF Below
  <2> QED
    BY <2>2, <2>3, <2>4
<1>5. turn \in Injection(F, 0 .. c - 1)
  <2>1. turn \in [F -> 0 .. c - 1]
    BY <1>3
  <2>2. ASSUME NEW j \in F, NEW k \in F, turn[j] = turn[k] PROVE j = k
    <3>1. turn[j] \in Int /\ turn[k] \in Int
      <4>1. turn[j] \in 0 .. c - 1 /\ turn[k] \in 0 .. c - 1
        BY <1>3
      <4> HIDE DEF c
      <4> QED
        BY <4>1
    <3>2. ~(rank[j] < rank[k]) /\ ~(rank[k] < rank[j])
      BY <1>4, <2>2, <3>1
    <3>3. rank[j] = rank[k]
      BY <3>2
    <3> QED
      BY <3>3 DEF IsInjective
  <2> QED
    BY <2>1, <2>2 DEF Injection, IsInjective
<1>6. IsFiniteSet(0 .. c - 1) /\ Cardinality(0 .. c - 1) = c
  <2> HIDE DEF c
  <2> QED
    BY <1>1, FS_Interval
<1>7. turn \in Surjection(F, 0 .. c - 1)
  BY <1>5, <1>6, FS_Injection
<1> QED
  BY <1>5, <1>7 DEF Bijection

(* The first ones by rank, at most l, are numbered from 0 without a gap.   *)
CountedOff(S, turn, l) ==
    /\ Cardinality(S) \in Nat /\ Cardinality(S) <= l
    /\ \A k \in S : turn[k] \in 0 .. Cardinality(S) - 1
    /\ \A j, k \in S : turn[j] = turn[k] => j = k
    /\ \A t \in 0 .. Cardinality(S) - 1 : \E k \in S : turn[k] = t

LEMMA FirstByRank ==
    ASSUME NEW F, IsFiniteSet(F), NEW turn \in Bijection(F, 0 .. Cardinality(F) - 1),
           NEW l \in Nat, NEW S, S = {k \in F : turn[k] < l}
    PROVE  CountedOff(S, turn, l)
<1> DEFINE c == Cardinality(F)
           b == IF l < c THEN l ELSE c
           T == 0 .. b - 1
           f == [k \in S |-> turn[k]]
<1>1. c \in Nat
  BY FS_CardinalityType
<1>2. /\ turn \in [F -> 0 .. c - 1]
      /\ \A j, k \in F : turn[j] = turn[k] => j = k
      /\ \A t \in 0 .. c - 1 : \E k \in F : turn[k] = t
  BY DEF Bijection, Injection, Surjection, IsInjective
<1> HIDE DEF c
<1>3. b \in Nat /\ b <= l /\ \A t \in 0 .. c - 1 : t < l <=> t \in T
  BY <1>1
<1>4. T \subseteq 0 .. c - 1 /\ \A t \in T : t < l
  BY <1>1
<1> HIDE DEF b, T
<1>5. f \in Bijection(S, T)
  <2>1. f \in [S -> T]
    BY <1>2, <1>3
  <2>2. \A j, k \in S : f[j] = f[k] => j = k
    BY <1>2
  <2>3. \A t \in T : \E k \in S : f[k] = t
    BY <1>2, <1>4
  <2> QED
    BY <2>1, <2>2, <2>3 DEF Bijection, Injection, Surjection, IsInjective
<1>6. IsFiniteSet(S)
  BY FS_Subset
<1>7. Cardinality(T) = Cardinality(S)
  BY <1>5, <1>6, FS_Bijection DEF ExistsBijection
<1>8. Cardinality(T) = b
  <2>1. Cardinality(0 .. b - 1) = IF 0 > b - 1 THEN 0 ELSE b - 1 - 0 + 1
    BY <1>3, FS_Interval
  <2> QED
    BY <1>3, <2>1 DEF T
<1>9. Cardinality(S) = b
  BY <1>7, <1>8
<1>10. \A k \in S : turn[k] \in T
  BY <1>2, <1>3
<1>11. \A t \in T : \E k \in S : turn[k] = t
  BY <1>2, <1>4
<1> QED
  BY <1>2, <1>3, <1>9, <1>10, <1>11 DEF T, CountedOff

-----------------------------------------------------------------------------
(* Sums over sequences.                                                    *)
SumOf(e) == FoldLeft(LAMBDA a, b : a + b, 0, e)

(* The largest number of a set that ends with n.                           *)
LEMMA MaxOfLast ==
    ASSUME NEW s \in SUBSET Int, NEW n \in s, \A x \in s : x <= n
    PROVE  Max(s) = n
<1>1. \A y \in s : n >= y
  OBVIOUS
<1>2. Max(s) \in s /\ \A y \in s : Max(s) >= y
  BY <1>1 DEF Max
<1>3. Max(s) \in Int /\ Max(s) <= n /\ Max(s) >= n
  BY <1>2
<1> QED
  BY <1>3

(* How FoldLeft adds up the entries of e: F gives the sum of any of the    *)
(* first n.                                                                *)
SumOver(e, n, F) ==
    F = [s \in SUBSET (1 .. n) |-> IF s = {} THEN 0 ELSE F[s \ {Max(s)}] + e[Max(s)]]

(* The definition has a solution, for a sequence of any length.            *)
LEMMA SumExists ==
    ASSUME NEW e
    PROVE  \A n \in Nat : \E F : SumOver(e, n, F)
<1> DEFINE Bad == {n \in Nat : ~\E F : SumOver(e, n, F)}
<1>1. SUFFICES ASSUME Bad # {} PROVE FALSE
  OBVIOUS
<1>2. PICK n \in Bad : \A m \in Bad : n <= m
  BY <1>1, LeastNumber
<1>3. CASE n = 0
  <2> DEFINE F == [s \in SUBSET (1 .. 0) |-> 0]
  <2>1. \A s \in SUBSET (1 .. 0) : s = {}
    OBVIOUS
  <2>2. SumOver(e, 0, F)
    BY <2>1 DEF SumOver
  <2> QED
    BY <1>2, <1>3, <2>2
<1>4. CASE n # 0
  <2>1. n - 1 \in Nat /\ n \in Nat \ {0}
    BY <1>2, <1>4
  <2>2. n - 1 \notin Bad
    BY <1>2, <2>1
  <2>3. PICK F : SumOver(e, n - 1, F)
    BY <2>1, <2>2
  <2> DEFINE G == [s \in SUBSET (1 .. n) |->
                     IF n \in s THEN F[s \ {n}] + e[n] ELSE F[s]]
  <2>4. ASSUME NEW s \in SUBSET (1 .. n)
        PROVE  G[s] = IF s = {} THEN 0 ELSE G[s \ {Max(s)}] + e[Max(s)]
    <3>1. CASE n \in s
      <4>1. Max(s) = n
        <5>1. s \in SUBSET Int /\ \A x \in s : x <= n
          BY <2>1
        <5> QED
          BY <3>1, <5>1, MaxOfLast
      <4>2. G[s \ {n}] = F[s \ {n}]
        OBVIOUS
      <4> QED
        BY <3>1, <4>1, <4>2
    <3>2. CASE n \notin s
      <4>1. s \in SUBSET (1 .. n - 1)
        BY <2>1, <3>2
      <4>2. F[s] = IF s = {} THEN 0 ELSE F[s \ {Max(s)}] + e[Max(s)]
        BY <2>3, <4>1 DEF SumOver
      <4>3. s \ {Max(s)} \in SUBSET (1 .. n) /\ n \notin s \ {Max(s)}
        BY <3>2
      <4>4. G[s \ {Max(s)}] = F[s \ {Max(s)}] /\ G[s] = F[s]
        BY <3>2, <4>3
      <4> QED
        BY <4>2, <4>4
    <3> QED
      BY <3>1, <3>2
  <2>5. SumOver(e, n, G)
    BY <2>4 DEF SumOver
  <2> QED
    BY <1>2, <2>5
<1> QED
  BY <1>3, <1>4

(* So the sum of a sequence is what the definition says.                   *)
LEMMA SumIsDefined ==
    ASSUME NEW S, NEW e \in Seq(S)
    PROVE  \E F : SumOver(e, Len(e), F) /\ SumOf(e) = F[1 .. Len(e)]
<1>1. DOMAIN e = 1 .. Len(e) /\ Len(e) \in Nat
  BY LengthOf
<1> DEFINE F == CHOOSE F : SumOver(e, Len(e), F)
<1>2. SumOf(e) = F[1 .. Len(e)]
  BY <1>1 DEF SumOf, FoldLeft, MapThenFoldSet, SumOver
<1>3. SumOver(e, Len(e), F)
  BY <1>1, SumExists
<1> QED
  BY <1>2, <1>3

(* The first n numbers without the last of them.                           *)
LEMMA Prefix ==
    ASSUME NEW m \in Nat, NEW n \in 1 .. m
    PROVE  (1 .. n) \ {n} = 1 .. n - 1 /\ 1 .. n # {} /\ 1 .. n \in SUBSET (1 .. m)
<1>1. n \in Nat /\ n <= m
  OBVIOUS
<1>2. \A x : x \in (1 .. n) \ {n} <=> x \in 1 .. n - 1
  BY <1>1
<1> QED
  BY <1>1, <1>2

(* The sum of the differences of successive values is that of the ends.    *)
LEMMA SumOfDifferences ==
    ASSUME NEW e \in Seq(Int), NEW f \in [Nat -> Int], NEW a \in Nat,
           \A i \in 1 .. Len(e) : e[i] = f[a + i] - f[a + i - 1]
    PROVE  SumOf(e) = f[a + Len(e)] - f[a]
<1>1. Len(e) \in Nat
  BY LengthOf
<1>2. PICK F : SumOver(e, Len(e), F) /\ SumOf(e) = F[1 .. Len(e)]
  BY SumIsDefined
<1> DEFINE Bad == {n \in 0 .. Len(e) : F[1 .. n] # f[a + n] - f[a]}
<1>3. SUFFICES ASSUME Bad # {} PROVE FALSE
  <2>1. Len(e) \in 0 .. Len(e)
    BY <1>1
  <2>2. Bad = {} => F[1 .. Len(e)] = f[a + Len(e)] - f[a]
    BY <2>1
  <2> QED
    BY <1>2, <2>2
<1>4. PICK n \in Bad : \A m \in Bad : n <= m
  <2>1. Bad \in SUBSET Nat
    BY <1>1
  <2> QED
    BY <1>3, <2>1, LeastNumber
<1>5. CASE n = 0
  <2>1. 1 .. n = {} /\ 1 .. n \in SUBSET (1 .. Len(e))
    BY <1>5
  <2>2. F[1 .. n] = 0
    BY <1>2, <2>1 DEF SumOver
  <2>3. f[a + n] - f[a] = 0
    BY <1>5
  <2> QED
    BY <1>4, <2>2, <2>3
<1>6. CASE n # 0
  <2>1. n - 1 \in 0 .. Len(e) /\ n \in 1 .. Len(e) /\ n - 1 \in Nat
    BY <1>1, <1>4, <1>6
  <2>2. Max(1 .. n) = n
    <3>1. 1 .. n \in SUBSET Int /\ n \in 1 .. n /\ \A x \in 1 .. n : x <= n
      BY <2>1
    <3> QED
      BY <3>1, MaxOfLast
  <2>3. (1 .. n) \ {n} = 1 .. n - 1 /\ 1 .. n # {} /\ 1 .. n \in SUBSET (1 .. Len(e))
    BY <1>1, <2>1, Prefix
  <2>4. F[1 .. n] = F[1 .. n - 1] + e[n]
    <3> DEFINE s == 1 .. n
               D == SUBSET (1 .. Len(e))
    <3>1. s \in D /\ s # {} /\ Max(s) = n /\ s \ {n} = 1 .. n - 1
      BY <2>2, <2>3
    <3>2. F = [x \in D |-> IF x = {} THEN 0 ELSE F[x \ {Max(x)}] + e[Max(x)]]
      BY <1>2 DEF SumOver
    <3> HIDE DEF s, D
    <3>3. F[s] = F[s \ {Max(s)}] + e[Max(s)]
      BY ONLY <3>1, <3>2
    <3> QED
      BY <3>1, <3>3 DEF s
  <2>5. F[1 .. n - 1] = f[a + (n - 1)] - f[a]
    <3>1. n - 1 \notin Bad
      BY <1>1, <1>4, <2>1
    <3> QED
      BY <2>1, <3>1
  <2>6. e[n] = f[a + n] - f[a + n - 1]
    BY <2>1
  <2>7. a + (n - 1) = a + n - 1 /\ f[a + n] \in Int /\ f[a + (n - 1)] \in Int /\ f[a] \in Int
    BY <2>1
  <2>8. F[1 .. n] = f[a + n] - f[a]
    <3> HIDE DEF Bad
    <3> QED
      BY <2>4, <2>5, <2>6, <2>7
  <2> QED
    BY <1>4, <2>8
<1> QED
  BY <1>5, <1>6

-----------------------------------------------------------------------------
(* Wires: what the operators of Wires become when an entry joins or leaves *)
(* The entries of a VC on a wire are finitely many.                        *)
LEMMA IndicesFinite ==
    ASSUME NEW S, NEW q \in Seq(S), NEW v
    PROVE  /\ IsFiniteSet(IndicesOf(q, v))
           /\ CountOf(q, v) \in Nat
<1>1. Len(q) \in Nat
  BY LenProperties
<1>2. IsFiniteSet(1 .. Len(q))
  BY <1>1, FS_Interval
<1>3. IndicesOf(q, v) \in SUBSET (1 .. Len(q))
  BY DEF IndicesOf
<1>4. IsFiniteSet(IndicesOf(q, v))
  BY <1>2, <1>3, FS_Subset
<1> QED
  BY <1>4, FS_CardinalityType DEF CountOf

(* A wire counts no entry of a VC exactly when it has none.                *)
LEMMA CountZero ==
    ASSUME NEW S, NEW q \in Seq(S), NEW v
    PROVE  CountOf(q, v) = 0 <=> NoneOf(q, v)
<1>1. CountOf(q, v) = 0 <=> IndicesOf(q, v) = {}
  BY IndicesFinite, FS_EmptySet DEF CountOf
<1>2. IndicesOf(q, v) = {} <=> NoneOf(q, v)
  BY DEF IndicesOf, NoneOf
<1> QED
  BY <1>1, <1>2

(* Appending an entry adds one to the count of its VC and to no other.     *)
LEMMA CountAppend ==
    ASSUME NEW S, NEW q \in Seq(S), NEW x \in S, NEW v
    PROVE  CountOf(Append(q, x), v) = CountOf(q, v) + (IF x.vc = v THEN 1 ELSE 0)
<1> DEFINE n == Len(q)
<1>1. /\ n \in Nat
      /\ Len(Append(q, x)) = n + 1
      /\ \A i \in 1 .. n : Append(q, x)[i] = q[i]
      /\ Append(q, x)[n + 1] = x
  BY LenProperties, AppendProperties
<1>2. IsFiniteSet(IndicesOf(q, v)) /\ CountOf(q, v) \in Nat
  BY IndicesFinite
<1>3. CASE x.vc = v
  <2>1. IndicesOf(Append(q, x), v) = IndicesOf(q, v) \cup {n + 1}
    BY <1>1, <1>3 DEF IndicesOf
  <2>2. n + 1 \notin IndicesOf(q, v)
    BY <1>1 DEF IndicesOf
  <2>3. Cardinality(IndicesOf(q, v) \cup {n + 1}) = Cardinality(IndicesOf(q, v)) + 1
    BY <1>2, <2>2, FS_AddElement
  <2> QED
    BY <1>3, <2>1, <2>3 DEF CountOf
<1>4. CASE x.vc # v
  <2>1. IndicesOf(Append(q, x), v) = IndicesOf(q, v)
    BY <1>1, <1>4 DEF IndicesOf
  <2> QED
    BY <1>2, <1>4, <2>1 DEF CountOf
<1> QED
  BY <1>3, <1>4

(* Taking the head of a wire removes one entry, of the head's VC.          *)
LEMMA CountTail ==
    ASSUME NEW S, NEW q \in Seq(S), q # << >>, NEW v
    PROVE  CountOf(q, v) = CountOf(Tail(q), v) + (IF Head(q).vc = v THEN 1 ELSE 0)
<1> DEFINE n == Len(q)
           T == IndicesOf(Tail(q), v)
           R == IndicesOf(q, v) \ {1}
           f == [i \in T |-> i + 1]
<1>1. /\ n \in Nat \ {0}
      /\ Len(Tail(q)) = n - 1
      /\ Tail(q) \in Seq(S)
      /\ \A i \in 1 .. n - 1 : Tail(q)[i] = q[i + 1]
      /\ Head(q) = q[1]
  BY LenProperties, EmptySeq, HeadTailProperties
<1>2. IsFiniteSet(T) /\ IsFiniteSet(IndicesOf(q, v)) /\ CountOf(q, v) \in Nat
  BY <1>1, IndicesFinite
<1>3. \A i : i \in T <=> i \in 1 .. n - 1 /\ q[i + 1].vc = v
  BY <1>1 DEF IndicesOf
<1>4. \A i : i \in R <=> i \in 2 .. n /\ q[i].vc = v
  BY <1>1 DEF IndicesOf
<1>5. f \in Bijection(T, R)
  <2>1. f \in [T -> R]
    BY <1>1, <1>3, <1>4
  <2>2. \A a, b \in DOMAIN f : f[a] = f[b] => a = b
    BY <1>1, <1>3
  <2>3. \A t \in R : \E s \in T : f[s] = t
    <3> SUFFICES ASSUME NEW t \in R PROVE \E s \in T : f[s] = t
      OBVIOUS
    <3>1. t - 1 \in T /\ f[t - 1] = t
      BY <1>1, <1>3, <1>4
    <3> QED
      BY <3>1
  <2> HIDE DEF f, T, R
  <2> QED
    BY <2>1, <2>2, <2>3 DEF Bijection, Injection, IsInjective, Surjection
<1>6. Cardinality(R) = Cardinality(T)
  <2> HIDE DEF f, T, R
  <2>1. ExistsBijection(T, R)
    BY <1>5 DEF ExistsBijection
  <2> QED
    BY <1>2, <2>1, FS_Bijection
<1>7. Cardinality(R) = IF 1 \in IndicesOf(q, v) THEN CountOf(q, v) - 1 ELSE CountOf(q, v)
  BY <1>2, FS_RemoveElement DEF CountOf
<1>8. 1 \in IndicesOf(q, v) <=> Head(q).vc = v
  BY <1>1 DEF IndicesOf
<1> QED
  BY <1>2, <1>6, <1>7, <1>8 DEF CountOf

(* What Append and Tail do to a wire, entry by entry.                      *)
LEMMA AppendEntries ==
    ASSUME NEW S, NEW q \in Seq(S), NEW x \in S
    PROVE  /\ Append(q, x) \in Seq(S)
           /\ Len(q) \in Nat
           /\ Len(Append(q, x)) = Len(q) + 1
           /\ \A i \in 1 .. Len(q) : Append(q, x)[i] = q[i] /\ q[i] \in S
           /\ Append(q, x)[Len(q) + 1] = x
BY AppendProperties, LenProperties, ElementOfSeq

(* The entries of a wire after its head is taken, and where the old ones   *)
(* were.                                                                   *)
LEMMA TailEntries ==
    ASSUME NEW S, NEW q \in Seq(S), q # << >>
    PROVE  /\ Tail(q) \in Seq(S)
           /\ Len(q) \in Nat \ {0}
           /\ Len(Tail(q)) = Len(q) - 1
           /\ \A i \in 1 .. Len(q) - 1 : Tail(q)[i] = q[i + 1]
           /\ \A i \in 1 .. Len(q) : q[i] \in S
           /\ Head(q) = q[1] /\ q[1] \in S
           /\ \A i \in 1 .. Len(q) :
                i = 1 \/ (i - 1 \in 1 .. Len(Tail(q)) /\ q[i] = Tail(q)[i - 1])
           /\ \A i \in 1 .. Len(Tail(q)) : i + 1 \in 1 .. Len(q) /\ Tail(q)[i] = q[i + 1]
           /\ 1 \in 1 .. Len(q)
BY HeadTailProperties, LenProperties, EmptySeq, ElementOfSeq

(* A predicate on the entries of a VC holds of a wire after an Append      *)
(* exactly when it holds of the wire and of the new entry...               *)
LEMMA AppendNoneOf ==
    ASSUME NEW S, NEW q \in Seq(S), NEW x \in S, NEW v
    PROVE  NoneOf(Append(q, x), v) <=> NoneOf(q, v) /\ x.vc # v
BY AppendEntries DEF NoneOf

(* Appending an entry brings a head of VC v exactly when it is one.        *)
LEMMA AppendHasHead ==
    ASSUME NEW S, NEW q \in Seq(S), NEW x \in S, NEW v
    PROVE  HasHead(Append(q, x), v) <=> HasHead(q, v) \/ (x.vc = v /\ x.id = 0)
BY AppendEntries DEF HasHead

(* Appending keeps all flits of a VC below k if the new one is, and is no  *)
(* tail.                                                                   *)
LEMMA AppendAllBelow ==
    ASSUME NEW S, NEW q \in Seq(S), NEW x \in S, NEW v, NEW k
    PROVE  AllBelow(Append(q, x), v, k) <=>
             AllBelow(q, v, k) /\ (x.vc = v => x.id < k /\ ~x.tail)
BY AppendEntries DEF AllBelow

(* Appending a credit keeps a wire without free signals if it carries      *)
(* none.                                                                   *)
LEMMA AppendNoFree ==
    ASSUME NEW S, NEW q \in Seq(S), NEW x \in S, NEW v
    PROVE  NoFree(Append(q, x), v) <=> NoFree(q, v) /\ (x.vc = v => ~x.free)
BY AppendEntries DEF NoFree

(* ... and the same for a wire and its tail.                               *)
LEMMA TailNoneOf ==
    ASSUME NEW S, NEW q \in Seq(S), q # << >>, NEW v
    PROVE  NoneOf(q, v) <=> NoneOf(Tail(q), v) /\ Head(q).vc # v
BY TailEntries DEF NoneOf

(* A wire has a head of VC v if its tail or its first entry has.           *)
LEMMA TailHasHead ==
    ASSUME NEW S, NEW q \in Seq(S), q # << >>, NEW v
    PROVE  HasHead(q, v) <=> HasHead(Tail(q), v) \/ (Head(q).vc = v /\ Head(q).id = 0)
<1>1. ASSUME NEW i \in 1 .. Len(q), q[i].vc = v, q[i].id = 0
      PROVE  HasHead(Tail(q), v) \/ (Head(q).vc = v /\ Head(q).id = 0)
  <2>1. CASE i = 1
    BY <1>1, <2>1, TailEntries
  <2>2. CASE i # 1
    <3>1. i - 1 \in 1 .. Len(Tail(q)) /\ q[i] = Tail(q)[i - 1]
      BY <2>2, TailEntries
    <3> QED
      BY <1>1, <3>1 DEF HasHead
  <2> QED
    BY <2>1, <2>2
<1>2. HasHead(Tail(q), v) => HasHead(q, v)
  BY TailEntries DEF HasHead
<1>3. Head(q).vc = v /\ Head(q).id = 0 => HasHead(q, v)
  BY TailEntries DEF HasHead
<1> QED
  BY <1>1, <1>2, <1>3 DEF HasHead

(* All flits of a VC are below k if those of the tail and the first are.   *)
LEMMA TailAllBelow ==
    ASSUME NEW S, NEW q \in Seq(S), q # << >>, NEW v, NEW k
    PROVE  AllBelow(q, v, k) <=>
             AllBelow(Tail(q), v, k) /\ (Head(q).vc = v => Head(q).id < k /\ ~Head(q).tail)
BY TailEntries DEF AllBelow

(* A wire has no free signal if neither its tail nor its first entry has.  *)
LEMMA TailNoFree ==
    ASSUME NEW S, NEW q \in Seq(S), q # << >>, NEW v
    PROVE  NoFree(q, v) <=> NoFree(Tail(q), v) /\ (Head(q).vc = v => ~Head(q).free)
<1>1. NoFree(q, v) => NoFree(Tail(q), v) /\ (Head(q).vc = v => ~Head(q).free)
  BY TailEntries DEF NoFree
<1>2. ASSUME NoFree(Tail(q), v), Head(q).vc = v => ~Head(q).free,
             NEW i \in 1 .. Len(q), q[i].vc = v
      PROVE  ~q[i].free
  <2>1. CASE i = 1
    BY <1>2, <2>1, TailEntries
  <2>2. CASE i # 1
    <3>1. i - 1 \in 1 .. Len(Tail(q)) /\ q[i] = Tail(q)[i - 1]
      BY <2>2, TailEntries
    <3> QED
      BY <1>2, <3>1 DEF NoFree
  <2> QED
    BY <2>1, <2>2
<1> QED
  BY <1>1, <1>2 DEF NoFree

(* Order on one wire and between two wires.                                *)
LEMMA AppendIncreasing ==
    ASSUME NEW S, NEW q \in Seq(S), NEW x \in S
    PROVE  Increasing(Append(q, x)) <=> Increasing(q) /\ AllBelow(q, x.vc, x.id)
BY AppendEntries DEF Increasing, AllBelow

(* The flits of p stay before those of q when an entry joins q, or joins   *)
(* p.                                                                      *)
LEMMA AppendBefore ==
    ASSUME NEW S, NEW p \in Seq(S), NEW q \in Seq(S), NEW x \in S
    PROVE  /\ AllBefore(p, Append(q, x)) <=> AllBefore(p, q) /\ AllBelow(p, x.vc, x.id)
           /\ AllBefore(Append(p, x), q) <=> AllBefore(p, q) /\ Follow(q, x)
<1>1. AllBefore(p, Append(q, x)) <=> AllBefore(p, q) /\ AllBelow(p, x.vc, x.id)
  BY AppendEntries DEF AllBefore, AllBelow
<1>2. AllBefore(Append(p, x), q) <=> AllBefore(p, q) /\ Follow(q, x)
  <2>1. AllBefore(Append(p, x), q) => AllBefore(p, q) /\ Follow(q, x)
    BY AppendEntries DEF AllBefore, Follow
  <2>2. AllBefore(p, q) /\ Follow(q, x) => AllBefore(Append(p, x), q)
    BY AppendEntries DEF AllBefore, Follow
  <2> QED
    BY <2>1, <2>2
<1> QED
  BY <1>1, <1>2

(* A wire is increasing if its tail is and follows the first entry.        *)
LEMMA TailIncreasing ==
    ASSUME NEW S, NEW q \in Seq(S), q # << >>
    PROVE  Increasing(q) <=> Increasing(Tail(q)) /\ Follow(Tail(q), Head(q))
<1>1. Increasing(q) => Increasing(Tail(q))
  BY TailEntries DEF Increasing
<1>2. Increasing(q) => Follow(Tail(q), Head(q))
  BY TailEntries DEF Increasing, Follow
<1>3. ASSUME Increasing(Tail(q)), Follow(Tail(q), Head(q)),
             NEW i \in 1 .. Len(q), NEW j \in 1 .. Len(q), i < j, q[i].vc = q[j].vc
      PROVE  q[i].id < q[j].id /\ ~q[i].tail
  <2>1. j - 1 \in 1 .. Len(Tail(q)) /\ q[j] = Tail(q)[j - 1]
    BY <1>3, TailEntries
  <2>2. CASE i = 1
    BY <1>3, <2>1, <2>2, TailEntries DEF Follow
  <2>3. CASE i # 1
    <3>1. i - 1 \in 1 .. Len(Tail(q)) /\ q[i] = Tail(q)[i - 1] /\ i - 1 < j - 1
      BY <1>3, <2>3, TailEntries
    <3> QED
      BY <1>3, <2>1, <3>1 DEF Increasing
  <2> QED
    BY <2>2, <2>3
<1> QED
  BY <1>1, <1>2, <1>3 DEF Increasing

(* The flits of p stay before those of q when either wire loses its first. *)
LEMMA TailBefore ==
    ASSUME NEW S, NEW p \in Seq(S), NEW q \in Seq(S)
    PROVE  /\ q # << >> => (AllBefore(p, q) <=>
                AllBefore(p, Tail(q)) /\ AllBelow(p, Head(q).vc, Head(q).id))
           /\ p # << >> => (AllBefore(p, q) <=> AllBefore(Tail(p), q) /\ Follow(q, Head(p)))
<1>1. ASSUME q # << >>
      PROVE AllBefore(p, q) <=> AllBefore(p, Tail(q)) /\ AllBelow(p, Head(q).vc, Head(q).id)
  <2>1. AllBefore(p, q) => AllBefore(p, Tail(q)) /\ AllBelow(p, Head(q).vc, Head(q).id)
    BY <1>1, TailEntries DEF AllBefore, AllBelow
  <2>2. ASSUME AllBefore(p, Tail(q)), AllBelow(p, Head(q).vc, Head(q).id),
               NEW i \in 1 .. Len(p), NEW j \in 1 .. Len(q), p[i].vc = q[j].vc
        PROVE  p[i].id < q[j].id /\ ~p[i].tail
    <3>1. CASE j = 1
      BY <1>1, <2>2, <3>1, TailEntries DEF AllBelow
    <3>2. CASE j # 1
      <4>1. j - 1 \in 1 .. Len(Tail(q)) /\ q[j] = Tail(q)[j - 1]
        BY <1>1, <3>2, TailEntries
      <4> QED
        BY <2>2, <4>1 DEF AllBefore
    <3> QED
      BY <3>1, <3>2
  <2> QED
    BY <2>1, <2>2 DEF AllBefore
<1>2. ASSUME p # << >>
      PROVE AllBefore(p, q) <=> AllBefore(Tail(p), q) /\ Follow(q, Head(p))
  <2>1. AllBefore(p, q) => AllBefore(Tail(p), q) /\ Follow(q, Head(p))
    <3>1. /\ p[1] = Head(p) /\ 1 \in 1 .. Len(p)
          /\ \A i \in 1 .. Len(Tail(p)) : i + 1 \in 1 .. Len(p) /\ Tail(p)[i] = p[i + 1]
      BY <1>2, TailEntries
    <3> QED
      BY <3>1 DEF AllBefore, Follow
  <2>2. ASSUME AllBefore(Tail(p), q), Follow(q, Head(p)),
               NEW i \in 1 .. Len(p), NEW j \in 1 .. Len(q), p[i].vc = q[j].vc
        PROVE  p[i].id < q[j].id /\ ~p[i].tail
    <3>1. CASE i = 1
      BY <1>2, <2>2, <3>1, TailEntries DEF Follow
    <3>2. CASE i # 1
      <4>1. i - 1 \in 1 .. Len(Tail(p)) /\ p[i] = Tail(p)[i - 1]
        BY <1>2, <3>2, TailEntries
      <4> QED
        BY <2>2, <4>1 DEF AllBefore
    <3> QED
      BY <3>1, <3>2
  <2> QED
    BY <2>1, <2>2 DEF AllBefore
<1> QED
  BY <1>1, <1>2

(* Free signals stay last if the VC of the new credit had none before it.  *)
LEMMA AppendFreeLast ==
    ASSUME NEW S, NEW q \in Seq(S), NEW x \in S
    PROVE  FreeLast(Append(q, x)) <=> FreeLast(q) /\ NoFree(q, x.vc)
BY AppendEntries DEF FreeLast, NoFree

(* Free signals are last if no credit follows the first one's free signal. *)
LEMMA TailFreeLast ==
    ASSUME NEW S, NEW q \in Seq(S), q # << >>
    PROVE  FreeLast(q) <=>
             FreeLast(Tail(q)) /\ (Head(q).free => NoneOf(Tail(q), Head(q).vc))
<1>1. FreeLast(q) => FreeLast(Tail(q))
  BY TailEntries DEF FreeLast
<1>2. FreeLast(q) /\ Head(q).free => NoneOf(Tail(q), Head(q).vc)
  BY TailEntries DEF FreeLast, NoneOf
<1>3. ASSUME FreeLast(Tail(q)), Head(q).free => NoneOf(Tail(q), Head(q).vc),
             NEW i \in 1 .. Len(q), NEW j \in 1 .. Len(q), i < j, q[i].free
      PROVE  q[j].vc # q[i].vc
  <2>1. j - 1 \in 1 .. Len(Tail(q)) /\ q[j] = Tail(q)[j - 1]
    BY <1>3, TailEntries
  <2>2. CASE i = 1
    BY <1>3, <2>1, <2>2, TailEntries DEF NoneOf
  <2>3. CASE i # 1
    <3>1. i - 1 \in 1 .. Len(Tail(q)) /\ q[i] = Tail(q)[i - 1] /\ i - 1 < j - 1
      BY <1>3, <2>3, TailEntries
    <3> QED
      BY <1>3, <2>1, <3>1 DEF FreeLast
  <2> QED
    BY <2>2, <2>3
<1> QED
  BY <1>1, <1>2, <1>3 DEF FreeLast

-----------------------------------------------------------------------------
(* A wire as the stream of the items of each VC                            *)

(* The entries before i are as many as the wire up to there counts.        *)
LEMMA PlaceIsNumber ==
    ASSUME NEW q, NEW i \in Nat
    PROVE  PlaceOn(q, i) \in Nat
<1>1. IsFiniteSet(1 .. i - 1)
  BY FS_Interval
<1>2. {j \in 1 .. i - 1 : q[j].vc = q[i].vc} \in SUBSET (1 .. i - 1)
  OBVIOUS
<1> QED
  BY <1>1, <1>2, FS_Subset, FS_CardinalityType DEF PlaceOn

(* The places after one more entry has joined the wire.                    *)
LEMMA PlacesOfAppend ==
    ASSUME NEW S, NEW q \in Seq(S), NEW x \in S
    PROVE  /\ \A i \in 1 .. Len(q) : PlaceOn(Append(q, x), i) = PlaceOn(q, i)
           /\ PlaceOn(Append(q, x), Len(q) + 1) = CountOf(q, x.vc)
<1> DEFINE a == Append(q, x)
<1>1. \A i \in 1 .. Len(q) : a[i] = q[i]
  BY AppendEntries
<1>2. Len(q) \in Nat /\ a[Len(q) + 1] = x
  BY AppendEntries
<1> HIDE DEF a
<1>3. ASSUME NEW i \in 1 .. Len(q) PROVE PlaceOn(a, i) = PlaceOn(q, i)
  <2>1. \A j \in 1 .. i - 1 : a[j] = q[j]
    BY <1>1, <1>2
  <2>2. {j \in 1 .. i - 1 : a[j].vc = a[i].vc} = {j \in 1 .. i - 1 : q[j].vc = q[i].vc}
    BY <1>1, <2>1
  <2> QED
    BY <2>2 DEF PlaceOn
<1>4. PlaceOn(a, Len(q) + 1) = CountOf(q, x.vc)
  <2>1. 1 .. (Len(q) + 1) - 1 = 1 .. Len(q)
    BY <1>2
  <2>2. {j \in 1 .. (Len(q) + 1) - 1 : a[j].vc = a[Len(q) + 1].vc} = IndicesOf(q, x.vc)
    BY <1>1, <1>2, <2>1 DEF IndicesOf
  <2> QED
    BY <2>2 DEF PlaceOn, CountOf
<1> QED
  BY <1>3, <1>4 DEF a

(* The places after the first entry is gone.                               *)
LEMMA PlacesOfTail ==
    ASSUME NEW S, NEW q \in Seq(S), q # << >>
    PROVE  /\ PlaceOn(q, 1) = 0
           /\ \A i \in 1 .. Len(q) - 1 :
                PlaceOn(q, i + 1) = PlaceOn(Tail(q), i)
                    + (IF q[i + 1].vc = Head(q).vc THEN 1 ELSE 0)
<1> DEFINE t == Tail(q)
<1>1. /\ Len(q) \in Nat \ {0} /\ Len(t) = Len(q) - 1
      /\ \A i \in 1 .. Len(q) - 1 : t[i] = q[i + 1]
      /\ Head(q) = q[1]
  BY TailEntries
<1> HIDE DEF t
<1>2. PlaceOn(q, 1) = 0
  <2>1. {j \in 1 .. 1 - 1 : q[j].vc = q[1].vc} = {}
    OBVIOUS
  <2> QED
    BY <2>1, FS_EmptySet DEF PlaceOn
<1>3. ASSUME NEW i \in 1 .. Len(q) - 1
      PROVE  PlaceOn(q, i + 1) = PlaceOn(t, i) + (IF q[i + 1].vc = Head(q).vc THEN 1 ELSE 0)
  <2> DEFINE v == q[i + 1].vc
             T == {j \in 1 .. i - 1 : t[j].vc = t[i].vc}
             R == {j \in 2 .. i : q[j].vc = v}
             Q == {j \in 1 .. (i + 1) - 1 : q[j].vc = v}
             f == [j \in T |-> j + 1]
  <2>1. i \in Nat /\ t[i] = q[i + 1]
    BY <1>1
  <2>2. \A j \in 1 .. i - 1 : t[j] = q[j + 1]
    BY <1>1
  <2>3. IsFiniteSet(T)
    <3>1. IsFiniteSet(1 .. i - 1)
      BY <2>1, FS_Interval
    <3>2. T \in SUBSET (1 .. i - 1)
      OBVIOUS
    <3> QED
      BY <3>1, <3>2, FS_Subset
  <2>4. f \in Bijection(T, R)
    <3>1. \A j \in T : j \in 1 .. i - 1 /\ j + 1 \in 2 .. i /\ q[j + 1].vc = v
      BY <2>1, <2>2
    <3>2. f \in [T -> R]
      BY <3>1
    <3>3. f \in Injection(T, R)
      BY <3>2 DEF Injection, IsInjective
    <3>4. ASSUME NEW j \in R PROVE \E k \in T : f[k] = j
      <4>1. j - 1 \in 1 .. i - 1 /\ q[(j - 1) + 1] = q[j]
        BY <2>1
      <4>2. j - 1 \in T
        BY <4>1, <2>1, <2>2
      <4> QED
        BY <4>2
    <3> QED
      BY <3>2, <3>3, <3>4 DEF Bijection, Surjection
  <2>5. IsFiniteSet(R) /\ Cardinality(R) = Cardinality(T)
    <3> HIDE DEF f, T, R
    <3> QED
      BY <2>3, <2>4, FS_Bijection DEF ExistsBijection
  <2>6. CASE q[1].vc = v
    <3>1. Q = R \cup {1} /\ 1 \notin R
      BY <2>1, <2>6
    <3>2. Cardinality(Q) = Cardinality(R) + 1
      BY <2>5, <3>1, FS_AddElement
    <3> QED
      BY <1>1, <2>5, <2>6, <3>2 DEF PlaceOn
  <2>7. CASE q[1].vc # v
    <3>1. Q = R
      BY <2>1, <2>7
    <3>2. Cardinality(T) \in Nat
      BY <2>3, FS_CardinalityType
    <3>3. Cardinality(Q) = Cardinality(T) + 0
      <4> HIDE DEF Q, R, T
      <4> QED
        BY <2>5, <3>1, <3>2
    <3> QED
      BY <1>1, <2>7, <3>3 DEF PlaceOn
  <2> QED
    BY <2>6, <2>7
<1> QED
  BY <1>2, <1>3 DEF t

(* An entry's place is below the number of entries of its VC, and the      *)
(* entries of a VC have different places, in order and without a gap.      *)
LEMMA PlacesInOrder ==
    ASSUME NEW S, NEW q \in Seq(S), NEW i \in 1 .. Len(q)
    PROVE  /\ PlaceOn(q, i) \in Nat /\ PlaceOn(q, i) < CountOf(q, q[i].vc)
           /\ \A j \in 1 .. Len(q) :
                /\ i < j /\ q[j].vc = q[i].vc
                /\ \A k \in i + 1 .. j - 1 : q[k].vc # q[i].vc
                => PlaceOn(q, j) = PlaceOn(q, i) + 1
           /\ (\A k \in 1 .. i - 1 : q[k].vc # q[i].vc) => PlaceOn(q, i) = 0
<1> DEFINE v == q[i].vc
           P == {j \in 1 .. i - 1 : q[j].vc = v}
<1>1. Len(q) \in Nat /\ i \in Nat
  BY LenProperties
<1>2. IsFiniteSet(P)
  <2>1. IsFiniteSet(1 .. i - 1)
    BY <1>1, FS_Interval
  <2>2. P \in SUBSET (1 .. i - 1)
    OBVIOUS
  <2> QED
    BY <2>1, <2>2, FS_Subset
<1>3. Cardinality(P) \in Nat /\ PlaceOn(q, i) = Cardinality(P)
  BY <1>2, FS_CardinalityType DEF PlaceOn
<1>4. Cardinality(P \cup {i}) = Cardinality(P) + 1
  <2>1. i \notin P
    BY <1>1
  <2> HIDE DEF P
  <2> QED
    BY <1>2, <2>1, FS_AddElement
<1>5. PlaceOn(q, i) < CountOf(q, v)
  <2>1. P \cup {i} \in SUBSET IndicesOf(q, v)
    BY <1>1 DEF IndicesOf
  <2>2. Cardinality(P \cup {i}) <= CountOf(q, v)
    <3> HIDE DEF P
    <3> QED
      BY <2>1, IndicesFinite, FS_Subset DEF CountOf
  <2>3. CountOf(q, v) \in Nat
    BY IndicesFinite
  <2> HIDE DEF P, v
  <2> QED
    BY <1>3, <1>4, <2>2, <2>3
<1>6. ASSUME NEW j \in 1 .. Len(q), i < j, q[j].vc = v,
             \A k \in i + 1 .. j - 1 : q[k].vc # v
      PROVE  PlaceOn(q, j) = PlaceOn(q, i) + 1
  <2>1. {k \in 1 .. j - 1 : q[k].vc = q[j].vc} = P \cup {i}
    <3>1. \A k \in 1 .. j - 1 : k \in 1 .. i - 1 \/ k = i \/ k \in i + 1 .. j - 1
      BY <1>1
    <3>2. \A k \in 1 .. i - 1 : k \in 1 .. j - 1
      BY <1>1, <1>6
    <3>3. i \in 1 .. j - 1
      BY <1>1, <1>6
    <3> QED
      BY <1>6, <3>1, <3>2, <3>3
  <2> HIDE DEF P
  <2> QED
    BY <1>3, <1>4, <2>1 DEF PlaceOn
<1>7. ASSUME \A k \in 1 .. i - 1 : q[k].vc # v PROVE PlaceOn(q, i) = 0
  <2>1. P = {}
    BY <1>7
  <2> HIDE DEF P
  <2> QED
    BY <1>3, <2>1, FS_EmptySet
<1> QED
  BY <1>3, <1>5, <1>6, <1>7

(* An empty wire carries nothing.                                          *)
LEMMA CarriesNothing ==
    ASSUME NEW V, NEW from \in [V -> Nat], NEW item
    PROVE  CarriesAll(<< >>, from, from, item)
<1>1. \A v : CountOf(<< >>, v) = 0
  <2>1. << >> \in Seq({})
    OBVIOUS
  <2>2. \A v : NoneOf(<< >>, v)
    BY DEF NoneOf
  <2> QED
    BY <2>1, <2>2, CountZero
<1> QED
  BY <1>1 DEF CarriesAll

(* The next item of its VC may join the wire.                              *)
LEMMA CarriesAppend ==
    ASSUME NEW S, NEW q \in Seq(S), NEW x \in S, NEW V, x.vc \in V,
           NEW from \in [V -> Nat], NEW to \in [V -> Nat], NEW item,
           CarriesAll(q, from, to, item), x = item[x.vc][to[x.vc]]
    PROVE  CarriesAll(Append(q, x), from, [to EXCEPT ![x.vc] = @ + 1], item)
<1> DEFINE a == Append(q, x)
<1>1. /\ Len(q) \in Nat /\ Len(a) = Len(q) + 1 /\ a[Len(q) + 1] = x
      /\ \A i \in 1 .. Len(q) : a[i] = q[i]
  BY AppendEntries
<1>2. /\ \A i \in 1 .. Len(q) : PlaceOn(a, i) = PlaceOn(q, i)
      /\ PlaceOn(a, Len(q) + 1) = CountOf(q, x.vc)
  BY PlacesOfAppend
<1>3. \A v : CountOf(a, v) = CountOf(q, v) + (IF x.vc = v THEN 1 ELSE 0) /\ CountOf(q, v) \in Nat
  BY CountAppend, IndicesFinite
<1> HIDE DEF a
<1>4. ASSUME NEW i \in 1 .. Len(a)
      PROVE  a[i].vc \in V /\ a[i] = item[a[i].vc][from[a[i].vc] + PlaceOn(a, i)]
  <2>1. CASE i \in 1 .. Len(q)
    BY <1>1, <1>2, <2>1 DEF CarriesAll
  <2>2. CASE i = Len(q) + 1
    <3>1. from[x.vc] + PlaceOn(a, i) = to[x.vc]
      BY <1>2, <2>2 DEF CarriesAll
    <3> QED
      BY <1>1, <2>2, <3>1
  <2> QED
    BY <1>1, <2>1, <2>2
<1>5. ASSUME NEW v \in V
      PROVE  [to EXCEPT ![x.vc] = @ + 1][v] = from[v] + CountOf(a, v)
  BY <1>3 DEF CarriesAll
<1> QED
  BY <1>4, <1>5 DEF CarriesAll, a

(* The first entry is the first item of its VC, and the rest go on.        *)
LEMMA CarriesTail ==
    ASSUME NEW S, NEW q \in Seq(S), q # << >>, NEW V,
           NEW from \in [V -> Nat], NEW to \in [V -> Nat], NEW item,
           CarriesAll(q, from, to, item)
    PROVE  LET v == Head(q).vc IN
           /\ v \in V /\ from[v] < to[v] /\ Head(q) = item[v][from[v]]
           /\ CarriesAll(Tail(q), [from EXCEPT ![v] = @ + 1], to, item)
<1> DEFINE t == Tail(q)
           v == Head(q).vc
<1>1. /\ Len(q) \in Nat \ {0} /\ Len(t) = Len(q) - 1
      /\ \A i \in 1 .. Len(q) - 1 : t[i] = q[i + 1]
      /\ Head(q) = q[1] /\ t \in Seq(S)
  BY TailEntries
<1>2. /\ PlaceOn(q, 1) = 0
      /\ \A i \in 1 .. Len(q) - 1 :
           PlaceOn(q, i + 1) = PlaceOn(t, i) + (IF q[i + 1].vc = v THEN 1 ELSE 0)
  BY PlacesOfTail
<1>3. \A w : CountOf(q, w) = CountOf(t, w) + (IF v = w THEN 1 ELSE 0) /\ CountOf(t, w) \in Nat
  BY <1>1, CountTail, IndicesFinite
<1>4. \A i \in Nat : PlaceOn(t, i) \in Nat
  BY PlaceIsNumber
<1> HIDE DEF t
<1>5. v \in V /\ Head(q) = item[v][from[v]]
  <2>1. 1 \in 1 .. Len(q)
    BY <1>1
  <2>2. v \in V /\ from[v] + 0 = from[v]
    BY <1>1, <2>1 DEF CarriesAll
  <2> QED
    BY <1>1, <1>2, <2>1, <2>2 DEF CarriesAll
<1>6. from[v] < to[v]
  BY <1>3, <1>5 DEF CarriesAll
<1> DEFINE next == [from EXCEPT ![v] = @ + 1]
<1>7. ASSUME NEW i \in 1 .. Len(t)
      PROVE  t[i].vc \in V /\ t[i] = item[t[i].vc][next[t[i].vc] + PlaceOn(t, i)]
  <2>1. i \in 1 .. Len(q) - 1 /\ i + 1 \in 1 .. Len(q) /\ t[i] = q[i + 1] /\ i \in Nat
    BY <1>1
  <2>2. t[i].vc \in V /\ t[i] = item[t[i].vc][from[t[i].vc] + PlaceOn(q, i + 1)]
    BY <2>1 DEF CarriesAll
  <2>3. from[t[i].vc] + PlaceOn(q, i + 1) = next[t[i].vc] + PlaceOn(t, i)
    <3>1. PlaceOn(q, i + 1) = PlaceOn(t, i) + (IF t[i].vc = v THEN 1 ELSE 0)
      BY <1>2, <2>1
    <3>2. next[t[i].vc] = from[t[i].vc] + (IF t[i].vc = v THEN 1 ELSE 0)
      BY <1>5, <2>2
    <3>3. from[t[i].vc] \in Nat /\ PlaceOn(t, i) \in Nat
      BY <1>4, <2>1, <2>2
    <3> HIDE DEF next
    <3> QED
      BY <3>1, <3>2, <3>3
  <2> QED
    BY <2>2, <2>3
<1>8. ASSUME NEW w \in V PROVE to[w] = next[w] + CountOf(t, w)
  BY <1>3, <1>5 DEF CarriesAll
<1> QED
  BY <1>5, <1>6, <1>7, <1>8 DEF CarriesAll, t

(* Two accounts of a wire that differ only for VCs it has nothing of.      *)
Agree(V, from, to, item, from2, to2, item2) ==
    \A w \in V : \/ from[w] = from2[w] /\ to[w] = to2[w] /\ item[w] = item2[w]
                 \/ from[w] = to[w] /\ from2[w] = to2[w]

(* What the items of a VC are does not matter while the wire has none.     *)
LEMMA CarriesOther ==
    ASSUME NEW S, NEW q \in Seq(S), NEW V,
           NEW from \in [V -> Nat], NEW to \in [V -> Nat], NEW item,
           NEW from2 \in [V -> Nat], NEW to2 \in [V -> Nat], NEW item2,
           CarriesAll(q, from, to, item),
           Agree(V, from, to, item, from2, to2, item2)
    PROVE  CarriesAll(q, from2, to2, item2)
<1>1. \A w : CountOf(q, w) \in Nat
  BY IndicesFinite
<1>2. ASSUME NEW w \in V PROVE to2[w] = from2[w] + CountOf(q, w)
  BY <1>1 DEF CarriesAll, Agree
<1>3. ASSUME NEW i \in 1 .. Len(q)
      PROVE  q[i].vc \in V /\ q[i] = item2[q[i].vc][from2[q[i].vc] + PlaceOn(q, i)]
  <2>1. q[i].vc \in V /\ q[i] = item[q[i].vc][from[q[i].vc] + PlaceOn(q, i)]
    BY DEF CarriesAll
  <2>2. PlaceOn(q, i) \in Nat /\ PlaceOn(q, i) < CountOf(q, q[i].vc)
    BY PlacesInOrder
  <2>3. from[q[i].vc] # to[q[i].vc]
    BY <1>1, <2>1, <2>2 DEF CarriesAll
  <2> QED
    BY <2>1, <2>3 DEF Agree
<1> QED
  BY <1>2, <1>3 DEF CarriesAll

(* Entries of one VC that follow a wire.                                   *)
LEMMA PlacesOfConcat ==
    ASSUME NEW S, NEW q \in Seq(S), NEW p \in Seq(S), NEW V, NEW v \in V, OnlyOf(p, v)
    PROVE  /\ \A i \in 1 .. Len(q) : PlaceOn(q \o p, i) = PlaceOn(q, i)
           /\ \A i \in 1 .. Len(p) : PlaceOn(q \o p, Len(q) + i) = CountOf(q, v) + (i - 1)
           /\ \A w \in V : CountOf(q \o p, w) = CountOf(q, w) + (IF w = v THEN Len(p) ELSE 0)
<1> DEFINE a == q \o p
           n == Len(q)
<1>1. /\ n \in Nat /\ Len(p) \in Nat /\ Len(a) = n + Len(p)
      /\ \A i \in 1 .. n : a[i] = q[i]
      /\ \A i \in 1 .. Len(p) : a[n + i] = p[i]
  <2>1. n \in Nat /\ Len(p) \in Nat
    BY LenProperties
  <2>2. Len(a) = n + Len(p)
    BY ConcatProperties
  <2>3. \A i \in 1 .. Len(a) : a[i] = IF i <= n THEN q[i] ELSE p[i - n]
    BY ConcatProperties
  <2> HIDE DEF a, n
  <2>4. \A i \in 1 .. n : a[i] = q[i]
    BY <2>1, <2>2, <2>3
  <2>5. ASSUME NEW i \in 1 .. Len(p) PROVE a[n + i] = p[i]
    <3>1. n + i \in 1 .. Len(a) /\ ~(n + i <= n) /\ (n + i) - n = i
      BY <2>1, <2>2
    <3> QED
      BY <2>3, <3>1
  <2> QED
    BY <2>1, <2>2, <2>4, <2>5
<1> HIDE DEF a
<1>2. ASSUME NEW i \in 1 .. n PROVE PlaceOn(a, i) = PlaceOn(q, i)
  <2>1. \A j \in 1 .. i - 1 : a[j] = q[j]
    BY <1>1
  <2>2. {j \in 1 .. i - 1 : a[j].vc = a[i].vc} = {j \in 1 .. i - 1 : q[j].vc = q[i].vc}
    BY <1>1, <2>1
  <2> QED
    BY <2>2 DEF PlaceOn
<1>3. \A w : IsFiniteSet(IndicesOf(q, w)) /\ CountOf(q, w) \in Nat
  BY IndicesFinite
<1> DEFINE New(k) == n + 1 .. n + k
<1>4. ASSUME NEW k \in Nat PROVE IsFiniteSet(New(k)) /\ Cardinality(New(k)) = k
  <2>1. n + 1 \in Int /\ n + k \in Int
    BY <1>1
  <2>2. IsFiniteSet(New(k)) /\ Cardinality(New(k)) =
          (IF n + 1 > n + k THEN 0 ELSE (n + k) - (n + 1) + 1)
    BY <2>1, FS_Interval
  <2> HIDE DEF New
  <2> QED
    BY <1>1, <2>2
<1>5. ASSUME NEW k \in Nat PROVE Cardinality(IndicesOf(q, v) \cup New(k)) = CountOf(q, v) + k
  <2>1. IndicesOf(q, v) \cap New(k) = {}
    BY <1>1 DEF IndicesOf
  <2>2. Cardinality({}) = 0
    BY FS_EmptySet
  <2> HIDE DEF New
  <2>3. Cardinality(IndicesOf(q, v) \cup New(k)) =
          Cardinality(IndicesOf(q, v)) + Cardinality(New(k)) - 0
    BY <1>3, <1>4, <2>1, <2>2, FS_Union
  <2> QED
    BY <1>3, <1>4, <2>3 DEF CountOf
<1>6. ASSUME NEW i \in 1 .. Len(p) PROVE PlaceOn(a, n + i) = CountOf(q, v) + (i - 1)
  <2>1. i - 1 \in Nat
    OBVIOUS
  <2>2. {j \in 1 .. (n + i) - 1 : a[j].vc = a[n + i].vc} = IndicesOf(q, v) \cup New(i - 1)
    <3>1. a[n + i].vc = v
      BY <1>1 DEF OnlyOf
    <3>2. ASSUME NEW j
          PROVE  j \in 1 .. (n + i) - 1 /\ a[j].vc = v
                   <=> j \in IndicesOf(q, v) \/ j \in New(i - 1)
      <4>1. CASE j \in 1 .. n
        BY <1>1, <4>1 DEF IndicesOf
      <4>2. CASE j \in n + 1 .. (n + i) - 1
        <5>1. j - n \in 1 .. Len(p) /\ n + (j - n) = j
          BY <1>1, <4>2
        <5>2. a[j].vc = v
          BY <1>1, <5>1 DEF OnlyOf
        <5> QED
          BY <1>1, <4>2, <5>2
      <4>3. CASE j \notin 1 .. n /\ j \notin n + 1 .. (n + i) - 1
        BY <1>1, <4>3 DEF IndicesOf
      <4> QED
        BY <4>1, <4>2, <4>3
    <3> QED
      BY <3>1, <3>2
  <2> HIDE DEF New
  <2> QED
    BY <1>5, <2>1, <2>2 DEF PlaceOn
<1>7. ASSUME NEW w \in V
      PROVE CountOf(a, w) = CountOf(q, w) + (IF w = v THEN Len(p) ELSE 0)
  <2>1. CASE w = v
    <3>1. ASSUME NEW j
          PROVE  j \in IndicesOf(a, v) <=> j \in IndicesOf(q, v) \/ j \in New(Len(p))
      <4>1. CASE j \in 1 .. n
        BY <1>1, <4>1 DEF IndicesOf
      <4>2. CASE j \in n + 1 .. n + Len(p)
        <5>1. j - n \in 1 .. Len(p) /\ n + (j - n) = j
          BY <1>1, <4>2
        <5>2. a[j].vc = v
          BY <1>1, <5>1 DEF OnlyOf
        <5> QED
          BY <1>1, <4>2, <5>2 DEF IndicesOf
      <4>3. CASE j \notin 1 .. n /\ j \notin n + 1 .. n + Len(p)
        BY <1>1, <4>3 DEF IndicesOf
      <4> QED
        BY <4>1, <4>2, <4>3
    <3>2. IndicesOf(a, v) = IndicesOf(q, v) \cup New(Len(p))
      BY <3>1
    <3> HIDE DEF New
    <3> QED
      BY <1>1, <1>5, <2>1, <3>2 DEF CountOf
  <2>2. CASE w # v
    <3>1. ASSUME NEW j PROVE  j \in IndicesOf(a, w) <=> j \in IndicesOf(q, w)
      <4>1. CASE j \in 1 .. n
        BY <1>1, <4>1 DEF IndicesOf
      <4>2. CASE j \in n + 1 .. n + Len(p)
        <5>1. j - n \in 1 .. Len(p) /\ n + (j - n) = j
          BY <1>1, <4>2
        <5>2. a[j].vc = v
          BY <1>1, <5>1 DEF OnlyOf
        <5> QED
          BY <1>1, <2>2, <4>2, <5>2 DEF IndicesOf
      <4>3. CASE j \notin 1 .. n /\ j \notin n + 1 .. n + Len(p)
        BY <1>1, <4>3 DEF IndicesOf
      <4> QED
        BY <4>1, <4>2, <4>3
    <3>2. IndicesOf(a, w) = IndicesOf(q, w)
      BY <3>1
    <3> QED
      BY <1>3, <2>2, <3>2 DEF CountOf
  <2> QED
    BY <2>1, <2>2
<1> QED
  BY <1>2, <1>6, <1>7 DEF a

(* The items of VC v from the n-th on.                                     *)
ItemsFrom(p, v, n, item) ==
    \A i \in 1 .. Len(p) : p[i].vc = v /\ p[i] = item[v][n + (i - 1)]

(* The next items of a VC may join the wire together.                      *)
LEMMA CarriesConcat ==
    ASSUME NEW S, NEW q \in Seq(S), NEW p \in Seq(S), NEW V, NEW v \in V,
           NEW from \in [V -> Nat], NEW to \in [V -> Nat], NEW item,
           CarriesAll(q, from, to, item),
           ItemsFrom(p, v, to[v], item)
    PROVE  CarriesAll(q \o p, from, [to EXCEPT ![v] = @ + Len(p)], item)
<1> DEFINE a == q \o p
           n == Len(q)
<1>1. /\ n \in Nat /\ Len(p) \in Nat /\ Len(a) = n + Len(p)
      /\ \A i \in 1 .. Len(a) : a[i] = IF i <= n THEN q[i] ELSE p[i - n]
  BY LenProperties, ConcatProperties
<1>2. /\ \A i \in 1 .. n : PlaceOn(a, i) = PlaceOn(q, i)
      /\ \A i \in 1 .. Len(p) : PlaceOn(a, n + i) = CountOf(q, v) + (i - 1)
      /\ \A w \in V : CountOf(a, w) = CountOf(q, w) + (IF w = v THEN Len(p) ELSE 0)
  <2>1. OnlyOf(p, v)
    BY DEF OnlyOf, ItemsFrom
  <2>2. /\ \A i \in 1 .. Len(q) : PlaceOn(q \o p, i) = PlaceOn(q, i)
        /\ \A i \in 1 .. Len(p) : PlaceOn(q \o p, Len(q) + i) = CountOf(q, v) + (i - 1)
        /\ \A w \in V : CountOf(q \o p, w) = CountOf(q, w) + (IF w = v THEN Len(p) ELSE 0)
    BY <2>1, PlacesOfConcat
  <2> QED
    BY <2>2
<1>3. \A w : CountOf(q, w) \in Nat
  BY IndicesFinite
<1> HIDE DEF a
<1>4. ASSUME NEW i \in 1 .. Len(a)
      PROVE  a[i].vc \in V /\ a[i] = item[a[i].vc][from[a[i].vc] + PlaceOn(a, i)]
  <2>1. CASE i <= n
    <3>1. i \in 1 .. n
      BY <1>1, <2>1
    <3> QED
      BY <1>1, <1>2, <2>1, <3>1 DEF CarriesAll
  <2>2. CASE ~(i <= n)
    <3>1. i - n \in 1 .. Len(p) /\ n + (i - n) = i
      BY <1>1, <2>2
    <3>2. a[i] = p[i - n] /\ a[i].vc = v
      BY <1>1, <2>2, <3>1 DEF ItemsFrom
    <3>3. PlaceOn(a, i) = CountOf(q, v) + ((i - n) - 1)
      BY <1>2, <3>1
    <3>4. from[v] + PlaceOn(a, i) = to[v] + ((i - n) - 1)
      <4>1. to[v] = from[v] + CountOf(q, v)
        BY DEF CarriesAll
      <4> QED
        BY <1>1, <1>3, <3>1, <3>3, <4>1
    <3> QED
      BY <3>1, <3>2, <3>4 DEF ItemsFrom
  <2> QED
    BY <2>1, <2>2
<1>5. ASSUME NEW w \in V
      PROVE  [to EXCEPT ![v] = @ + Len(p)][w] = from[w] + CountOf(a, w)
  BY <1>1, <1>2, <1>3 DEF CarriesAll
<1> QED
  BY <1>4, <1>5 DEF CarriesAll, a

(* Numbers are as many m further on.                                       *)
LEMMA AsManyFurther ==
    ASSUME NEW T \in SUBSET Nat, IsFiniteSet(T), NEW m \in Nat
    PROVE  /\ IsFiniteSet({k + m : k \in T})
           /\ Cardinality({k + m : k \in T}) = Cardinality(T)
<1> DEFINE R == {k + m : k \in T}
           f == [k \in T |-> k + m]
<1>1. f \in [T -> R]
  OBVIOUS
<1>2. f \in Injection(T, R)
  BY <1>1 DEF Injection, IsInjective
<1>3. \A j \in R : \E k \in T : f[k] = j
  OBVIOUS
<1>4. f \in Bijection(T, R)
  BY <1>1, <1>2, <1>3 DEF Bijection, Surjection
<1> HIDE DEF f, R
<1>5. IsFiniteSet(R) /\ Cardinality(R) = Cardinality(T)
  BY <1>4, FS_Bijection DEF ExistsBijection
<1> QED
  BY <1>5 DEF R

(* The entries of w among the first b of a wire.                           *)
Among(q, b, w) == {k \in 1 .. b : q[k].vc = w}

(* How many there are when the wire follows entries of v.                  *)
LEMMA CountsOfFollowing ==
    ASSUME NEW S, NEW p \in Seq(S), NEW q \in Seq(S), NEW v, OnlyOf(p, v),
           NEW b \in 0 .. Len(q), NEW w
    PROVE  Cardinality(Among(p \o q, Len(p) + b, w)) =
             Cardinality(Among(q, b, w)) + (IF w = v THEN Len(p) ELSE 0)
<1> DEFINE a == p \o q
           m == Len(p)
           T == {k \in 1 .. b : q[k].vc = w}
           R == {k + m : k \in T}
           A == {k \in 1 .. m + b : a[k].vc = w}
           P == 1 .. m
<1>1. /\ m \in Nat /\ Len(q) \in Nat /\ Len(a) = m + Len(q)
      /\ \A i \in 1 .. Len(a) : a[i] = IF i <= m THEN p[i] ELSE q[i - m]
  BY LenProperties, ConcatProperties
<1>2. b \in Nat /\ b <= Len(q)
  BY <1>1
<1>3. IsFiniteSet(T) /\ T \in SUBSET Nat
  <2>1. IsFiniteSet(1 .. b)
    BY <1>2, FS_Interval
  <2>2. T \in SUBSET (1 .. b) /\ T \in SUBSET Nat
    OBVIOUS
  <2> QED
    BY <2>1, <2>2, FS_Subset
<1>4. IsFiniteSet(R) /\ Cardinality(R) = Cardinality(T) /\ Cardinality(T) \in Nat
  <2> HIDE DEF T
  <2> QED
    BY <1>1, <1>3, AsManyFurther, FS_CardinalityType
<1>5. IsFiniteSet(P) /\ Cardinality(P) = m
  <2>0. 1 \in Int /\ m \in Int
    BY <1>1
  <2> HIDE DEF m
  <2>1. IsFiniteSet(P) /\ Cardinality(P) = (IF 1 > m THEN 0 ELSE m - 1 + 1)
    BY <2>0, FS_Interval
  <2> HIDE DEF P
  <2> QED
    BY <1>1, <2>1
<1> HIDE DEF a
<1>6. ASSUME NEW k \in 1 .. m + b
      PROVE  IF k <= m THEN k \in P /\ a[k].vc = v ELSE k - m \in 1 .. b /\ a[k] = q[k - m]
  <2>1. k \in 1 .. Len(a)
    BY <1>1, <1>2
  <2>2. CASE k <= m
    BY <1>1, <2>1, <2>2 DEF OnlyOf
  <2>3. CASE ~(k <= m)
    BY <1>1, <1>2, <2>1, <2>3
  <2> QED
    BY <2>2, <2>3
<1>7. ASSUME NEW k PROVE k \in R <=> k \in A /\ ~(k <= m)
  <2>1. ASSUME k \in R PROVE k \in A /\ ~(k <= m)
    <3>1. PICK j \in T : k = j + m
      BY <2>1
    <3>2. j \in 1 .. b /\ j \in Nat /\ k \in 1 .. m + b /\ ~(k <= m) /\ k - m = j
      BY <1>1, <1>2, <3>1
    <3> QED
      BY <1>6, <3>1, <3>2
  <2>2. ASSUME k \in A, ~(k <= m) PROVE k \in R
    <3>1. k - m \in T
      BY <1>6, <2>2
    <3>2. (k - m) + m = k
      BY <1>1, <2>2
    <3> QED
      BY <3>1, <3>2
  <2> QED
    BY <2>1, <2>2
<1>8. CASE w = v
  <2>1. A = P \cup R
    <3>1. ASSUME NEW k PROVE k \in A <=> k \in P \/ k \in R
      <4>1. k \in P => k \in 1 .. m + b /\ k <= m
        BY <1>1, <1>2
      <4> HIDE DEF R
      <4> QED
        BY <1>6, <1>7, <1>8, <4>1
    <3> HIDE DEF A, P, R
    <3> QED
      BY <3>1
  <2>2. P \cap R = {}
    <3>1. \A k \in P : k <= m
      BY <1>1
    <3> HIDE DEF A, P, R
    <3> QED
      BY <1>7, <3>1
  <2>3. Cardinality(A) = m + Cardinality(T)
    <3> HIDE DEF A, P, R, T, m
    <3>1. Cardinality(P \cap R) = 0
      BY <2>2, FS_EmptySet
    <3>2. Cardinality(P \cup R) = Cardinality(P) + Cardinality(R) - Cardinality(P \cap R)
      BY <1>4, <1>5, FS_Union
    <3>3. Cardinality(A) = m + Cardinality(T) - 0
      BY <1>4, <1>5, <2>1, <3>1, <3>2
    <3> QED
      BY <1>1, <1>4, <3>3 DEF m
  <2> HIDE DEF A, T
  <2>4. Cardinality(A) = Cardinality(T) + m
    BY <1>1, <1>4, <2>3
  <2> QED
    BY <1>8, <2>4 DEF A, T, a, Among
<1>9. CASE w # v
  <2>1. A = R
    <3>1. ASSUME NEW k PROVE k \in A <=> k \in R
      <4> HIDE DEF R
      <4> QED
        BY <1>6, <1>7, <1>9
    <3> HIDE DEF A, R
    <3> QED
      BY <3>1
  <2> HIDE DEF A, R, T
  <2>2. Cardinality(A) = Cardinality(T) + 0
    BY <1>4, <2>1
  <2> QED
    BY <1>9, <2>2 DEF A, T, a, Among
<1> QED
  BY <1>8, <1>9

(* A queue with the items of one VC is followed by a wire with the next.   *)
LEMMA CarriesBefore ==
    ASSUME NEW S, NEW p \in Seq(S), NEW q \in Seq(S), NEW V, NEW v \in V,
           NEW from \in [V -> Nat], NEW to \in [V -> Nat], NEW item,
           CarriesAll(q, from, to, item),
           NEW n \in Nat, from[v] = n + Len(p), ItemsFrom(p, v, n, item)
    PROVE  CarriesAll(p \o q, [from EXCEPT ![v] = n], to, item)
<1> DEFINE a == p \o q
           m == Len(p)
           first == [from EXCEPT ![v] = n]
<1>1. /\ m \in Nat /\ Len(q) \in Nat /\ Len(a) = m + Len(q)
      /\ \A i \in 1 .. Len(a) : a[i] = IF i <= m THEN p[i] ELSE q[i - m]
  BY LenProperties, ConcatProperties
<1>2. OnlyOf(p, v)
  BY DEF OnlyOf, ItemsFrom
<1>3. ASSUME NEW i \in 1 .. m PROVE PlaceOn(a, i) = i - 1 /\ a[i] = p[i]
  <2>1. i \in 1 .. Len(a) /\ i <= m
    BY <1>1
  <2>2. a[i] = p[i] /\ \A j \in 1 .. i - 1 : a[j] = p[j] /\ j \in 1 .. Len(p)
    BY <1>1, <2>1
  <2> HIDE DEF a
  <2>3. {j \in 1 .. i - 1 : a[j].vc = a[i].vc} = 1 .. i - 1
    BY <1>2, <2>2 DEF OnlyOf
  <2>4. Cardinality(1 .. i - 1) = IF 1 > i - 1 THEN 0 ELSE (i - 1) - 1 + 1
    BY <1>1, FS_Interval
  <2>5. Cardinality(1 .. i - 1) = i - 1
    BY <1>1, <2>4
  <2> QED
    BY <2>2, <2>3, <2>5 DEF PlaceOn
<1>4. ASSUME NEW i \in 1 .. Len(q)
      PROVE  /\ PlaceOn(a, m + i) = PlaceOn(q, i) + (IF q[i].vc = v THEN m ELSE 0)
             /\ a[m + i] = q[i]
  <2>1. a[m + i] = q[i]
    <3>1. m + i \in 1 .. Len(a) /\ ~(m + i <= m) /\ (m + i) - m = i
      BY <1>1
    <3> HIDE DEF a, m
    <3> QED
      BY <1>1, <3>1
  <2>2. i - 1 \in 0 .. Len(q) /\ (m + i) - 1 = m + (i - 1)
    BY <1>1
  <2>3. Cardinality(Among(a, m + (i - 1), q[i].vc)) =
          Cardinality(Among(q, i - 1, q[i].vc)) + (IF q[i].vc = v THEN m ELSE 0)
    BY <1>2, <2>2, CountsOfFollowing
  <2> HIDE DEF a, m
  <2> QED
    BY <2>1, <2>2, <2>3 DEF PlaceOn, Among
<1>5. ASSUME NEW w \in V PROVE CountOf(a, w) = CountOf(q, w) + (IF w = v THEN m ELSE 0)
  <2>1. Len(q) \in 0 .. Len(q)
    BY <1>1
  <2>2. Cardinality(Among(a, m + Len(q), w)) =
          Cardinality(Among(q, Len(q), w)) + (IF w = v THEN m ELSE 0)
    BY <1>2, <2>1, CountsOfFollowing
  <2> HIDE DEF a, m
  <2> QED
    BY <1>1, <2>2 DEF CountOf, IndicesOf, Among
<1>6. \A w : CountOf(q, w) \in Nat
  BY IndicesFinite
<1>7. \A i \in 1 .. Len(q) : PlaceOn(q, i) \in Nat
  BY PlaceIsNumber
<1> HIDE DEF a, m
<1>8. ASSUME NEW i \in 1 .. Len(a)
      PROVE  a[i].vc \in V /\ a[i] = item[a[i].vc][first[a[i].vc] + PlaceOn(a, i)]
  <2>1. CASE i <= m
    <3>1. i \in 1 .. m
      BY <1>1, <2>1
    <3>2. p[i].vc = v /\ p[i] = item[v][n + (i - 1)]
      BY <3>1 DEF ItemsFrom, m
    <3> QED
      BY <1>3, <3>1, <3>2
  <2>2. CASE ~(i <= m)
    <3> DEFINE j == i - m
    <3>1. j \in 1 .. Len(q) /\ m + j = i
      BY <1>1, <2>2
    <3>2. a[i] = q[j] /\ PlaceOn(a, i) = PlaceOn(q, j) + (IF q[j].vc = v THEN m ELSE 0)
      BY <1>4, <3>1
    <3>3. q[j].vc \in V /\ q[j] = item[q[j].vc][from[q[j].vc] + PlaceOn(q, j)]
      BY <3>1 DEF CarriesAll
    <3>4. PlaceOn(q, j) \in Nat
      BY <1>7, <3>1
    <3> HIDE DEF j
    <3>5. first[q[j].vc] + PlaceOn(a, i) = from[q[j].vc] + PlaceOn(q, j)
      <4>1. CASE q[j].vc = v
        BY <1>1, <3>2, <3>4, <4>1 DEF m
      <4>2. CASE q[j].vc # v
        BY <3>2, <3>3, <3>4, <4>2
      <4> QED
        BY <4>1, <4>2
    <3> HIDE DEF first
    <3> QED
      BY <3>2, <3>3, <3>5
  <2> QED
    BY <2>1, <2>2
<1>9. ASSUME NEW w \in V PROVE to[w] = first[w] + CountOf(a, w)
  <2>1. to[w] = from[w] + CountOf(q, w)
    BY DEF CarriesAll
  <2>2. CASE w = v
    BY <1>1, <1>5, <1>6, <2>1, <2>2 DEF m
  <2>3. CASE w # v
    BY <1>5, <1>6, <2>1, <2>3
  <2> QED
    BY <2>2, <2>3
<1>10. DOMAIN first = V
  OBVIOUS
<1> HIDE DEF first
<1> QED
  BY <1>8, <1>9, <1>10 DEF CarriesAll, a, first
=============================================================================
