--------------------------- MODULE TrafficProofs ---------------------------
(***************************************************************************)
(* The counts of Traffic add up, a drain that is long enough leaves        *)
(* nothing behind, replayed packets are injected in their cycle, and the   *)
(* percentiles are the least values that suffice.                          *)
(***************************************************************************)
EXTENDS Traffic, DataTheorems

-----------------------------------------------------------------------------
(* Sums                                                                    *)

(* What Total counts: every x of the domain f[x] times.                    *)
Pairs(f) == UNION {{x} \X (1 .. f[x]) : x \in DOMAIN f}

LEMMA PairsAre ==
    ASSUME NEW S, IsFiniteSet(S), NEW f \in [S -> Nat]
    PROVE  /\ Pairs(f) = {p \in S \X Nat : p[2] \in 1 .. f[p[1]]}
           /\ IsFiniteSet(Pairs(f))
           /\ Total(f) = Cardinality(Pairs(f)) /\ Total(f) \in Nat
<1>1. Pairs(f) = {p \in S \X Nat : p[2] \in 1 .. f[p[1]]}
  BY DEF Pairs
<1> DEFINE T == {{x} \X (1 .. f[x]) : x \in S}
           g == [x \in S |-> {x} \X (1 .. f[x])]
<1>2. g \in Surjection(S, T)
  BY DEF Surjection
<1>3. IsFiniteSet(T)
  <2> HIDE DEF T, g
  <2> QED
    BY <1>2, FS_Surjection
<1>4. \A x \in S : IsFiniteSet({x} \X (1 .. f[x]))
  <2> TAKE x \in S
  <2>1. IsFiniteSet(1 .. f[x])
    BY FS_Interval
  <2>2. IsFiniteSet({x})
    BY FS_Singleton
  <2> QED
    BY <2>1, <2>2, FS_Product
<1>5. IsFiniteSet(UNION T)
  <2>1. \A t \in T : IsFiniteSet(t)
    BY <1>4
  <2> HIDE DEF T
  <2> QED
    BY <1>3, <2>1, FS_UNION
<1>6. Pairs(f) = UNION T
  BY DEF Pairs
<1>7. Total(f) = Cardinality(Pairs(f))
  BY DEF Total, Pairs
<1> QED
  BY <1>1, <1>5, <1>6, <1>7, FS_CardinalityType

(* A sum in two parts.                                                     *)
LEMMA TotalOfParts ==
    ASSUME NEW S, NEW T, IsFiniteSet(S), IsFiniteSet(T), S \cap T = {},
           NEW f \in [S \cup T -> Nat]
    PROVE  Total(f) = Total([x \in S |-> f[x]]) + Total([x \in T |-> f[x]])
<1> DEFINE g == [x \in S |-> f[x]]
           h == [x \in T |-> f[x]]
<1>1. g \in [S -> Nat] /\ h \in [T -> Nat] /\ IsFiniteSet(S \cup T)
  BY FS_Union
<1>2. /\ \A x \in S : g[x] = f[x]
      /\ \A x \in T : h[x] = f[x]
  OBVIOUS
<1> HIDE DEF g, h
<1>3. /\ Pairs(f) = {p \in (S \cup T) \X Nat : p[2] \in 1 .. f[p[1]]}
      /\ Total(f) = Cardinality(Pairs(f))
  BY <1>1, PairsAre
<1>4. /\ Pairs(g) = {p \in S \X Nat : p[2] \in 1 .. g[p[1]]}
      /\ IsFiniteSet(Pairs(g)) /\ Total(g) = Cardinality(Pairs(g))
      /\ Pairs(h) = {p \in T \X Nat : p[2] \in 1 .. h[p[1]]}
      /\ IsFiniteSet(Pairs(h)) /\ Total(h) = Cardinality(Pairs(h))
  BY <1>1, PairsAre
<1>5. Pairs(f) = Pairs(g) \cup Pairs(h) /\ Pairs(g) \cap Pairs(h) = {}
  BY <1>2, <1>3, <1>4
<1>6. Cardinality(Pairs(f)) = Cardinality(Pairs(g)) + Cardinality(Pairs(h)) - Cardinality({})
  BY <1>4, <1>5, FS_Union
<1>7. Cardinality(Pairs(g)) \in Nat /\ Cardinality(Pairs(h)) \in Nat /\ Cardinality({}) = 0
  BY <1>4, FS_CardinalityType, FS_EmptySet
<1> QED
  BY <1>3, <1>4, <1>6, <1>7 DEF g, h

(* A sum over a set whose elements correspond to those of another.         *)
LEMMA TotalOfImage ==
    ASSUME NEW S, NEW T, IsFiniteSet(S), NEW b \in Bijection(S, T),
           NEW f \in [S -> Nat], NEW g \in [T -> Nat], \A x \in S : f[x] = g[b[x]]
    PROVE  Total(f) = Total(g)
<1>1. IsFiniteSet(T)
  BY FS_Bijection DEF ExistsBijection
<1>2. /\ Pairs(f) = {p \in S \X Nat : p[2] \in 1 .. f[p[1]]}
      /\ IsFiniteSet(Pairs(f)) /\ Total(f) = Cardinality(Pairs(f))
      /\ Pairs(g) = {p \in T \X Nat : p[2] \in 1 .. g[p[1]]}
      /\ Total(g) = Cardinality(Pairs(g))
  BY <1>1, PairsAre
<1>3. /\ b \in [S -> T] /\ \A x, y \in S : b[x] = b[y] => x = y
      /\ \A y \in T : \E x \in S : b[x] = y
  BY DEF Bijection, Injection, Surjection, IsInjective
<1> DEFINE c == [p \in Pairs(f) |-> <<b[p[1]], p[2]>>]
<1>4. c \in [Pairs(f) -> Pairs(g)]
  BY <1>2, <1>3
<1>5. \A p, q \in Pairs(f) : c[p] = c[q] => p = q
  BY <1>2, <1>3
<1>6. \A q \in Pairs(g) : \E p \in Pairs(f) : c[p] = q
  <2> TAKE q \in Pairs(g)
  <2>1. PICK x \in S : b[x] = q[1]
    BY <1>2, <1>3
  <2>2. <<x, q[2]>> \in Pairs(f) /\ c[<<x, q[2]>>] = q
    BY <1>2, <2>1
  <2> QED
    BY <2>2
<1>7. c \in Bijection(Pairs(f), Pairs(g))
  <2> HIDE DEF c
  <2> QED
    BY <1>4, <1>5, <1>6 DEF Bijection, Injection, Surjection, IsInjective
<1>8. ExistsBijection(Pairs(f), Pairs(g))
  BY <1>7 DEF ExistsBijection
<1> QED
  BY <1>2, <1>8, FS_Bijection

(* The sum of two functions.                                               *)
LEMMA TotalOfSum ==
    ASSUME NEW S, IsFiniteSet(S), NEW f \in [S -> Nat], NEW g \in [S -> Nat],
           NEW h, h = [x \in S |-> f[x] + g[x]]
    PROVE  Total(h) = Total(f) + Total(g)
<1>1. h \in [S -> Nat] /\ \A x \in S : h[x] = f[x] + g[x]
  OBVIOUS
<1>2. /\ Pairs(f) = {p \in S \X Nat : p[2] \in 1 .. f[p[1]]}
      /\ IsFiniteSet(Pairs(f)) /\ Total(f) = Cardinality(Pairs(f))
      /\ Pairs(g) = {p \in S \X Nat : p[2] \in 1 .. g[p[1]]}
      /\ IsFiniteSet(Pairs(g)) /\ Total(g) = Cardinality(Pairs(g))
      /\ Pairs(h) = {p \in S \X Nat : p[2] \in 1 .. h[p[1]]}
      /\ Total(h) = Cardinality(Pairs(h))
  BY <1>1, PairsAre
<1> DEFINE Q == {p \in S \X Nat : p[2] \in f[p[1]] + 1 .. h[p[1]]}
           c == [p \in Pairs(g) |-> <<p[1], f[p[1]] + p[2]>>]
<1>3. Pairs(h) = Pairs(f) \cup Q /\ Pairs(f) \cap Q = {}
  BY <1>1, <1>2
<1>4. c \in [Pairs(g) -> Q] /\ \A p, q \in Pairs(g) : c[p] = c[q] => p = q
  <2>1. \A p \in Pairs(g) :
          /\ p[1] \in S /\ p[2] \in Nat /\ f[p[1]] \in Nat /\ p = <<p[1], p[2]>>
          /\ f[p[1]] + p[2] \in f[p[1]] + 1 .. h[p[1]]
    BY <1>1, <1>2
  <2>2. \A p \in Pairs(g) : c[p] \in Q
    BY <2>1
  <2>3. ASSUME NEW p \in Pairs(g), NEW q \in Pairs(g), c[p] = c[q] PROVE p = q
    <3>1. p[1] = q[1] /\ f[p[1]] = f[q[1]] /\ f[p[1]] + p[2] = f[q[1]] + q[2]
      BY <2>3
    <3>2. p[2] \in Nat /\ q[2] \in Nat /\ f[p[1]] \in Nat
      BY <2>1
    <3>3. p[2] = q[2]
      <4> DEFINE a == f[p[1]]
                 k == p[2]
                 l == q[2]
      <4>1. a + k = a + l /\ a \in Nat /\ k \in Nat /\ l \in Nat
        BY <3>1, <3>2
      <4> HIDE DEF a, k, l
      <4>2. k = l
        BY <4>1
      <4> QED
        BY <4>2 DEF k, l
    <3>4. p = <<p[1], p[2]>> /\ q = <<q[1], q[2]>>
      BY <2>1
    <3> QED
      BY <3>1, <3>3, <3>4
  <2> QED
    BY <2>2, <2>3
<1>5. \A q \in Q : \E p \in Pairs(g) : c[p] = q
  <2> TAKE q \in Q
  <2>1. <<q[1], q[2] - f[q[1]]>> \in Pairs(g) /\ c[<<q[1], q[2] - f[q[1]]>>] = q
    BY <1>1, <1>2
  <2> QED
    BY <2>1
<1>6. c \in Bijection(Pairs(g), Q)
  <2> HIDE DEF c, Q
  <2> QED
    BY <1>4, <1>5 DEF Bijection, Injection, Surjection, IsInjective
<1> HIDE DEF Q
<1>7. IsFiniteSet(Q) /\ Cardinality(Q) = Cardinality(Pairs(g))
  <2>1. ExistsBijection(Pairs(g), Q)
    BY <1>6 DEF ExistsBijection
  <2> QED
    BY <1>2, <2>1, FS_Bijection
<1>8. Cardinality(Pairs(h)) = Cardinality(Pairs(f)) + Cardinality(Q) - Cardinality({})
  BY <1>2, <1>3, <1>7, FS_Union
<1>9. Cardinality(Pairs(f)) \in Nat /\ Cardinality(Pairs(g)) \in Nat /\ Cardinality({}) = 0
  BY <1>2, FS_CardinalityType, FS_EmptySet
<1> QED
  BY <1>2, <1>7, <1>8, <1>9

(* The same number everywhere.                                             *)
LEMMA TotalOfSame ==
    ASSUME NEW S, IsFiniteSet(S), NEW n \in Nat
    PROVE  Total([x \in S |-> n]) = Cardinality(S) * n
<1> DEFINE f == [x \in S |-> n]
<1>1. Pairs(f) = {p \in S \X Nat : p[2] \in 1 .. f[p[1]]} /\ Total(f) = Cardinality(Pairs(f))
  <2>1. f \in [S -> Nat]
    OBVIOUS
  <2> HIDE DEF f
  <2> QED
    BY <2>1, PairsAre
<1>2. Pairs(f) = S \X (1 .. n)
  BY <1>1
<1>3. IsFiniteSet(1 .. n) /\ Cardinality(1 .. n) = n
  BY FS_Interval
<1>4. Cardinality(S \X (1 .. n)) = Cardinality(S) * Cardinality(1 .. n)
  BY <1>3, FS_Product
<1> QED
  BY <1>1, <1>2, <1>3, <1>4

(* Counted by parts, a set has as many members as in one go.               *)
LEMMA CountByParts ==
    ASSUME NEW C, IsFiniteSet(C), NEW V, IsFiniteSet(V), NEW part \in [C -> V],
           NEW n, n = [v \in V |-> Cardinality({x \in C : part[x] = v})]
    PROVE  Total(n) = Cardinality(C) /\ n \in [V -> Nat]
<1> DEFINE Of(v) == {x \in C : part[x] = v}
           Numberings(v) == Bijection(Of(v), 1 .. n[v])
           number == [v \in V |-> CHOOSE b : b \in Numberings(v)]
           c == [x \in C |-> <<part[x], number[part[x]][x]>>]
<1>1. \A v \in V : IsFiniteSet(Of(v)) /\ n[v] = Cardinality(Of(v))
  BY FS_Subset
<1>2. n \in [V -> Nat]
  BY <1>1, FS_CardinalityType
<1>3. \A v \in V : number[v] \in Numberings(v)
  <2> TAKE v \in V
  <2>1. IsFiniteSet(1 .. n[v]) /\ Cardinality(1 .. n[v]) = n[v]
    BY <1>2, FS_Interval
  <2> HIDE DEF Of
  <2>2. ExistsBijection(Of(v), 1 .. n[v])
    BY <1>1, <2>1, FS_SameCardinalityBij
  <2>3. \E b : b \in Numberings(v)
    BY <2>2 DEF ExistsBijection
  <2> HIDE DEF Numberings
  <2> QED
    BY <2>3
<1>4. \A v \in V :
        /\ \A x \in Of(v) : number[v][x] \in 1 .. n[v]
        /\ \A x, y \in Of(v) : number[v][x] = number[v][y] => x = y
        /\ \A k \in 1 .. n[v] : \E x \in Of(v) : number[v][x] = k
  <2> TAKE v \in V
  <2> DEFINE b == number[v]
             S == Of(v)
             T == 1 .. n[v]
  <2>1. b \in Bijection(S, T)
    BY <1>3
  <2> HIDE DEF b, S, T
  <2>2. /\ b \in [S -> T] /\ \A x, y \in S : b[x] = b[y] => x = y
        /\ \A k \in T : \E x \in S : b[x] = k
    BY <2>1 DEF Bijection, Injection, Surjection, IsInjective
  <2>3. \A x \in S : b[x] \in T
    BY <2>2
  <2> QED
    BY <2>2, <2>3 DEF b, S, T
<1>5. Pairs(n) = {p \in V \X Nat : p[2] \in 1 .. n[p[1]]} /\ Total(n) = Cardinality(Pairs(n))
  BY ONLY <1>2, IsFiniteSet(V), PairsAre
<1> HIDE DEF number
<1>6. c \in [C -> Pairs(n)]
  <2> SUFFICES ASSUME NEW x \in C PROVE c[x] \in Pairs(n)
    OBVIOUS
  <2>1. part[x] \in V /\ x \in Of(part[x])
    OBVIOUS
  <2>2. number[part[x]][x] \in 1 .. n[part[x]]
    <3> HIDE DEF Of
    <3> QED
      BY <1>4, <2>1, Zenon
  <2> QED
    BY <1>2, <1>5, <2>1, <2>2
<1>7. \A x, y \in C : c[x] = c[y] => x = y
  BY <1>4
<1>8. \A p \in Pairs(n) : \E x \in C : c[x] = p
  <2> TAKE p \in Pairs(n)
  <2>1. /\ p \in V \X Nat /\ p[2] \in 1 .. n[p[1]]
        /\ p[1] \in V /\ p = <<p[1], p[2]>>
    <3> HIDE DEF Of
    <3> QED
      BY <1>5
  <2>2. PICK x \in Of(p[1]) : number[p[1]][x] = p[2]
    BY <1>4, <2>1
  <2>3. x \in C /\ part[x] = p[1]
    OBVIOUS
  <2>4. c[x] = p
    BY <2>1, <2>2, <2>3
  <2> QED
    BY <2>3, <2>4
<1>9. c \in Bijection(C, Pairs(n))
  <2> HIDE DEF c
  <2> QED
    BY <1>6, <1>7, <1>8 DEF Bijection, Injection, Surjection, IsInjective
<1>10. ExistsBijection(C, Pairs(n))
  BY <1>9 DEF ExistsBijection
<1> QED
  BY <1>2, <1>5, <1>10, FS_Bijection

-----------------------------------------------------------------------------
(* Sorting                                                                 *)

(* Two keys as one number.                                                 *)
LEMMA OneKey ==
    ASSUME NEW a \in Int, NEW b \in Int, NEW l \in Nat, NEW i \in 1 .. l, NEW j \in 1 .. l
    PROVE  a * l + i < b * l + j <=> a < b \/ (a = b /\ i < j)
<1>1. \A x, y \in Int : x < y => x * l + l <= y * l
  <2> TAKE x, y \in Int
  <2> HAVE x < y
  <2>1. PICK d \in Nat : y = x + 1 + d
    <3>1. y - x - 1 \in Nat /\ y = x + 1 + (y - x - 1)
      OBVIOUS
    <3> QED
      BY <3>1
  <2>2. y * l = x * l + l + d * l
    BY <2>1
  <2>3. d * l \in Nat /\ x * l \in Int /\ y * l \in Int
    OBVIOUS
  <2> QED
    BY <2>2, <2>3
<1>2. a * l \in Int /\ b * l \in Int
  OBVIOUS
<1>3. CASE a < b
  BY <1>1, <1>2, <1>3
<1>4. CASE b < a
  BY <1>1, <1>2, <1>4
<1>5. CASE a = b
  BY <1>2, <1>5
<1> QED
  BY <1>3, <1>4, <1>5

(* A sorted sequence is the sequence in another order, by increasing keys. *)
LEMMA StableSorts ==
    ASSUME NEW S, NEW s \in Seq(S), NEW key \in [1 .. Len(s) -> Int]
    PROVE  \E at \in Bijection(1 .. Len(s), 1 .. Len(s)) :
             /\ StableSort(s, key) = [n \in 1 .. Len(s) |-> s[at[n]]]
             /\ \A n, m \in 1 .. Len(s) : n < m => key[at[n]] <= key[at[m]]
<1> DEFINE l == Len(s)
           F == 1 .. l
           rank == [i \in F |-> key[i] * l + i]
           place(i) == Cardinality({j \in F : key[j] < key[i] \/ (key[j] = key[i] /\ j < i)})
           turn == [i \in F |-> Cardinality({j \in F : rank[j] < rank[i]})]
           at == [n \in F |-> CHOOSE i \in F : place(i) = n - 1]
<1>1. l \in Nat /\ DOMAIN s = F /\ \A i \in F : s[i] \in S
  BY LengthOf
<1> HIDE DEF l
<1>2. \A i, j \in F : rank[i] < rank[j] <=> key[i] < key[j] \/ (key[i] = key[j] /\ i < j)
  <2> TAKE i, j \in F
  <2>1. key[i] \in Int /\ key[j] \in Int
    BY DEF l
  <2> QED
    BY <1>1, <2>1, OneKey
<1>3. rank \in [F -> Int] /\ IsInjective(rank)
  <2>1. \A i \in F : key[i] \in Int
    BY DEF l
  <2>2. rank \in [F -> Int]
    BY <1>1, <2>1
  <2>3. ASSUME NEW i \in F, NEW j \in F, rank[i] = rank[j] PROVE i = j
    <3>1. ~(rank[i] < rank[j]) /\ ~(rank[j] < rank[i])
      BY <2>2, <2>3
    <3>2. i \in Nat /\ j \in Nat
      BY <1>1
    <3> HIDE DEF rank
    <3> QED
      BY <1>2, <2>1, <3>1, <3>2
  <2> HIDE DEF rank
  <2> QED
    BY <2>2, <2>3 DEF IsInjective
<1>4. IsFiniteSet(F) /\ Cardinality(F) = l
  BY <1>1, FS_Interval
<1> HIDE DEF F, rank
<1>5. turn \in Bijection(F, 0 .. l - 1)
  <2>1. turn \in Bijection(F, 0 .. Cardinality(F) - 1)
    BY <1>3, <1>4, RanksCount
  <2> QED
    BY <1>4, <2>1
<1>6. \A i \in F : place(i) = turn[i]
  <2> TAKE i \in F
  <2>1. {j \in F : rank[j] < rank[i]} =
          {j \in F : key[j] < key[i] \/ (key[j] = key[i] /\ j < i)}
    BY <1>2
  <2> QED
    BY <2>1
<1> HIDE DEF turn, place
<1>7. /\ turn \in [F -> 0 .. l - 1]
      /\ \A i, j \in F : turn[i] = turn[j] => i = j
      /\ \A t \in 0 .. l - 1 : \E i \in F : turn[i] = t
  BY <1>5 DEF Bijection, Injection, Surjection, IsInjective
<1>8. \A n \in F : at[n] \in F /\ turn[at[n]] = n - 1
  <2> TAKE n \in F
  <2>1. n - 1 \in 0 .. l - 1
    BY <1>1 DEF F
  <2>2. \E i \in F : place(i) = n - 1
    BY <1>6, <1>7, <2>1
  <2>3. at[n] \in F /\ place(at[n]) = n - 1
    BY <2>2
  <2> QED
    BY <1>6, <2>3
<1>9. StableSort(s, key) = [n \in F |-> s[at[n]]]
  BY <1>1 DEF StableSort, place
<1> HIDE DEF at
<1>10. at \in [F -> F]
  BY <1>8 DEF at
<1>11. \A n, m \in F : at[n] = at[m] => n = m
  <2>1. \A n \in F : n \in Int
    BY <1>1 DEF F
  <2> QED
    BY <1>8, <2>1
<1>12. \A i \in F : turn[i] + 1 \in F /\ at[turn[i] + 1] = i
  <2> TAKE i \in F
  <2>1. turn[i] \in 0 .. l - 1
    BY <1>7
  <2>2. turn[i] + 1 \in F /\ turn[i] + 1 - 1 = turn[i]
    BY <1>1, <2>1 DEF F
  <2> QED
    BY <1>7, <1>8, <2>2
<1>13. at \in Bijection(F, F)
  BY <1>10, <1>11, <1>12 DEF Bijection, Injection, Surjection, IsInjective
<1>14. ASSUME NEW n \in F, NEW m \in F, n < m PROVE key[at[n]] <= key[at[m]]
  <2> SUFFICES ASSUME key[at[m]] < key[at[n]] PROVE FALSE
    BY <1>8 DEF F, l
  <2>1. rank[at[m]] < rank[at[n]]
    BY <1>2, <1>8
  <2> DEFINE B(i) == {j \in F : rank[j] < rank[i]}
  <2>2. B(at[m]) \subseteq B(at[n])
    <3>1. \A i \in F : rank[i] \in Int
      BY <1>3
    <3> QED
      BY <1>8, <2>1, <3>1
  <2>3. IsFiniteSet(B(at[m])) /\ IsFiniteSet(B(at[n]))
    BY <1>4, FS_Subset
  <2>4. turn[at[m]] = Cardinality(B(at[m])) /\ turn[at[n]] = Cardinality(B(at[n]))
    BY <1>8 DEF turn
  <2> HIDE DEF B
  <2>5. turn[at[m]] <= turn[at[n]]
    BY <2>2, <2>3, <2>4, FS_Subset
  <2>6. n \in Int /\ m \in Int
    BY <1>1 DEF F
  <2> QED
    BY <1>8, <1>14, <2>5, <2>6
<1> QED
  BY <1>9, <1>13, <1>14 DEF F, l

-----------------------------------------------------------------------------
(* Percentiles                                                             *)

(* The rank of a percentile among n values: the least of which p per cent  *)
(* of n are no more.                                                       *)
LEMMA RankIs ==
    ASSUME NEW n \in Nat \ {0}, NEW p \in 0 .. 100,
           NEW r, r = Min({Max({(p * n + 99) \div 100, 1}), n})
    PROVE  /\ r \in 1 .. n /\ p * n <= r * 100
           /\ r # 1 => (r - 1) * 100 < p * n
<1> DEFINE k == (p * n + 99) \div 100
<1>1. p * n \in Nat /\ p * n <= 100 * n
  BY SMT
<1>2. /\ k \in Nat /\ (p * n + 99) % 100 \in 0 .. 99
      /\ p * n + 99 = k * 100 + ((p * n + 99) % 100)
  <2>1. p * n + 99 \in Nat
    BY <1>1
  <2> DEFINE x == p * n + 99
  <2> HIDE DEF x
  <2>2. x \div 100 \in Nat /\ x % 100 \in 0 .. 100 - 1 /\ x = (x \div 100) * 100 + (x % 100)
    BY <2>1, DivAndMod DEF x
  <2> QED
    BY <2>2 DEF x
<1> DEFINE q == p * n
           d == (p * n + 99) % 100
<1>3. q \in Nat /\ q <= 100 * n /\ k \in Nat /\ d \in 0 .. 99 /\ q + 99 = k * 100 + d
  BY <1>1, <1>2
<1> HIDE DEF k, q, d
<1>4. k <= n /\ q <= k * 100 /\ (k - 1) * 100 < q
  BY <1>3
<1>5. Max({k, 1}) = IF k = 0 THEN 1 ELSE k
  <2> DEFINE m == IF k = 0 THEN 1 ELSE k
  <2>1. m \in {k, 1} /\ {k, 1} \in SUBSET Int /\ \A x \in {k, 1} : x <= m
    BY <1>3
  <2> HIDE DEF m
  <2>2. Max({k, 1}) = m
    BY <2>1, MaxOfLast, Zenon
  <2> QED
    BY <2>2 DEF m
<1> DEFINE m == Max({k, 1})
<1>6. m \in 1 .. n
  BY <1>3, <1>4, <1>5
<1> HIDE DEF m
<1>7. Min({m, n}) = m
  <2>1. Min({m, n}) \in {m, n} /\ \A x \in {m, n} : Min({m, n}) <= x
    <3>1. m \in {m, n} /\ \A x \in {m, n} : m <= x
      BY <1>6
    <3> QED
      BY <3>1 DEF Min
  <2> QED
    BY <1>6, <2>1
<1>8. r = m
  BY <1>7 DEF m, k
<1>9. r \in 1 .. n /\ q <= r * 100 /\ (r # 1 => (r - 1) * 100 < q)
  BY <1>3, <1>4, <1>5, <1>6, <1>8 DEF m
<1> QED
  BY <1>9 DEF q

(* The nearest rank is the least value that enough others do not exceed.   *)
LEMMA NearestRankIsLeast ==
    ASSUME NEW values \in Seq(Int), values # << >>, NEW p \in 0 .. 100,
           NEW enough,
           enough = {x \in ToSet(values) :
               Cardinality({i \in DOMAIN values : values[i] <= x}) * 100 >= p * Len(values)}
    PROVE  PercentileNearestRank(values, p) = Min(enough)
<1> DEFINE n == Len(values)
           F == 1 .. n
           sorted == StableSort(values, values)
           r == Min({Max({(p * n + 99) \div 100, 1}), n})
           Within(x) == {i \in F : values[i] <= x}
<1>1. n \in Nat \ {0} /\ DOMAIN values = F /\ \A i \in F : values[i] \in Int
  BY LengthOf
<1>2. values \in [F -> Int]
  BY <1>1
<1>3. PICK at \in Bijection(F, F) :
        /\ sorted = [k \in F |-> values[at[k]]]
        /\ \A k, m \in F : k < m => values[at[k]] <= values[at[m]]
  BY <1>2, StableSorts
<1>4. /\ at \in [F -> F] /\ \A k, m \in F : at[k] = at[m] => k = m
      /\ \A i \in F : \E k \in F : at[k] = i
  <2> HIDE DEF F
  <2> QED
    BY DEF Bijection, Injection, Surjection, IsInjective
<1>5. /\ r \in 1 .. n /\ p * n <= r * 100
      /\ r # 1 => (r - 1) * 100 < p * n
  <2> HIDE DEF n
  <2> QED
    BY <1>1, RankIs
<1>6. PercentileNearestRank(values, p) = sorted[r]
  BY DEF PercentileNearestRank
<1> HIDE DEF r, sorted
<1> DEFINE x == sorted[r]
<1>7. x = values[at[r]] /\ at[r] \in F /\ x \in Int
  BY <1>1, <1>3, <1>4, <1>5
<1>8. \A k \in F : values[at[k]] \in Int /\ (k <= r => values[at[k]] <= x)
                   /\ (r <= k => x <= values[at[k]])
  <2> TAKE k \in F
  <2>1. at[k] \in F /\ values[at[k]] \in Int /\ k \in Int /\ r \in Int /\ r \in F
    <3>1. at[k] \in F
      <4> HIDE DEF F
      <4> QED
        BY <1>4
    <3>2. values[at[k]] \in Int
      <4> HIDE DEF F
      <4> QED
        BY <1>1, <3>1
    <3> QED
      BY <1>1, <1>5, <3>1, <3>2
  <2>2. (k < r => values[at[k]] <= values[at[r]]) /\ (r < k => values[at[r]] <= values[at[k]])
    BY <1>3, <2>1
  <2>3. k < r \/ k = r \/ r < k
    BY <2>1
  <2> HIDE DEF x, F
  <2> QED
    BY <1>7, <2>1, <2>2, <2>3
<1> HIDE DEF x
<1>9. \A y : IsFiniteSet(Within(y)) /\ Cardinality(Within(y)) \in Nat
  <2> TAKE y
  <2>1. IsFiniteSet(F) /\ Within(y) \in SUBSET F
    BY <1>1, FS_Interval
  <2> HIDE DEF Within, F
  <2> QED
    BY <2>1, FS_Subset, FS_CardinalityType
<1>10. Cardinality(Within(x)) >= r
  <2> DEFINE f == [k \in 1 .. r |-> at[k]]
  <2>1. f \in [1 .. r -> Within(x)] /\ \A k, m \in 1 .. r : f[k] = f[m] => k = m
    <3>1. \A k \in 1 .. r : k \in F /\ k <= r
      BY <1>1, <1>5
    <3> HIDE DEF F
    <3>2. \A k \in 1 .. r : at[k] \in Within(x)
      BY <1>4, <1>8, <3>1
    <3> HIDE DEF Within
    <3> QED
      BY <1>4, <3>1, <3>2
  <2>2. f \in Injection(1 .. r, Within(x))
    <3> HIDE DEF f, Within
    <3> QED
      BY <2>1 DEF Injection, IsInjective
  <2>3. Cardinality(1 .. r) <= Cardinality(Within(x))
    <3> HIDE DEF f, Within
    <3> QED
      BY <1>9, <2>2, FS_Injection
  <2>4. Cardinality(1 .. r) = r
    BY <1>1, <1>5, FS_Interval
  <2> QED
    BY <1>5, <1>9, <2>3, <2>4
<1>11. ASSUME NEW y \in Int, y < x PROVE Cardinality(Within(y)) <= r - 1
  <2> DEFINE turn == [i \in F |-> CHOOSE k \in F : at[k] = i]
             f == [i \in Within(y) |-> turn[i]]
  <2>1. \A i \in F : turn[i] \in F /\ at[turn[i]] = i
    BY <1>4
  <2> HIDE DEF turn
  <2>2. \A i \in Within(y) : turn[i] \in 1 .. r - 1
    <3> TAKE i \in Within(y)
    <3>1. turn[i] \in F /\ values[at[turn[i]]] <= y /\ values[at[turn[i]]] \in Int
      <4>1. i \in F /\ values[i] <= y
        OBVIOUS
      <4> HIDE DEF F
      <4>2. turn[i] \in F /\ at[turn[i]] = i
        BY <2>1, <4>1
      <4> QED
        BY <1>8, <4>1, <4>2
    <3>2. ~(r <= turn[i])
      <4> SUFFICES ASSUME r <= turn[i] PROVE FALSE
        OBVIOUS
      <4> DEFINE z == values[at[turn[i]]]
      <4>1. z \in Int /\ z <= y /\ x <= z
        <5> HIDE DEF F
        <5> QED
          BY <1>8, <3>1
      <4> HIDE DEF z
      <4> QED
        BY <1>7, <1>11, <4>1
    <3> QED
      BY <1>1, <1>5, <3>1, <3>2
  <2>3. f \in [Within(y) -> 1 .. r - 1] /\ \A i, j \in Within(y) : f[i] = f[j] => i = j
    <3>1. \A i \in Within(y) : i \in F
      OBVIOUS
    <3> HIDE DEF F, Within
    <3> QED
      BY <2>1, <2>2, <3>1
  <2>4. f \in Injection(Within(y), 1 .. r - 1)
    <3> HIDE DEF f, Within
    <3> QED
      BY <2>3 DEF Injection, IsInjective
  <2>5. IsFiniteSet(1 .. r - 1) /\ Cardinality(1 .. r - 1) = r - 1
    <3> DEFINE b == r - 1
    <3>1. b \in Nat
      BY <1>1, <1>5
    <3> HIDE DEF b
    <3>2. IsFiniteSet(1 .. b) /\ Cardinality(1 .. b) = IF 1 > b THEN 0 ELSE b - 1 + 1
      BY <3>1, FS_Interval
    <3>3. IsFiniteSet(1 .. b) /\ Cardinality(1 .. b) = b
      BY <3>1, <3>2
    <3> QED
      BY <3>3 DEF b
  <2> HIDE DEF f, Within
  <2>6. Cardinality(Within(y)) <= Cardinality(1 .. r - 1)
    BY <2>4, <2>5, FS_Injection
  <2> QED
    BY <2>5, <2>6
<1>12. ToSet(values) = {values[i] : i \in F}
  BY <1>1 DEF ToSet
<1>13. enough = {y \in ToSet(values) : Cardinality(Within(y)) * 100 >= p * n}
  BY <1>1
<1> DEFINE q == p * n
<1>14. q \in Nat /\ q <= r * 100 /\ (r # 1 => (r - 1) * 100 < q) /\ r \in Nat \ {0}
  BY <1>1, <1>5
<1>15. x \in enough
  <2>1. x \in ToSet(values)
    BY <1>7, <1>12
  <2> DEFINE c == Cardinality(Within(x))
  <2>2. c \in Nat /\ c >= r
    BY <1>9, <1>10
  <2> HIDE DEF c, q
  <2>3. c * 100 >= q
    BY <1>14, <2>2
  <2> QED
    BY <1>13, <2>1, <2>3 DEF c, q
<1>16. enough \in SUBSET Int
  BY <1>1, <1>12, <1>13
<1>17. \A y \in enough : x <= y
  <2> SUFFICES ASSUME NEW y \in enough, y < x PROVE FALSE
    BY <1>7, <1>16
  <2>1. y \in Int /\ \E i \in F : values[i] = y
    BY <1>1, <1>12, <1>13
  <2> DEFINE c == Cardinality(Within(y))
  <2>2. c \in Nat /\ c <= r - 1 /\ c * 100 >= q
    <3> HIDE DEF Within, q, F
    <3>1. c * 100 >= q
      BY <1>13 DEF q
    <3> QED
      BY <1>9, <1>11, <2>1, <3>1
  <2>3. c # 0
    <3>1. Within(y) # {}
      BY <1>1, <2>1
    <3> HIDE DEF Within
    <3> QED
      BY <1>9, <3>1, FS_EmptySet
  <2> HIDE DEF c, q
  <2> QED
    BY <1>14, <2>2, <2>3
<1>18. Min(enough) = x
  <2>1. Min(enough) \in enough /\ \A y \in enough : Min(enough) <= y
    BY <1>15, <1>17 DEF Min
  <2>2. Min(enough) \in Int /\ x \in Int /\ Min(enough) <= x /\ x <= Min(enough)
    BY <1>15, <1>16, <1>17, <2>1, Zenon
  <2> QED
    BY <2>2
<1> QED
  BY <1>6, <1>18 DEF x

-----------------------------------------------------------------------------
(* The state                                                               *)

Destinations == Int \cup {RequestNodes + d : d \in UNION {ChooseDestination(s) : s \in Requests}}
Messages == [nr : Int, src : Int, dst : Destinations, vnet : Vnets, size : Nat,
             created : Nat, ready : Int]

TypeOK ==
    /\ config \in [synthetic : STRING, sender : Optional, dest : Optional, max : Optional,
                   vnet : Optional, sim : Nat, drain : Nat, packets : Seq(Packets)]
    /\ phase \in {"step", "process", "drain", "done", "failed"}
    /\ cycle \in Nat /\ nextPacket \in Nat \ {0}
    /\ network \in SUBSET Messages /\ IsFiniteSet(network)
    /\ fromNet \in SUBSET Messages /\ IsFiniteSet(fromNet)
    /\ injected \in [Vnets -> Nat] /\ delivered \in [Vnets -> Nat]
    /\ injectedFlits \in [Vnets -> Nat] /\ deliveredFlits \in [Vnets -> Nat]
    /\ latencies \in Seq(Nat)

(* The packets of a replay lie in the order of their cycles.               *)
InOrder ==
    \A i, j \in DOMAIN config.packets :
        i < j => config.packets[i].cycle <= config.packets[j].cycle

(* In the last phase of a cycle the network has run it.                    *)
Ran == IF phase = "drain" THEN 1 ELSE 0

(* Where a message can be in its time.                                     *)
MsgInv ==
    /\ \A m \in network :
         /\ m.ready = None /\ m.created <= cycle /\ m.created < config.sim
         /\ phase = "step" => m.created < cycle
         /\ cycle + Ran <= m.created + Delay
    /\ \A m \in fromNet :
         /\ m.ready \in Nat /\ m.ready <= cycle + Ran
         /\ m.created <= cycle /\ m.created < config.sim
         /\ m.ready <= m.created + Delay + 1
    /\ phase = "step" => cycle < config.sim
    /\ phase = "done" => cycle >= config.sim + config.drain

-----------------------------------------------------------------------------
(* Counting messages                                                       *)

LEMMA FlitsAreNat == \A n \in Nat : FlitsOf(n) \in Nat
<1> TAKE n \in Nat
<1>1. FlitSize \in Nat \ {0}
  BY FlitSizeAssumption
<1>2. n + FlitSize - 1 \in Nat
  BY <1>1
<1> DEFINE x == n + FlitSize - 1
<1> HIDE DEF x
<1>3. x \div FlitSize \in Nat
  BY <1>1, <1>2, DivAndMod DEF x
<1> QED
  BY <1>3 DEF FlitsOf, CeilDiv, x

(* The sum of the flits of some messages.                                  *)
LEMMA FlitSumIs ==
    ASSUME NEW A \in SUBSET Messages, IsFiniteSet(A)
    PROVE  /\ [m \in A |-> FlitsOf(m.size)] \in [A -> Nat]
           /\ NumFlits(A) \in Nat
<1>1. \A m \in A : FlitsOf(m.size) \in Nat
  BY FlitsAreNat DEF Messages
<1>2. [m \in A |-> FlitsOf(m.size)] \in [A -> Nat]
  BY <1>1
<1> QED
  BY <1>2, PairsAre DEF NumFlits

LEMMA PartOfVnet ==
    ASSUME NEW A \in SUBSET Messages, IsFiniteSet(A), NEW v
    PROVE  /\ OfVnet(A, v) \in SUBSET Messages /\ IsFiniteSet(OfVnet(A, v))
           /\ Cardinality(OfVnet(A, v)) \in Nat /\ NumFlits(OfVnet(A, v)) \in Nat
<1>1. OfVnet(A, v) \in SUBSET A
  BY DEF OfVnet
<1>2. OfVnet(A, v) \in SUBSET Messages /\ IsFiniteSet(OfVnet(A, v))
  BY <1>1, FS_Subset
<1> QED
  BY <1>2, FlitSumIs, FS_CardinalityType

(* Two groups of messages count as much together as one by one.            *)
LEMMA CountsAdd ==
    ASSUME NEW A \in SUBSET Messages, NEW B \in SUBSET Messages,
           IsFiniteSet(A), IsFiniteSet(B), A \cap B = {}, NEW v
    PROVE  /\ Cardinality(OfVnet(A \cup B, v)) =
                Cardinality(OfVnet(A, v)) + Cardinality(OfVnet(B, v))
           /\ NumFlits(OfVnet(A \cup B, v)) = NumFlits(OfVnet(A, v)) + NumFlits(OfVnet(B, v))
<1> DEFINE a == OfVnet(A, v)
           b == OfVnet(B, v)
           f == [m \in a \cup b |-> FlitsOf(m.size)]
<1>1. OfVnet(A \cup B, v) = a \cup b /\ a \cap b = {}
  BY DEF OfVnet
<1>2. /\ a \in SUBSET Messages /\ IsFiniteSet(a) /\ Cardinality(a) \in Nat
      /\ b \in SUBSET Messages /\ IsFiniteSet(b) /\ Cardinality(b) \in Nat
  BY PartOfVnet
<1> HIDE DEF a, b
<1>3. Cardinality(a \cup b) = Cardinality(a) + Cardinality(b)
  <2>1. Cardinality(a \cup b) = Cardinality(a) + Cardinality(b) - Cardinality({})
    BY <1>1, <1>2, FS_Union
  <2> QED
    BY <1>2, <2>1, FS_EmptySet
<1>4. f \in [a \cup b -> Nat]
  <2>1. a \cup b \in SUBSET Messages /\ IsFiniteSet(a \cup b)
    BY <1>2, FS_Union
  <2> QED
    BY <2>1, FlitSumIs
<1>5. Total(f) = Total([m \in a |-> f[m]]) + Total([m \in b |-> f[m]])
  <2> HIDE DEF f
  <2> QED
    BY <1>1, <1>2, <1>4, TotalOfParts
<1>6. /\ [m \in a |-> f[m]] = [m \in a |-> FlitsOf(m.size)]
      /\ [m \in b |-> f[m]] = [m \in b |-> FlitsOf(m.size)]
  OBVIOUS
<1>7. NumFlits(a \cup b) = NumFlits(a) + NumFlits(b)
  BY <1>5, <1>6 DEF NumFlits
<1> QED
  BY <1>1, <1>3, <1>7 DEF a, b

(* Messages that move count as before.                                     *)
LEMMA CountsStay ==
    ASSUME NEW A \in SUBSET Messages, NEW B \in SUBSET Messages, IsFiniteSet(A),
           NEW b \in Bijection(A, B), NEW v,
           \A m \in A : b[m].vnet = m.vnet /\ b[m].size = m.size
    PROVE  /\ IsFiniteSet(B)
           /\ Cardinality(OfVnet(B, v)) = Cardinality(OfVnet(A, v))
           /\ NumFlits(OfVnet(B, v)) = NumFlits(OfVnet(A, v))
<1>1. /\ b \in [A -> B] /\ \A x, y \in A : b[x] = b[y] => x = y
      /\ \A y \in B : \E x \in A : b[x] = y
  BY DEF Bijection, Injection, Surjection, IsInjective
<1>2. IsFiniteSet(B)
  BY FS_Bijection DEF ExistsBijection
<1> DEFINE S == OfVnet(A, v)
           T == OfVnet(B, v)
           c == [m \in S |-> b[m]]
           f == [m \in S |-> FlitsOf(m.size)]
           g == [m \in T |-> FlitsOf(m.size)]
<1>3. /\ \A m \in S : m \in A /\ b[m] \in T
      /\ \A y \in T : \E x \in S : b[x] = y
  BY <1>1 DEF OfVnet
<1>4. /\ S \in SUBSET Messages /\ IsFiniteSet(S)
      /\ T \in SUBSET Messages /\ IsFiniteSet(T)
  BY <1>2, PartOfVnet
<1> HIDE DEF S, T
<1>5. c \in Bijection(S, T)
  <2>1. c \in [S -> T] /\ (\A x, y \in S : c[x] = c[y] => x = y)
        /\ \A y \in T : \E x \in S : c[x] = y
    BY <1>1, <1>3
  <2> HIDE DEF c
  <2> QED
    BY <2>1 DEF Bijection, Injection, Surjection, IsInjective
<1>6. Cardinality(T) = Cardinality(S)
  <2>1. ExistsBijection(S, T)
    BY <1>5 DEF ExistsBijection
  <2> QED
    BY <1>4, <2>1, FS_Bijection
<1>7. f \in [S -> Nat] /\ g \in [T -> Nat]
  BY <1>4, FlitSumIs
<1>8. \A m \in S : f[m] = g[c[m]]
  BY <1>3
<1>9. Total(f) = Total(g)
  <2> HIDE DEF c, f, g
  <2> QED
    BY <1>4, <1>5, <1>7, <1>8, TotalOfImage
<1> QED
  BY <1>2, <1>6, <1>9 DEF NumFlits, S, T

-----------------------------------------------------------------------------
(* collectDelivered                                                        *)

LEMMA CollectedIs ==
    ASSUME TypeOK
    PROVE  /\ Collected \in SUBSET Messages /\ IsFiniteSet(Collected)
           /\ Rest \in SUBSET Messages /\ IsFiniteSet(Rest)
           /\ fromNet = Collected \cup Rest /\ Collected \cap Rest = {}
           /\ Collected \in SUBSET fromNet
<1>1. Collected \in SUBSET fromNet
  BY DEF Collected
<1>2. fromNet \in SUBSET Messages /\ IsFiniteSet(fromNet)
  BY DEF TypeOK
<1>3. Rest = fromNet \ Collected
  BY DEF Rest
<1>4. IsFiniteSet(Collected) /\ IsFiniteSet(Rest)
  BY <1>1, <1>2, <1>3, FS_Subset
<1> QED
  BY <1>1, <1>2, <1>3, <1>4

(* What is collected is counted, one latency each.                         *)
LEMMA CollectCounts ==
    ASSUME TypeOK, MsgInv, CollectDelivered
    PROVE  /\ delivered' \in [Vnets -> Nat] /\ deliveredFlits' \in [Vnets -> Nat]
           /\ \A v \in Vnets :
                /\ delivered'[v] = delivered[v] + Cardinality(OfVnet(Collected, v))
                /\ deliveredFlits'[v] = deliveredFlits[v] + NumFlits(OfVnet(Collected, v))
           /\ latencies' \in Seq(Nat)
           /\ Len(latencies') = Len(latencies) + Cardinality(Collected)
           /\ Total(delivered') = Total(delivered) + Cardinality(Collected)
<1>1. Collected \in SUBSET Messages /\ IsFiniteSet(Collected)
  BY CollectedIs
<1>2. \A v \in Vnets : /\ Cardinality(OfVnet(Collected, v)) \in Nat
                       /\ NumFlits(OfVnet(Collected, v)) \in Nat
  BY <1>1, PartOfVnet
<1>3. \A v \in Vnets : delivered[v] \in Nat /\ deliveredFlits[v] \in Nat
  BY DEF TypeOK
<1>4. /\ delivered' = [v \in Vnets |-> delivered[v] + Cardinality(OfVnet(Collected, v))]
      /\ deliveredFlits' = [v \in Vnets |-> deliveredFlits[v] + NumFlits(OfVnet(Collected, v))]
  BY DEF CollectDelivered
<1> DEFINE order == SetToSeq(Collected)
           new == [i \in 1 .. Len(order) |-> cycle - order[i].created]
<1>5. order \in Seq(Collected) /\ Len(order) = Cardinality(Collected) /\ Len(order) \in Nat
  <2> HIDE DEF order
  <2>1. SetToSeq(Collected) \in Seq(Collected) /\ Len(SetToSeq(Collected)) = Cardinality(Collected)
    BY <1>1, SetAsSeqIs
  <2> QED
    BY <1>1, <2>1, FS_CardinalityType DEF order
<1>6. latencies' = latencies \o new
  BY DEF CollectDelivered
<1> HIDE DEF order
<1>7. \A i \in 1 .. Len(order) : cycle - order[i].created \in Nat
  <2> TAKE i \in 1 .. Len(order)
  <2>1. order[i] \in Collected
    BY <1>5, LengthOf
  <2>2. order[i] \in fromNet /\ order[i] \in Messages
    BY <1>1, <2>1, CollectedIs
  <2>3. order[i].created \in Nat /\ order[i].created <= cycle /\ cycle \in Nat
    BY <2>2 DEF MsgInv, Messages, TypeOK
  <2> QED
    BY <2>3
<1>8. new \in Seq(Nat) /\ Len(new) = Len(order)
  <2>1. new \in [1 .. Len(order) -> Nat]
    BY <1>7
  <2> HIDE DEF new
  <2>2. new \in Seq(Nat)
    BY <1>5, <2>1, SeqDef
  <2> QED
    BY <1>5, <2>1, <2>2, LenProperties
<1> HIDE DEF new
<1>9. latencies' \in Seq(Nat) /\ Len(latencies') = Len(latencies) + Cardinality(Collected)
  <2>1. latencies \in Seq(Nat)
    BY DEF TypeOK
  <2>2. latencies \o new \in Seq(Nat) /\ Len(latencies \o new) = Len(latencies) + Len(new)
    BY <1>8, <2>1, ConcatProperties
  <2> QED
    BY <1>5, <1>6, <1>8, <2>2
<1> DEFINE part == [m \in Collected |-> m.vnet]
           n == [v \in Vnets |-> Cardinality({m \in Collected : part[m] = v})]
<1>10. Total(n) = Cardinality(Collected) /\ n \in [Vnets -> Nat]
  <2>1. part \in [Collected -> Vnets]
    BY <1>1 DEF Messages
  <2>2. IsFiniteSet(Vnets)
    BY NodesAssumption, FS_Interval DEF Vnets
  <2>3. n = [v \in Vnets |-> Cardinality({m \in Collected : part[m] = v})]
    OBVIOUS
  <2> HIDE DEF part, n
  <2> QED
    BY <1>1, <2>1, <2>2, <2>3, CountByParts
<1>11. \A v \in Vnets : n[v] = Cardinality(OfVnet(Collected, v))
  BY DEF OfVnet
<1> HIDE DEF n
<1>12. Total(delivered') = Total(delivered) + Total(n)
  <2>1. IsFiniteSet(Vnets)
    BY NodesAssumption, FS_Interval DEF Vnets
  <2>2. delivered' = [v \in Vnets |-> delivered[v] + n[v]]
    BY <1>4, <1>11
  <2>3. delivered \in [Vnets -> Nat]
    BY DEF TypeOK
  <2> QED
    BY <1>10, <2>1, <2>2, <2>3, TotalOfSum
<1>13. /\ delivered' \in [Vnets -> Nat] /\ deliveredFlits' \in [Vnets -> Nat]
       /\ \A v \in Vnets :
            /\ delivered'[v] = delivered[v] + Cardinality(OfVnet(Collected, v))
            /\ deliveredFlits'[v] = deliveredFlits[v] + NumFlits(OfVnet(Collected, v))
  BY <1>2, <1>3, <1>4
<1> QED
  BY <1>9, <1>10, <1>12, <1>13

(* Accounting while messages are collected, and new ones may be sent.      *)
LEMMA AccountingStays ==
    ASSUME TypeOK, MsgInv, Accounting, CollectDelivered, UNCHANGED config,
           NEW new \in SUBSET Messages, IsFiniteSet(new),
           new \cap (network \cup fromNet) = {}, network \cap fromNet = {},
           network' = network \cup new,
           \A v \in Vnets : injected'[v] = injected[v] + Cardinality(OfVnet(new, v)),
           Consistent => \A v \in Vnets :
                injectedFlits'[v] = injectedFlits[v] + NumFlits(OfVnet(new, v))
    PROVE  Accounting'
<1> DEFINE C == Collected
           R == network \cup Rest
<1>1. /\ C \in SUBSET Messages /\ IsFiniteSet(C) /\ R \in SUBSET Messages /\ IsFiniteSet(R)
      /\ C \cap R = {} /\ network \cup fromNet = C \cup R
      /\ R \cap new = {} /\ network' \cup fromNet' = R \cup new
  <2>1. fromNet' = Rest
    BY DEF CollectDelivered
  <2>2. network \in SUBSET Messages /\ IsFiniteSet(network)
    BY DEF TypeOK
  <2>3. IsFiniteSet(network \cup Rest)
    BY <2>2, CollectedIs, FS_Union
  <2> QED
    BY <2>1, <2>2, <2>3, CollectedIs
<1> HIDE DEF C, R
<1>2. Consistent' <=> Consistent
  BY DEF Consistent, CountedFlits, FlitsOf, SizeOf, CeilDiv
<1>3. ASSUME NEW v \in Vnets
      PROVE  /\ injected'[v] = delivered'[v] + Cardinality(InFlight(v)')
             /\ Consistent' => injectedFlits'[v] = deliveredFlits'[v] + NumFlits(InFlight(v)')
  <2>1. /\ InFlight(v) = OfVnet(C \cup R, v) /\ InFlight(v)' = OfVnet(R \cup new, v)
    BY <1>1 DEF InFlight, OfVnet
  <2> DEFINE c == Cardinality(OfVnet(C, v))    cf == NumFlits(OfVnet(C, v))
             r == Cardinality(OfVnet(R, v))    rf == NumFlits(OfVnet(R, v))
             n == Cardinality(OfVnet(new, v))  nf == NumFlits(OfVnet(new, v))
  <2>2. /\ c \in Nat /\ cf \in Nat /\ r \in Nat /\ rf \in Nat /\ n \in Nat /\ nf \in Nat
    BY <1>1, PartOfVnet
  <2>3. /\ Cardinality(InFlight(v)) = c + r /\ NumFlits(InFlight(v)) = cf + rf
    BY <1>1, <2>1, CountsAdd
  <2>4. /\ Cardinality(InFlight(v)') = r + n /\ NumFlits(InFlight(v)') = rf + nf
    BY <1>1, <2>1, CountsAdd
  <2>5. /\ injected[v] = delivered[v] + (c + r)
        /\ Consistent => injectedFlits[v] = deliveredFlits[v] + (cf + rf)
    BY <2>3 DEF Accounting
  <2>6. delivered'[v] = delivered[v] + c /\ deliveredFlits'[v] = deliveredFlits[v] + cf
    BY CollectCounts DEF C
  <2>7. delivered[v] \in Nat /\ deliveredFlits[v] \in Nat
    BY DEF TypeOK
  <2>8. injected'[v] = injected[v] + n /\ (Consistent => injectedFlits'[v] = injectedFlits[v] + nf)
    OBVIOUS
  <2> HIDE DEF c, cf, r, rf, n, nf
  <2> QED
    BY <1>2, <2>2, <2>4, <2>5, <2>6, <2>7, <2>8
<1>4. Len(latencies') = Total(delivered')
  BY CollectCounts DEF Accounting
<1> QED
  BY <1>3, <1>4 DEF Accounting, InFlight, OfVnet, NumFlits, FlitsOf, CeilDiv, Total

-----------------------------------------------------------------------------
(* The start                                                               *)

(* Sorting keeps packets packets, and puts them in order.                  *)
LEMMA SortedIs ==
    ASSUME NEW q \in Seq(Packets)
    PROVE  /\ Sorted(q) \in Seq(Packets) /\ Len(Sorted(q)) = Len(q)
           /\ \A i, j \in 1 .. Len(q) : i < j => Sorted(q)[i].cycle <= Sorted(q)[j].cycle
<1> DEFINE F == 1 .. Len(q)
           key == [i \in F |-> q[i].cycle]
<1>1. Len(q) \in Nat /\ DOMAIN q = F /\ \A i \in F : q[i] \in Packets
  BY LengthOf
<1>2. key \in [F -> Int] /\ Sorted(q) = StableSort(q, key)
  <2>1. \A i \in F : q[i].cycle \in Int
    BY <1>1 DEF Packets
  <2> QED
    BY <1>1, <2>1 DEF Sorted
<1> HIDE DEF key
<1>3. PICK at \in Bijection(F, F) :
        /\ Sorted(q) = [n \in F |-> q[at[n]]]
        /\ \A n, m \in F : n < m => key[at[n]] <= key[at[m]]
  BY <1>2, StableSorts
<1>4. \A n \in F : at[n] \in F
  BY DEF Bijection, Injection
<1>5. Sorted(q) \in [F -> Packets]
  BY <1>1, <1>3, <1>4
<1>6. Sorted(q) \in Seq(Packets) /\ Len(Sorted(q)) = Len(q)
  <2>1. Sorted(q) \in Seq(Packets)
    BY <1>1, <1>5, SeqDef
  <2> QED
    BY <1>1, <1>5, <2>1, LenProperties
<1>7. \A i, j \in F : i < j => Sorted(q)[i].cycle <= Sorted(q)[j].cycle
  BY <1>3, <1>4 DEF key
<1> QED
  BY <1>6, <1>7

LEMMA LoadedIs ==
    ASSUME NEW c \in Configs, config = [c EXCEPT !.packets = Sorted(@), !.sim = SimCycles(c)]
    PROVE  /\ config \in [synthetic : STRING, sender : Optional, dest : Optional,
                          max : Optional, vnet : Optional, sim : Nat, drain : Nat,
                          packets : Seq(Packets)]
           /\ InOrder
<1>1. c \in [synthetic : STRING, sender : Optional, dest : Optional,
             max : Optional, vnet : Optional, sim : Nat, drain : Nat, packets : Seq(Packets)]
  BY ConfigsAssumption
<1> DEFINE q == Sorted(c.packets)
<1>2. /\ q \in Seq(Packets) /\ Len(q) = Len(c.packets)
      /\ \A i, j \in 1 .. Len(q) : i < j => q[i].cycle <= q[j].cycle
  BY <1>1, SortedIs
<1>3. SimCycles(c) \in Nat
  <2>1. CASE c.synthetic = "replay" /\ c.sim = 0 /\ c.packets # << >>
    <3>1. Len(q) \in Nat \ {0}
      BY <1>1, <1>2, <2>1, LengthOf
    <3>2. Last(q) \in Packets
      <4>1. q[Len(q)] \in Packets
        BY <1>2, <3>1, LengthOf
      <4> QED
        BY <4>1 DEF Last
    <3>3. Last(q).cycle \in Nat
      BY <3>2 DEF Packets
    <3> QED
      BY <2>1, <3>3 DEF SimCycles
  <2>2. CASE ~(c.synthetic = "replay" /\ c.sim = 0 /\ c.packets # << >>)
    BY <1>1, <2>2 DEF SimCycles
  <2> QED
    BY <2>1, <2>2
<1>4. config.packets = q /\ DOMAIN q = 1 .. Len(q)
  BY <1>1, <1>2, LengthOf
<1>5. InOrder
  BY <1>2, <1>4 DEF InOrder
<1> HIDE DEF q
<1>6. config = [c EXCEPT !.packets = q, !.sim = SimCycles(c)]
  BY DEF q
<1> QED
  BY <1>1, <1>2, <1>3, <1>5, <1>6

LEMMA NoMessages ==
    \A v : OfVnet({}, v) = {} /\ Cardinality(OfVnet({}, v)) = 0 /\ NumFlits(OfVnet({}, v)) = 0
<1> TAKE v
<1>1. OfVnet({}, v) = {} /\ Cardinality({}) = 0
  BY FS_EmptySet DEF OfVnet
<1>2. Pairs([m \in {} |-> FlitsOf(m.size)]) = {}
  BY DEF Pairs
<1>3. NumFlits({}) = 0
  BY <1>1, <1>2 DEF NumFlits, Total, Pairs
<1> QED
  BY <1>1, <1>3

LEMMA PhaseIs ==
    ASSUME NEW t \in Nat, config.sim \in Nat, config.drain \in Nat
    PROVE  /\ PhaseAt(t) \in {"step", "process", "done"}
           /\ PhaseAt(t) = "step" <=> t < config.sim
           /\ PhaseAt(t) = "done" => t >= config.sim + config.drain
BY DEF PhaseAt

LEMMA InitInv ==
    ASSUME Init
    PROVE  TypeOK /\ InOrder /\ MsgInv /\ Accounting
<1>1. PICK c \in Configs : config = [c EXCEPT !.packets = Sorted(@), !.sim = SimCycles(c)]
  BY DEF Init
<1>2. /\ config \in [synthetic : STRING, sender : Optional, dest : Optional,
                     max : Optional, vnet : Optional, sim : Nat, drain : Nat,
                     packets : Seq(Packets)]
      /\ InOrder
  BY <1>1, LoadedIs
<1>3. phase = PhaseAt(0) /\ cycle = 0 /\ network = {} /\ fromNet = {} /\ latencies = << >>
  BY DEF Init
<1>4. config.sim \in Nat /\ config.drain \in Nat
  BY <1>2
<1>5. /\ phase \in {"step", "process", "done"}
      /\ phase = "step" <=> 0 < config.sim
      /\ phase = "done" => 0 >= config.sim + config.drain
  BY <1>3, <1>4, PhaseIs
<1>6. TypeOK
  <2>1. cycle \in Nat /\ nextPacket \in Nat \ {0} /\ latencies \in Seq(Nat)
    <3>1. cycle = 0 /\ nextPacket = 1 /\ latencies = << >>
      BY DEF Init
    <3> QED
      BY <3>1, EmptySeq
  <2>2. /\ injected \in [Vnets -> Nat] /\ delivered \in [Vnets -> Nat]
        /\ injectedFlits \in [Vnets -> Nat] /\ deliveredFlits \in [Vnets -> Nat]
    BY DEF Init
  <2>3. /\ network \in SUBSET Messages /\ IsFiniteSet(network)
        /\ fromNet \in SUBSET Messages /\ IsFiniteSet(fromNet)
    BY <1>3, FS_EmptySet
  <2>4. phase \in {"step", "process", "drain", "done", "failed"}
    BY <1>5
  <2> QED
    BY <1>2, <2>1, <2>2, <2>3, <2>4 DEF TypeOK
<1>7. MsgInv
  BY <1>3, <1>5 DEF MsgInv
<1>8. Accounting
  <2>1. \A v \in Vnets : injected[v] = 0 /\ delivered[v] = 0 /\ injectedFlits[v] = 0
                         /\ deliveredFlits[v] = 0
    BY DEF Init
  <2>2. \A v \in Vnets : InFlight(v) = OfVnet({}, v)
    BY <1>3 DEF InFlight
  <2>3. Total(delivered) = Cardinality(Vnets) * 0
    <3>1. IsFiniteSet(Vnets)
      BY NodesAssumption, FS_Interval DEF Vnets
    <3>2. delivered = [v \in Vnets |-> 0]
      BY DEF Init
    <3> QED
      BY <3>1, <3>2, TotalOfSame
  <2>4. Cardinality(Vnets) * 0 = 0
    <3>1. IsFiniteSet(Vnets)
      BY NodesAssumption, FS_Interval DEF Vnets
    <3>2. Cardinality(Vnets) \in Nat
      BY <3>1, FS_CardinalityType
    <3> QED
      BY <3>2
  <2> QED
    BY <1>3, <2>1, <2>2, <2>3, <2>4, NoMessages DEF Accounting
<1> QED
  BY <1>2, <1>6, <1>7, <1>8

-----------------------------------------------------------------------------
(* step                                                                    *)

(* Where the sources send to does not change.                              *)
LEMMA SameDestinations ==
    ASSUME UNCHANGED config
    PROVE  \A s : ChooseDestination(s)' = ChooseDestination(s)
<1>1. \A s : PatternDest(s)' = PatternDest(s)
  BY DEF PatternDest
<1> QED
  BY <1>1 DEF ChooseDestination

LEMMA SameMessages ==
    ASSUME UNCHANGED config
    PROVE  Messages' = Messages
<1>1. Destinations' = Destinations
  BY SameDestinations DEF Destinations
<1> QED
  BY <1>1 DEF Messages

(* The messages of a synthetic step are new, of the size of their vnet.    *)
LEMMA InjectionsAre ==
    ASSUME TypeOK, NEW S \in Injections
    PROVE  /\ S \in SUBSET Messages /\ IsFiniteSet(S)
           /\ \A m \in S : /\ m.created = cycle /\ m.ready = None
                           /\ m.size = MessageSizeForVnet(m.vnet)
                           /\ \E s \in Requests : \E d \in ChooseDestination(s) :
                                 m.dst = RequestNodes + d
<1> DEFINE of(s) == {Message(s, s, RequestNodes + d, v, MessageSizeForVnet(v)) :
                       d \in ChooseDestination(s), v \in ChooseVnet}
<1>1. /\ S \in SUBSET (UNION {of(s) : s \in {r \in Requests : MayInject(r)}})
      /\ \A m1, m2 \in S : m1.src = m2.src => m1 = m2
  BY DEF Injections
<1>2. ChooseVnet \in SUBSET Vnets
  BY DEF ChooseVnet
<1>3. ASSUME NEW m \in S
      PROVE  /\ m \in Messages /\ m.src \in Requests /\ m.created = cycle /\ m.ready = None
             /\ m.size = MessageSizeForVnet(m.vnet)
             /\ \E s \in Requests : \E d \in ChooseDestination(s) : m.dst = RequestNodes + d
  <2>1. PICK s \in Requests : m \in of(s)
    BY <1>1
  <2>2. PICK d \in ChooseDestination(s), v \in ChooseVnet :
             m = Message(s, s, RequestNodes + d, v, MessageSizeForVnet(v))
    BY <2>1
  <2>3. m = [nr |-> s, src |-> s, dst |-> RequestNodes + d, vnet |-> v,
             size |-> MessageSizeForVnet(v), created |-> cycle, ready |-> None]
    BY <2>2 DEF Message
  <2>4. /\ s \in Int /\ v \in Vnets /\ MessageSizeForVnet(v) \in Nat /\ cycle \in Nat
        /\ None \in Int
    BY <1>2, NodesAssumption DEF Requests, MessageSizeForVnet, TypeOK, None
  <2>5. RequestNodes + d \in Destinations
    BY DEF Destinations
  <2>6. m \in Messages
    BY <2>3, <2>4, <2>5 DEF Messages
  <2> QED
    BY <2>3, <2>6
<1>4. IsFiniteSet(S)
  <2> DEFINE f == [m \in S |-> m.src]
  <2>1. f \in [S -> Requests] /\ \A m1, m2 \in S : f[m1] = f[m2] => m1 = m2
    BY <1>1, <1>3
  <2>2. f \in Injection(S, Requests)
    <3> HIDE DEF f
    <3> QED
      BY <2>1 DEF Injection, IsInjective
  <2>3. IsFiniteSet(Requests)
    BY NodesAssumption, FS_Interval DEF Requests
  <2> QED
    BY <2>2, <2>3, FS_Injection
<1> QED
  BY <1>3, <1>4

(* New messages are nowhere yet, and those on their way are not delivered. *)
LEMMA Apart ==
    ASSUME TypeOK, MsgInv
    PROVE  /\ network \cap fromNet = {}
           /\ phase = "step" =>
                \A S : (\A m \in S : m.created = cycle /\ m.ready = None)
                         => S \cap (network \cup fromNet) = {}
<1>1. \A m \in network : m.ready = None /\ (phase = "step" => m.created < cycle)
  BY DEF MsgInv
<1>2. \A m \in fromNet : m.ready # None
  BY DEF MsgInv, None
<1>3. cycle \in Nat
  BY DEF TypeOK
<1> QED
  BY <1>1, <1>2, <1>3

(* What holds of the messages after a step in which new ones are sent.     *)
LEMMA StepKeeps ==
    ASSUME TypeOK, InOrder, MsgInv, phase = "step", phase' = "process", CollectDelivered,
           UNCHANGED <<config, cycle>>, nextPacket' \in Nat \ {0},
           NEW S \in SUBSET Messages, IsFiniteSet(S),
           \A m \in S : m.created = cycle /\ m.ready = None,
           network' = network \cup S,
           injected' \in [Vnets -> Nat], injectedFlits' \in [Vnets -> Nat]
    PROVE  TypeOK' /\ InOrder' /\ MsgInv'
<1>1. Messages' = Messages
  BY SameMessages
<1>2. fromNet' = Rest /\ Rest \in SUBSET fromNet
  BY DEF CollectDelivered, Rest
<1>3. /\ Rest \in SUBSET Messages /\ IsFiniteSet(Rest)
  BY CollectedIs
<1>4. network' \in SUBSET Messages /\ IsFiniteSet(network')
  BY FS_Union DEF TypeOK
<1>5. /\ delivered' \in [Vnets -> Nat] /\ deliveredFlits' \in [Vnets -> Nat]
      /\ latencies' \in Seq(Nat)
  BY CollectCounts
<1>6. TypeOK'
  <2>1. /\ config' = config /\ cycle' = cycle
        /\ phase' \in {"step", "process", "drain", "done", "failed"}
    OBVIOUS
  <2> QED
    BY <1>1, <1>2, <1>3, <1>4, <1>5, <2>1 DEF TypeOK
<1>7. MsgInv'
  <2>1. /\ cycle \in Nat /\ config' = config /\ cycle' = cycle /\ cycle < config.sim
        /\ Ran = 0 /\ Ran' = 0 /\ Delay \in Nat
    BY FlitSizeAssumption DEF TypeOK, MsgInv, Ran
  <2>2. ASSUME NEW m \in network'
        PROVE  /\ m.ready = None /\ m.created <= cycle /\ m.created < config.sim
               /\ cycle + 0 <= m.created + Delay
    <3>1. CASE m \in network
      BY <2>1, <3>1 DEF MsgInv
    <3>2. CASE m \in S
      BY <2>1, <3>2
    <3> QED
      BY <2>2, <3>1, <3>2
  <2>3. ASSUME NEW m \in fromNet'
        PROVE  /\ m.ready \in Nat /\ m.ready <= cycle + 0
               /\ m.created <= cycle /\ m.created < config.sim
               /\ m.ready <= m.created + Delay + 1
    BY <1>2, <2>1, <2>3 DEF MsgInv
  <2> QED
    BY <2>1, <2>2, <2>3 DEF MsgInv, None
<1>8. InOrder'
  BY DEF InOrder
<1> QED
  BY <1>6, <1>7, <1>8

LEMMA SyntheticStepKeeps ==
    ASSUME TypeOK, InOrder, MsgInv, Accounting, SyntheticStep
    PROVE  TypeOK' /\ InOrder' /\ MsgInv' /\ Accounting'
<1>1. PICK S \in Injections :
        /\ network' = network \cup S
        /\ injected' = [v \in Vnets |-> injected[v] + Cardinality(OfVnet(S, v))]
        /\ injectedFlits' = [v \in Vnets |-> injectedFlits[v] +
              Cardinality(OfVnet(S, v)) * FlitsOf(MessageSizeForVnet(v))]
  BY DEF SyntheticStep
<1>2. /\ phase = "step" /\ phase' = "process" /\ CollectDelivered
      /\ UNCHANGED <<config, cycle>> /\ nextPacket' = nextPacket
  BY DEF SyntheticStep
<1>3. /\ S \in SUBSET Messages /\ IsFiniteSet(S)
      /\ \A m \in S : /\ m.created = cycle /\ m.ready = None
                      /\ m.size = MessageSizeForVnet(m.vnet)
  BY InjectionsAre
<1>4. ASSUME NEW v \in Vnets
      PROVE  /\ Cardinality(OfVnet(S, v)) \in Nat
             /\ NumFlits(OfVnet(S, v)) =
                  Cardinality(OfVnet(S, v)) * FlitsOf(MessageSizeForVnet(v))
             /\ NumFlits(OfVnet(S, v)) \in Nat
  <2>1. /\ IsFiniteSet(OfVnet(S, v)) /\ Cardinality(OfVnet(S, v)) \in Nat
        /\ NumFlits(OfVnet(S, v)) \in Nat
    BY <1>3, PartOfVnet
  <2>2. FlitsOf(MessageSizeForVnet(v)) \in Nat
    BY FlitsAreNat DEF MessageSizeForVnet
  <2>3. \A m \in OfVnet(S, v) : FlitsOf(m.size) = FlitsOf(MessageSizeForVnet(v))
    BY <1>3 DEF OfVnet
  <2>4. [m \in OfVnet(S, v) |-> FlitsOf(m.size)] =
          [m \in OfVnet(S, v) |-> FlitsOf(MessageSizeForVnet(v))]
    BY <2>3
  <2> QED
    BY <2>1, <2>2, <2>4, TotalOfSame DEF NumFlits
<1>5. /\ injected' \in [Vnets -> Nat] /\ injectedFlits' \in [Vnets -> Nat]
      /\ \A v \in Vnets :
           /\ injected'[v] = injected[v] + Cardinality(OfVnet(S, v))
           /\ injectedFlits'[v] = injectedFlits[v] + NumFlits(OfVnet(S, v))
  <2>1. \A v \in Vnets : injected[v] \in Nat /\ injectedFlits[v] \in Nat
    BY DEF TypeOK
  <2>2. injectedFlits' = [v \in Vnets |-> injectedFlits[v] + NumFlits(OfVnet(S, v))]
    BY <1>1, <1>4
  <2> QED
    BY <1>1, <1>4, <2>1, <2>2
<1>6. nextPacket' \in Nat \ {0}
  BY <1>2 DEF TypeOK
<1>7. TypeOK' /\ InOrder' /\ MsgInv'
  BY <1>1, <1>2, <1>3, <1>5, <1>6, StepKeeps
<1>8. S \cap (network \cup fromNet) = {} /\ network \cap fromNet = {}
  BY <1>2, <1>3, Apart
<1>9. Accounting'
  BY <1>1, <1>2, <1>3, <1>5, <1>8, AccountingStays
<1> QED
  BY <1>7, <1>9

-----------------------------------------------------------------------------
(* step of a replay                                                        *)

LEMMA PacketIs ==
    ASSUME TypeOK, NEW i \in DOMAIN config.packets
    PROVE  /\ i \in Nat \ {0} /\ i <= Len(config.packets) /\ Len(config.packets) \in Nat
           /\ config.packets[i] \in Packets
           /\ SizeOf(config.packets[i]) \in Nat
           /\ CountedFlits(config.packets[i]) \in Nat
<1>1. config.packets \in Seq(Packets)
  BY DEF TypeOK
<1>2. /\ Len(config.packets) \in Nat /\ i \in 1 .. Len(config.packets)
      /\ config.packets[i] \in Packets
  BY <1>1, LengthOf
<1> DEFINE p == config.packets[i]
<1>3. p.size \in Int /\ p.flits \in Int /\ (p.size > 0 \/ p.flits > 0)
  BY <1>2 DEF Packets
<1> HIDE DEF p
<1>4. SizeOf(p) \in Nat
  <2>1. CASE p.size > 0
    BY <1>3, <2>1 DEF SizeOf
  <2>2. CASE ~(p.size > 0)
    <3>1. p.flits \in Nat /\ FlitSize \in Nat
      BY <1>3, <2>2, FlitSizeAssumption
    <3>2. p.flits * FlitSize \in Nat
      BY <3>1
    <3> QED
      BY <2>2, <3>2 DEF SizeOf
  <2> QED
    BY <2>1, <2>2
<1>5. CountedFlits(p) \in Nat
  BY <1>3, <1>4, FlitsAreNat DEF CountedFlits
<1> QED
  BY <1>2, <1>4, <1>5 DEF p

LEMMA DueIs ==
    ASSUME TypeOK
    PROVE  /\ Due \in SUBSET (1 .. Len(config.packets)) /\ IsFiniteSet(Due)
           /\ Cardinality(Due) \in Nat /\ Len(config.packets) \in Nat
           /\ DOMAIN config.packets = 1 .. Len(config.packets)
<1>1. /\ DOMAIN config.packets = 1 .. Len(config.packets)
      /\ Len(config.packets) \in Nat
  BY LengthOf DEF TypeOK
<1>2. Due \in SUBSET (1 .. Len(config.packets))
  BY <1>1 DEF Due
<1>3. IsFiniteSet(1 .. Len(config.packets))
  BY <1>1, FS_Interval
<1> QED
  BY <1>1, <1>2, <1>3, FS_Subset, FS_CardinalityType

(* A message for each packet that is due, counted the same.                *)
LEMMA DueMessages ==
    ASSUME TypeOK, \A i \in Due : ~Invalid(config.packets[i]),
           NEW S, S = {MessageOf(i) : i \in Due}
    PROVE  /\ S \in SUBSET Messages /\ IsFiniteSet(S)
           /\ \A m \in S : m.created = cycle /\ m.ready = None /\ m.dst \in Nodes
           /\ \A v \in Vnets : \A D :
                D = {i \in Due : config.packets[i].vnet = v} =>
                /\ Cardinality(D) = Cardinality(OfVnet(S, v)) /\ Cardinality(D) \in Nat
                /\ Total([i \in D |-> CountedFlits(config.packets[i])]) \in Nat
                /\ Consistent =>
                     Total([i \in D |-> CountedFlits(config.packets[i])]) = NumFlits(OfVnet(S, v))
<1>1. ASSUME NEW i \in Due
      PROVE  /\ MessageOf(i) \in Messages /\ MessageOf(i).created = cycle
             /\ MessageOf(i).ready = None /\ MessageOf(i).nr = i
             /\ MessageOf(i).vnet = config.packets[i].vnet
             /\ MessageOf(i).size = SizeOf(config.packets[i])
             /\ MessageOf(i).dst \in Nodes
  <2> DEFINE p == config.packets[i]
  <2>1. i \in DOMAIN config.packets
    BY DEF Due
  <2>2. p \in Packets /\ SizeOf(p) \in Nat /\ i \in Int /\ ~Invalid(p)
    BY <2>1, PacketIs
  <2>3. MessageOf(i) = [nr |-> i, src |-> p.src, dst |-> p.dst, vnet |-> p.vnet,
                        size |-> SizeOf(p), created |-> cycle, ready |-> None]
    BY DEF MessageOf, Message
  <2> HIDE DEF p
  <2>4. /\ p.src \in Int /\ p.dst \in Int /\ p.dst \in Nodes /\ p.vnet \in Vnets
        /\ cycle \in Nat /\ None \in Int
    BY <2>2 DEF Packets, Invalid, TypeOK, None
  <2>5. MessageOf(i) \in Messages
    BY <2>2, <2>3, <2>4 DEF Messages, Destinations
  <2> QED
    BY <2>3, <2>4, <2>5 DEF p
<1>2. IsFiniteSet(Due)
  BY DueIs
<1> DEFINE f == [i \in Due |-> MessageOf(i)]
<1>3. f \in Bijection(Due, S)
  <2>1. f \in [Due -> S] /\ (\A i, j \in Due : f[i] = f[j] => i = j)
        /\ \A m \in S : \E i \in Due : f[i] = m
    BY <1>1
  <2> HIDE DEF f
  <2> QED
    BY <2>1 DEF Bijection, Injection, Surjection, IsInjective
<1>4. IsFiniteSet(S)
  <2>1. ExistsBijection(Due, S)
    BY <1>3 DEF ExistsBijection
  <2> QED
    BY <1>2, <2>1, FS_Bijection
<1>5. S \in SUBSET Messages /\ \A m \in S : m.created = cycle /\ m.ready = None /\ m.dst \in Nodes
  BY <1>1
<1>6. ASSUME NEW v \in Vnets, NEW D, D = {i \in Due : config.packets[i].vnet = v}
      PROVE  /\ Cardinality(D) = Cardinality(OfVnet(S, v)) /\ Cardinality(D) \in Nat
             /\ Total([i \in D |-> CountedFlits(config.packets[i])]) \in Nat
             /\ Consistent =>
                  Total([i \in D |-> CountedFlits(config.packets[i])]) = NumFlits(OfVnet(S, v))
  <2> DEFINE T == OfVnet(S, v)
             b == [i \in D |-> MessageOf(i)]
             g == [i \in D |-> CountedFlits(config.packets[i])]
             h == [m \in T |-> FlitsOf(m.size)]
  <2>1. IsFiniteSet(D) /\ D \in SUBSET Due
    BY <1>2, <1>6, FS_Subset
  <2>2. T \in SUBSET Messages /\ IsFiniteSet(T) /\ Cardinality(T) \in Nat
    BY <1>4, <1>5, PartOfVnet
  <2>3. /\ b \in [D -> T] /\ \A i, j \in D : b[i] = b[j] => i = j
        /\ \A m \in T : \E i \in D : b[i] = m
    <3>1. \A i \in D : b[i] \in T
      BY <1>1, <1>6 DEF OfVnet
    <3>2. \A m \in T : \E i \in D : b[i] = m
      BY <1>1, <1>6 DEF OfVnet
    <3> HIDE DEF T
    <3> QED
      BY <1>1, <2>1, <3>1, <3>2
  <2>4. b \in Bijection(D, T)
    <3> HIDE DEF b, T
    <3> QED
      BY <2>3 DEF Bijection, Injection, Surjection, IsInjective
  <2> HIDE DEF T
  <2>5. Cardinality(T) = Cardinality(D)
    <3>1. ExistsBijection(D, T)
      BY <2>4 DEF ExistsBijection
    <3> QED
      BY <2>1, <3>1, FS_Bijection
  <2>6. g \in [D -> Nat] /\ h \in [T -> Nat]
    <3>1. \A i \in D : CountedFlits(config.packets[i]) \in Nat
      BY <2>1, PacketIs DEF Due
    <3> QED
      BY <2>2, <3>1, FlitSumIs
  <2>7. Total(g) \in Nat
    <3> HIDE DEF g
    <3> QED
      BY <2>1, <2>6, PairsAre
  <2>8. ASSUME Consistent PROVE Total(g) = Total(h)
    <3>1. \A i \in D : g[i] = h[b[i]]
      <4> TAKE i \in D
      <4>1. i \in Due /\ i \in DOMAIN config.packets
        BY <2>1 DEF Due
      <4>2. g[i] = FlitsOf(SizeOf(config.packets[i]))
        BY <2>8, <4>1 DEF Consistent
      <4>3. b[i] \in T /\ b[i].size = SizeOf(config.packets[i])
        BY <1>1, <2>3, <4>1
      <4> HIDE DEF b
      <4> QED
        BY <4>2, <4>3
    <3> HIDE DEF b, g, h
    <3> QED
      BY <2>1, <2>4, <2>6, <3>1, TotalOfImage
  <2> QED
    BY <2>2, <2>5, <2>7, <2>8 DEF NumFlits, T
<1> QED
  BY <1>4, <1>5, <1>6

LEMMA ReplayStepKeeps ==
    ASSUME TypeOK, InOrder, MsgInv, Accounting, ReplayStep
    PROVE  TypeOK' /\ InOrder' /\ MsgInv' /\ Accounting'
<1> DEFINE S == {MessageOf(i) : i \in Due}
           D(v) == {i \in Due : config.packets[i].vnet = v}
<1>1. /\ network' = network \cup S
      /\ injected' = [v \in Vnets |-> injected[v] + Cardinality(D(v))]
      /\ injectedFlits' = [v \in Vnets |-> injectedFlits[v] +
            Total([i \in D(v) |-> CountedFlits(config.packets[i])])]
      /\ nextPacket' = nextPacket + Cardinality(Due)
      /\ \A i \in Due : ~Invalid(config.packets[i])
  BY DEF ReplayStep
<1>2. /\ phase = "step" /\ phase' = "process" /\ CollectDelivered
      /\ UNCHANGED <<config, cycle>>
  BY DEF ReplayStep
<1>3. /\ S \in SUBSET Messages /\ IsFiniteSet(S)
      /\ \A m \in S : m.created = cycle /\ m.ready = None
  BY <1>1, DueMessages
<1>4. \A v \in Vnets :
        /\ Cardinality(D(v)) = Cardinality(OfVnet(S, v)) /\ Cardinality(D(v)) \in Nat
        /\ Total([i \in D(v) |-> CountedFlits(config.packets[i])]) \in Nat
        /\ Consistent => Total([i \in D(v) |-> CountedFlits(config.packets[i])]) =
                            NumFlits(OfVnet(S, v))
  <2> TAKE v \in Vnets
  <2> HIDE DEF S
  <2> QED
    BY <1>1, DueMessages DEF S
<1> HIDE DEF S, D
<1>5. /\ injected' \in [Vnets -> Nat] /\ injectedFlits' \in [Vnets -> Nat]
      /\ \A v \in Vnets : injected'[v] = injected[v] + Cardinality(OfVnet(S, v))
      /\ Consistent => \A v \in Vnets :
            injectedFlits'[v] = injectedFlits[v] + NumFlits(OfVnet(S, v))
  <2> DEFINE n(v) == Cardinality(D(v))
             f(v) == Total([i \in D(v) |-> CountedFlits(config.packets[i])])
  <2>1. \A v \in Vnets : injected[v] \in Nat /\ injectedFlits[v] \in Nat
    BY DEF TypeOK
  <2>2. /\ injected' = [v \in Vnets |-> injected[v] + n(v)]
        /\ injectedFlits' = [v \in Vnets |-> injectedFlits[v] + f(v)]
    BY <1>1
  <2>3. \A v \in Vnets : /\ n(v) \in Nat /\ n(v) = Cardinality(OfVnet(S, v))
                         /\ f(v) \in Nat /\ (Consistent => f(v) = NumFlits(OfVnet(S, v)))
    BY <1>4
  <2> HIDE DEF n, f
  <2>4. /\ \A v \in Vnets : injected[v] + n(v) \in Nat
        /\ \A v \in Vnets : injectedFlits[v] + f(v) \in Nat
    BY <2>1, <2>3
  <2>5. injected' \in [Vnets -> Nat] /\ injectedFlits' \in [Vnets -> Nat]
    BY <2>2, <2>4
  <2>6. \A v \in Vnets : injected'[v] = injected[v] + n(v)
                         /\ injectedFlits'[v] = injectedFlits[v] + f(v)
    BY <2>2
  <2> QED
    BY <2>3, <2>5, <2>6
<1>6. nextPacket' \in Nat \ {0}
  BY <1>1, DueIs DEF TypeOK
<1>7. TypeOK' /\ InOrder' /\ MsgInv'
  BY <1>1, <1>2, <1>3, <1>5, <1>6, StepKeeps
<1>8. S \cap (network \cup fromNet) = {} /\ network \cap fromNet = {}
  BY <1>2, <1>3, Apart
<1>9. Accounting'
  BY <1>1, <1>2, <1>3, <1>5, <1>8, AccountingStays
<1> QED
  BY <1>7, <1>9

-----------------------------------------------------------------------------
(* The other steps                                                         *)

LEMMA AccountingSame ==
    ASSUME Accounting, UNCHANGED <<config, network, fromNet>>,
           UNCHANGED <<injected, injectedFlits>>,
           UNCHANGED <<delivered, deliveredFlits, latencies>>
    PROVE  Accounting'
<1>1. Consistent' <=> Consistent
  BY DEF Consistent, CountedFlits, FlitsOf, SizeOf, CeilDiv
<1>2. ASSUME NEW v \in Vnets
      PROVE  /\ injected'[v] = delivered'[v] + Cardinality(InFlight(v)')
             /\ Consistent' => injectedFlits'[v] = deliveredFlits'[v] + NumFlits(InFlight(v)')
  <2>1. InFlight(v)' = InFlight(v)
    BY DEF InFlight, OfVnet
  <2> QED
    BY <1>1, <2>1 DEF Accounting
<1>3. Len(latencies') = Total(delivered')
  BY DEF Accounting
<1> QED
  BY <1>2, <1>3 DEF Accounting, InFlight, OfVnet, NumFlits, FlitsOf, CeilDiv, Total

LEMMA ReplayFailsKeeps ==
    ASSUME TypeOK, InOrder, MsgInv, Accounting, ReplayFails
    PROVE  TypeOK' /\ InOrder' /\ MsgInv' /\ Accounting'
<1>1. /\ phase = "step" /\ phase' = "failed"
      /\ UNCHANGED <<config, cycle, sentBySource, nextPacket, network, fromNet>>
      /\ UNCHANGED <<injected, injectedFlits>>
      /\ UNCHANGED <<delivered, deliveredFlits, latencies>>
  BY DEF ReplayFails, inStats, outStats
<1>2. Messages' = Messages
  BY <1>1, SameMessages
<1>3. TypeOK'
  BY <1>1, <1>2 DEF TypeOK
<1>4. InOrder'
  BY <1>1 DEF InOrder
<1>5. MsgInv'
  <2>1. Ran = 0 /\ Ran' = 0
    BY <1>1 DEF Ran
  <2> QED
    BY <1>1, <2>1 DEF MsgInv, None
<1>6. Accounting'
  BY <1>1, AccountingSame
<1> QED
  BY <1>3, <1>4, <1>5, <1>6

(* A message that arrives keeps all but the tick of being ready.           *)
LEMMA ArrivedIs ==
    ASSUME NEW m \in Messages, NEW t \in Int
    PROVE  /\ [m EXCEPT !.ready = t] \in Messages
           /\ [m EXCEPT !.ready = t].ready = t
           /\ [m EXCEPT !.ready = t].created = m.created
           /\ [m EXCEPT !.ready = t].dst = m.dst
           /\ [m EXCEPT !.ready = t].vnet = m.vnet
           /\ [m EXCEPT !.ready = t].size = m.size
<1> DEFINE D == Destinations
<1>1. m \in [nr : Int, src : Int, dst : D, vnet : Vnets, size : Nat,
             created : Nat, ready : Int]
  BY DEF Messages
<1>2. Messages = [nr : Int, src : Int, dst : D, vnet : Vnets, size : Nat,
                  created : Nat, ready : Int]
  BY DEF Messages
<1> HIDE DEF D
<1>3. /\ [m EXCEPT !.ready = t] \in Messages
      /\ [m EXCEPT !.ready = t].ready = t
      /\ [m EXCEPT !.ready = t].created = m.created
      /\ [m EXCEPT !.ready = t].dst = m.dst
      /\ [m EXCEPT !.ready = t].vnet = m.vnet
      /\ [m EXCEPT !.ready = t].size = m.size
  BY <1>1, <1>2
<1> QED
  BY <1>3

(* Two that arrive stay two.                                               *)
LEMMA ArrivedApart ==
    ASSUME NEW m \in Messages, NEW o \in Messages, NEW t \in Int, m.ready = o.ready,
           [m EXCEPT !.ready = t] = [o EXCEPT !.ready = t]
    PROVE  m = o
<1> DEFINE x == [m EXCEPT !.ready = t]
           y == [o EXCEPT !.ready = t]
           D == Destinations
<1>1. /\ m \in [nr : Int, src : Int, dst : D, vnet : Vnets, size : Nat,
                created : Nat, ready : Int]
      /\ o \in [nr : Int, src : Int, dst : D, vnet : Vnets, size : Nat,
                created : Nat, ready : Int]
  BY DEF Messages
<1>2. x = y
  OBVIOUS
<1> HIDE DEF D
<1>3. /\ x.nr = m.nr /\ x.src = m.src /\ x.dst = m.dst /\ x.vnet = m.vnet
      /\ x.size = m.size /\ x.created = m.created
  BY <1>1
<1>4. /\ y.nr = o.nr /\ y.src = o.src /\ y.dst = o.dst /\ y.vnet = o.vnet
      /\ y.size = o.size /\ y.created = o.created
  BY <1>1
<1> HIDE DEF x, y
<1>5. /\ m.nr = o.nr /\ m.src = o.src /\ m.dst = o.dst /\ m.vnet = o.vnet
      /\ m.size = o.size /\ m.created = o.created /\ m.ready = o.ready
  BY <1>2, <1>3, <1>4
<1> QED
  BY <1>1, <1>5

LEMMA ProcessKeeps ==
    ASSUME TypeOK, InOrder, MsgInv, Accounting, NEW S \in SUBSET network, Process(S)
    PROVE  TypeOK' /\ InOrder' /\ MsgInv' /\ Accounting'
<1> DEFINE N == network \ S
           B == {[m EXCEPT !.ready = cycle + 1] : m \in S}
<1>1. /\ phase = "process" /\ phase' = "drain" /\ Deliverable(S)
      /\ fromNet' = fromNet \cup B /\ network' = N
      /\ UNCHANGED <<config, cycle, sentBySource, nextPacket>>
      /\ UNCHANGED <<injected, injectedFlits>>
      /\ UNCHANGED <<delivered, deliveredFlits, latencies>>
  BY DEF Process, inStats, outStats
<1>2. Messages' = Messages
  BY <1>1, SameMessages
<1>3. /\ network \in SUBSET Messages /\ IsFiniteSet(network) /\ cycle \in Nat
      /\ fromNet \in SUBSET Messages /\ IsFiniteSet(fromNet) /\ cycle + 1 \in Int
  BY DEF TypeOK
<1>4. /\ N \in SUBSET Messages /\ IsFiniteSet(N) /\ S \in SUBSET Messages /\ IsFiniteSet(S)
      /\ network = S \cup N /\ S \cap N = {}
  BY <1>3, FS_Subset
<1>5. \A m \in S : /\ [m EXCEPT !.ready = cycle + 1] \in Messages
                   /\ [m EXCEPT !.ready = cycle + 1].ready = cycle + 1
                   /\ [m EXCEPT !.ready = cycle + 1].created = m.created
                   /\ [m EXCEPT !.ready = cycle + 1].dst = m.dst
                   /\ [m EXCEPT !.ready = cycle + 1].vnet = m.vnet
                   /\ [m EXCEPT !.ready = cycle + 1].size = m.size
  BY <1>3, <1>4, ArrivedIs
<1>6. B \in SUBSET Messages
  BY <1>5
<1> DEFINE b == [m \in S |-> [m EXCEPT !.ready = cycle + 1]]
<1>7. b \in Bijection(S, B)
  <2>1. \A m \in S : b[m] \in B
    OBVIOUS
  <2>2. \A x, y \in S : b[x] = b[y] => x = y
    <3> SUFFICES ASSUME NEW x \in S, NEW y \in S, b[x] = b[y] PROVE x = y
      OBVIOUS
    <3> DEFINE t == cycle + 1
    <3>1. x.ready = y.ready /\ x \in Messages /\ y \in Messages /\ t \in Int
      BY <1>3 DEF MsgInv
    <3>2. [x EXCEPT !.ready = t] = [y EXCEPT !.ready = t]
      OBVIOUS
    <3> HIDE DEF t, b, B
    <3> QED
      BY <3>1, <3>2, ArrivedApart
  <2>3. \A y \in B : \E x \in S : b[x] = y
    OBVIOUS
  <2>4. b \in [S -> B]
    OBVIOUS
  <2> HIDE DEF b, B
  <2> QED
    BY <2>2, <2>3, <2>4 DEF Bijection, Injection, Surjection, IsInjective
<1>8. \A m \in S : b[m].vnet = m.vnet /\ b[m].size = m.size
  BY <1>5
<1>9. IsFiniteSet(B)
  <2> HIDE DEF b, B
  <2>1. ExistsBijection(S, B)
    BY <1>7 DEF ExistsBijection
  <2> QED
    BY <1>4, <2>1, FS_Bijection
<1>10. \A m \in B : m.ready = cycle + 1 /\ \E o \in S : m.created = o.created
  BY <1>5
<1>11. MsgInv'
  <2>1. Ran = 0 /\ Ran' = 1 /\ cycle' = cycle /\ config' = config /\ Delay \in Nat
    BY <1>1, FlitSizeAssumption DEF Ran
  <2>2. ASSUME NEW m \in N
        PROVE  /\ m.ready = None /\ m.created <= cycle /\ m.created < config.sim
               /\ cycle + 1 <= m.created + Delay
    <3>1. m \in network /\ m \notin S /\ m.created \in Nat
      BY <1>3 DEF Messages
    <3>2. ~(m.created + Delay <= cycle)
      BY <1>1, <3>1 DEF Deliverable
    <3> QED
      BY <1>3, <2>1, <3>1, <3>2 DEF MsgInv
  <2>3. ASSUME NEW m \in fromNet'
        PROVE  /\ m.ready \in Nat /\ m.ready <= cycle + 1
               /\ m.created <= cycle /\ m.created < config.sim
               /\ m.ready <= m.created + Delay + 1
    <3>1. CASE m \in fromNet
      <4>1. /\ m.ready \in Nat /\ m.ready <= cycle + 0
            /\ m.created <= cycle /\ m.created < config.sim
            /\ m.ready <= m.created + Delay + 1
        BY <2>1, <3>1 DEF MsgInv
      <4> QED
        BY <1>3, <4>1
    <3>2. CASE m \in B
      <4>1. PICK o \in S : m.created = o.created
        BY <1>10, <3>2
      <4>2. /\ o.created <= cycle /\ o.created < config.sim /\ o.created \in Nat
            /\ cycle + 0 <= o.created + Delay
        BY <1>3, <2>1 DEF MsgInv, Messages
      <4>3. m.ready = cycle + 1
        BY <1>10, <3>2
      <4> QED
        BY <1>3, <2>1, <4>1, <4>2, <4>3
    <3> QED
      BY <1>1, <2>3, <3>1, <3>2
  <2> HIDE DEF N
  <2> QED
    BY <1>1, <2>1, <2>2, <2>3 DEF MsgInv, None
<1>12. TypeOK'
  <2>1. IsFiniteSet(fromNet \cup B)
    BY <1>3, <1>9, FS_Union
  <2> HIDE DEF B, N
  <2> QED
    BY <1>1, <1>2, <1>3, <1>4, <1>6, <2>1 DEF TypeOK
<1>13. InOrder'
  BY <1>1 DEF InOrder
<1>14. Accounting'
  <2>1. network \cap fromNet = {}
    BY Apart
  <2>2. B \cap fromNet = {} /\ B \cap N = {}
    <3>1. \A m \in fromNet : m.ready \in Nat /\ m.ready <= cycle
      BY <1>1, <1>3 DEF MsgInv, Ran
    <3>2. \A m \in N : m.ready = None
      BY DEF MsgInv
    <3>3. \A m \in B : m.ready = cycle + 1
      BY <1>10
    <3> HIDE DEF B, N
    <3> QED
      BY <1>3, <3>1, <3>2, <3>3 DEF None
  <2>3. N \cap fromNet = {} /\ S \cap fromNet = {}
    BY <2>1
  <2> HIDE DEF B, N, b
  <2> DEFINE A == N \cup fromNet
  <2>4. A \in SUBSET Messages /\ IsFiniteSet(A) /\ S \cap A = {} /\ B \cap A = {}
    BY <1>3, <1>4, <2>2, <2>3, FS_Union
  <2>5. network \cup fromNet = S \cup A /\ network' \cup fromNet' = B \cup A
    BY <1>1, <1>4
  <2> HIDE DEF A
  <2>6. ASSUME NEW v \in Vnets
        PROVE  /\ Cardinality(InFlight(v)') = Cardinality(InFlight(v))
               /\ NumFlits(InFlight(v)') = NumFlits(InFlight(v))
    <3>1. /\ Cardinality(OfVnet(B, v)) = Cardinality(OfVnet(S, v))
          /\ NumFlits(OfVnet(B, v)) = NumFlits(OfVnet(S, v))
      BY <1>4, <1>6, <1>7, <1>8, CountsStay
    <3>2. InFlight(v) = OfVnet(S \cup A, v) /\ InFlight(v)' = OfVnet(B \cup A, v)
      BY <2>5 DEF InFlight, OfVnet
    <3> QED
      BY <1>4, <1>6, <1>9, <2>4, <3>1, <3>2, CountsAdd
  <2>7. Consistent' <=> Consistent
    BY <1>1 DEF Consistent, CountedFlits, FlitsOf, SizeOf, CeilDiv
  <2>8. ASSUME NEW v \in Vnets
        PROVE  /\ injected'[v] = delivered'[v] + Cardinality(InFlight(v)')
               /\ Consistent' => injectedFlits'[v] = deliveredFlits'[v] + NumFlits(InFlight(v)')
    BY <1>1, <2>6, <2>7 DEF Accounting
  <2>9. Len(latencies') = Total(delivered')
    BY <1>1 DEF Accounting
  <2> QED
    BY <2>8, <2>9 DEF Accounting, InFlight, OfVnet, NumFlits, FlitsOf, CeilDiv, Total
<1> QED
  BY <1>11, <1>12, <1>13, <1>14

LEMMA DrainKeeps ==
    ASSUME TypeOK, InOrder, MsgInv, Accounting, Drain
    PROVE  TypeOK' /\ InOrder' /\ MsgInv' /\ Accounting'
<1>1. /\ phase = "drain" /\ CollectDelivered /\ cycle' = cycle + 1
      /\ phase' = PhaseAt(cycle + 1)
      /\ UNCHANGED <<config, nextPacket, network, injected, injectedFlits>>
  BY DEF Drain, inStats
<1>2. Messages' = Messages
  BY <1>1, SameMessages
<1>3. fromNet' = Rest /\ Rest \in SUBSET fromNet
  BY <1>1 DEF CollectDelivered, Rest
<1>4. Rest \in SUBSET Messages /\ IsFiniteSet(Rest)
  BY CollectedIs
<1>5. /\ cycle \in Nat /\ cycle + 1 \in Nat /\ config.sim \in Nat /\ config.drain \in Nat
  BY DEF TypeOK
<1>6. /\ phase' \in {"step", "process", "done"}
      /\ phase' = "step" <=> cycle + 1 < config.sim
      /\ phase' = "done" => cycle + 1 >= config.sim + config.drain
  BY <1>1, <1>5, PhaseIs
<1>7. TypeOK'
  <2>1. /\ delivered' \in [Vnets -> Nat] /\ deliveredFlits' \in [Vnets -> Nat]
        /\ latencies' \in Seq(Nat)
    BY <1>1, CollectCounts
  <2>2. phase' \in {"step", "process", "drain", "done", "failed"}
    BY <1>6
  <2> QED
    BY <1>1, <1>2, <1>3, <1>4, <1>5, <2>1, <2>2 DEF TypeOK
<1>8. MsgInv'
  <2>1. Ran = 1 /\ Ran' = 0 /\ Delay \in Nat
    BY <1>1, <1>6, FlitSizeAssumption DEF Ran
  <2>2. ASSUME NEW m \in network
        PROVE  /\ m.ready = None /\ m.created <= cycle + 1 /\ m.created < config.sim
               /\ m.created < cycle + 1
               /\ cycle + 1 + 0 <= m.created + Delay
    <3>1. m.created \in Nat
      BY DEF TypeOK, Messages
    <3> QED
      BY <1>5, <2>1, <3>1 DEF MsgInv
  <2>3. ASSUME NEW m \in fromNet
        PROVE  /\ m.ready \in Nat /\ m.ready <= cycle + 1 + 0
               /\ m.created <= cycle + 1 /\ m.created < config.sim
               /\ m.ready <= m.created + Delay + 1
    <3>1. m.created \in Nat
      BY DEF TypeOK, Messages
    <3> QED
      BY <1>5, <2>1, <3>1 DEF MsgInv
  <2> QED
    BY <1>1, <1>3, <1>6, <2>1, <2>2, <2>3 DEF MsgInv, None
<1>9. InOrder'
  BY <1>1 DEF InOrder
<1>10. Accounting'
  <2>1. /\ {} \in SUBSET Messages /\ IsFiniteSet({}) /\ network' = network \cup {}
        /\ {} \cap (network \cup fromNet) = {}
    BY <1>1, FS_EmptySet
  <2>2. network \cap fromNet = {}
    BY Apart
  <2>3. \A v \in Vnets : injected[v] \in Nat /\ injectedFlits[v] \in Nat
    BY DEF TypeOK
  <2>4. \A v \in Vnets : /\ injected'[v] = injected[v] + Cardinality(OfVnet({}, v))
                         /\ injectedFlits'[v] = injectedFlits[v] + NumFlits(OfVnet({}, v))
    BY <1>1, <2>3, NoMessages
  <2> QED
    BY <1>1, <2>1, <2>2, <2>4, AccountingStays
<1> QED
  BY <1>7, <1>8, <1>9, <1>10

LEMMA StutterKeeps ==
    ASSUME TypeOK, InOrder, MsgInv, Accounting, UNCHANGED vars
    PROVE  TypeOK' /\ InOrder' /\ MsgInv' /\ Accounting'
<1>1. /\ UNCHANGED <<config, phase, cycle, sentBySource, nextPacket, network, fromNet>>
      /\ UNCHANGED <<injected, injectedFlits>>
      /\ UNCHANGED <<delivered, deliveredFlits, latencies>>
  BY DEF vars
<1>2. Messages' = Messages
  BY <1>1, SameMessages
<1>3. TypeOK'
  BY <1>1, <1>2 DEF TypeOK
<1>4. InOrder'
  BY <1>1 DEF InOrder
<1>5. MsgInv'
  BY <1>1 DEF MsgInv, Ran, None
<1>6. Accounting'
  BY <1>1, AccountingSame
<1> QED
  BY <1>3, <1>4, <1>5, <1>6


LEMMA StepsKeep ==
    ASSUME TypeOK, InOrder, MsgInv, Accounting, [Next]_vars
    PROVE  TypeOK' /\ InOrder' /\ MsgInv' /\ Accounting'
<1>1. CASE SyntheticStep
  BY <1>1, SyntheticStepKeeps
<1>2. CASE ReplayStep
  BY <1>2, ReplayStepKeeps
<1>3. CASE ReplayFails
  BY <1>3, ReplayFailsKeeps
<1>4. ASSUME NEW S \in SUBSET network, Process(S)
      PROVE  TypeOK' /\ InOrder' /\ MsgInv' /\ Accounting'
  BY <1>4, ProcessKeeps
<1>5. CASE Drain
  BY <1>5, DrainKeeps
<1>6. CASE UNCHANGED vars
  BY <1>6, StutterKeeps
<1> QED
  BY <1>1, <1>2, <1>3, <1>4, <1>5, <1>6 DEF Next

IInv == TypeOK /\ InOrder /\ MsgInv /\ Accounting

LEMMA SpecIInv == Spec => []IInv
<1>1. Init => IInv
  BY InitInv DEF IInv
<1>2. IInv /\ [Next]_vars => IInv'
  BY StepsKeep DEF IInv
<1> QED
  BY <1>1, <1>2, PTL DEF Spec

(* In every vnet the packets and flits injected are those delivered and    *)
(* those still in flight, with one latency for each packet delivered,      *)
(* whatever the network delays and reorders (collectDelivered, inject).    *)
THEOREM NothingIsLost == Spec => []Accounting
<1>1. IInv => Accounting
  BY DEF IInv
<1> QED
  BY <1>1, SpecIInv, PTL

(* The percentiles of the report are the least latencies that enough of    *)
(* the packets do not exceed (percentileNearestRank).                      *)
THEOREM PercentilesAreLeast == Spec => []PercentileIsLeast
<1>1. IInv => PercentileIsLeast
  <2> SUFFICES ASSUME IInv, NEW p \in {50, 90, 99}, latencies # << >>
               PROVE  LET within(x) == Cardinality({i \in DOMAIN latencies : latencies[i] <= x})
                          enough == {x \in ToSet(latencies) :
                                       within(x) * 100 >= p * Len(latencies)}
                      IN  PercentileNearestRank(latencies, p) = Min(enough)
    BY DEF PercentileIsLeast
  <2> DEFINE enough == {x \in ToSet(latencies) :
               Cardinality({i \in DOMAIN latencies : latencies[i] <= x}) * 100
                 >= p * Len(latencies)}
  <2>1. latencies \in Seq(Int) /\ p \in 0 .. 100
    BY DEF IInv, TypeOK
  <2>2. PercentileNearestRank(latencies, p) = Min(enough)
    BY <2>1, NearestRankIsLeast
  <2> QED
    BY <2>2
<1> QED
  BY <1>1, SpecIInv, PTL

-----------------------------------------------------------------------------
(* A replay keeps to its cycles                                            *)

(* A set of numbers from a on without a gap, by its size.                  *)
LEMMA NoGaps ==
    ASSUME NEW n \in Nat, NEW D \in SUBSET (1 .. n), NEW a \in Nat \ {0},
           \A i \in D : i >= a /\ \A j \in a .. i : j \in D
    PROVE  /\ Cardinality(D) \in Nat
           /\ \A i \in Nat \ {0} : i < a + Cardinality(D) <=> i < a \/ i \in D
<1>1. CASE D = {}
  <2>1. Cardinality(D) = 0
    BY <1>1, FS_EmptySet
  <2> QED
    BY <1>1, <2>1
<1>2. CASE D # {}
  <2> DEFINE k == Max(D)
  <2>1. k \in D /\ \A i \in D : i <= k
    <3>1. D \in SUBSET Nat /\ \A i \in D : i <= n
      OBVIOUS
    <3> QED
      BY <1>2, <3>1, MaxPicks
  <2> HIDE DEF k
  <2>2. k \in Nat /\ a <= k /\ D = a .. k
    <3>1. k \in 1 .. n /\ a <= k
      BY <2>1
    <3>2. \A i \in D : i \in a .. k
      BY <2>1
    <3>3. \A i \in a .. k : i \in D
      BY <2>1
    <3>4. D \subseteq a .. k /\ a .. k \subseteq D
      BY <3>2, <3>3
    <3> DEFINE I == a .. k
    <3>5. D \subseteq I /\ I \subseteq D
      BY <3>4
    <3> HIDE DEF I
    <3>6. D = I
      BY <3>5
    <3> QED
      BY <3>1, <3>6 DEF I
  <2>3. Cardinality(D) = k - a + 1
    BY <2>2, FS_Interval
  <2> QED
    BY <2>2, <2>3
<1> QED
  BY <1>1, <1>2

(* The packets not yet sent that belong to this cycle are those due.       *)
LEMMA DueInCycle ==
    ASSUME TypeOK, InOrder, ReplayOnTime, phase = "step", config.synthetic = "replay",
           cycle < config.sim
    PROVE  \A i \in DOMAIN config.packets :
             /\ i < nextPacket <=> config.packets[i].cycle < cycle
             /\ i \in Due <=> config.packets[i].cycle = cycle
<1>1. /\ cycle \in Nat /\ nextPacket \in Nat \ {0} /\ config.sim \in Nat
      /\ DOMAIN config.packets = 1 .. Len(config.packets) /\ Len(config.packets) \in Nat
  BY DueIs DEF TypeOK
<1>2. \A i \in DOMAIN config.packets : config.packets[i].cycle \in Nat
  BY PacketIs DEF Packets
<1>3. \A i \in DOMAIN config.packets :
        i < nextPacket <=> config.packets[i].cycle < cycle + 0 /\ config.packets[i].cycle < config.sim
  BY DEF ReplayOnTime
<1>4. \A i \in DOMAIN config.packets : i < nextPacket <=> config.packets[i].cycle < cycle
  BY <1>1, <1>2, <1>3
<1>5. ASSUME NEW i \in DOMAIN config.packets, config.packets[i].cycle = cycle
      PROVE  i \in Due
  <2>1. i >= nextPacket /\ i \in 1 .. Len(config.packets)
    BY <1>1, <1>4, <1>5
  <2>2. ASSUME NEW j \in nextPacket .. i
        PROVE  config.packets[j].cycle = cycle
    <3>1. j \in DOMAIN config.packets /\ j <= i /\ ~(j < nextPacket)
      BY <1>1, <2>1
    <3>2. config.packets[j].cycle >= cycle
      BY <1>1, <1>2, <1>4, <3>1
    <3>3. config.packets[j].cycle <= config.packets[i].cycle
      <4>1. CASE j = i
        BY <1>2, <4>1
      <4>2. CASE j < i
        BY <3>1, <4>2 DEF InOrder
      <4> QED
        BY <1>1, <2>1, <3>1, <4>1, <4>2
    <3> QED
      BY <1>1, <1>2, <1>5, <3>1, <3>2, <3>3
  <2> QED
    BY <2>1, <2>2 DEF Due
<1>6. ASSUME NEW i \in Due PROVE config.packets[i].cycle = cycle
  <2>1. i >= nextPacket /\ i \in DOMAIN config.packets
    BY DEF Due
  <2>2. i \in nextPacket .. i
    BY <1>1, <2>1
  <2> QED
    BY <2>2 DEF Due
<1> QED
  BY <1>4, <1>5, <1>6

LEMMA ReplayStepOnTime ==
    ASSUME TypeOK, InOrder, MsgInv, ReplayOnTime, ReplayStep
    PROVE  ReplayOnTime'
<1>1. /\ phase = "step" /\ phase' = "process" /\ config.synthetic = "replay"
      /\ UNCHANGED <<config, cycle>> /\ nextPacket' = nextPacket + Cardinality(Due)
  BY DEF ReplayStep
<1>2. cycle < config.sim /\ cycle \in Nat /\ config.sim \in Nat /\ nextPacket \in Nat \ {0}
  BY <1>1 DEF MsgInv, TypeOK
<1>3. \A i \in DOMAIN config.packets :
        /\ i < nextPacket <=> config.packets[i].cycle < cycle
        /\ i \in Due <=> config.packets[i].cycle = cycle
  BY <1>1, <1>2, DueInCycle
<1>4. \A i \in DOMAIN config.packets : config.packets[i].cycle \in Nat /\ i \in Nat \ {0}
  BY PacketIs DEF Packets
<1>5. \A i \in Nat \ {0} : i < nextPacket + Cardinality(Due) <=> i < nextPacket \/ i \in Due
  <2>1. Due \in SUBSET (1 .. Len(config.packets)) /\ Len(config.packets) \in Nat
    BY DueIs
  <2>2. ASSUME NEW i \in Due
        PROVE  i >= nextPacket /\ \A j \in nextPacket .. i : j \in Due
    <3>1. i >= nextPacket /\ \A j \in nextPacket .. i : config.packets[j].cycle = cycle
      BY DEF Due
    <3>2. ASSUME NEW j \in nextPacket .. i PROVE j \in DOMAIN config.packets
      BY <1>2, <2>1, DueIs
    <3> QED
      BY <1>3, <3>1, <3>2
  <2> QED
    BY <1>2, <2>1, <2>2, NoGaps
<1>6. ASSUME NEW i \in DOMAIN config.packets
      PROVE  i < nextPacket' <=> /\ config.packets[i].cycle < cycle + 1
                                 /\ config.packets[i].cycle < config.sim
  BY <1>1, <1>2, <1>3, <1>4, <1>5
<1> QED
  BY <1>1, <1>6 DEF ReplayOnTime

LEMMA OnTimeStays ==
    ASSUME TypeOK, InOrder, MsgInv, ReplayOnTime, [Next]_vars
    PROVE  ReplayOnTime'
<1>1. CASE SyntheticStep
  BY <1>1 DEF SyntheticStep, ReplayOnTime
<1>2. CASE ReplayStep
  BY <1>2, ReplayStepOnTime
<1>3. CASE ReplayFails
  BY <1>3 DEF ReplayFails, ReplayOnTime
<1>4. ASSUME NEW S \in SUBSET network, Process(S)
      PROVE  ReplayOnTime'
  BY <1>4 DEF Process, ReplayOnTime
<1>5. CASE Drain
  <2>1. /\ phase = "drain" /\ cycle' = cycle + 1 /\ phase' = PhaseAt(cycle + 1)
        /\ UNCHANGED <<config, nextPacket>>
    BY <1>5 DEF Drain
  <2>2. cycle \in Nat /\ cycle + 1 \in Nat /\ config.sim \in Nat /\ config.drain \in Nat
    BY DEF TypeOK
  <2>3. /\ phase' \in {"step", "process", "done"}
        /\ phase' = "step" <=> cycle + 1 < config.sim
    BY <2>1, <2>2, PhaseIs
  <2>4. \A i \in DOMAIN config.packets : config.packets[i].cycle \in Nat
    BY PacketIs DEF Packets
  <2>5. ASSUME config.synthetic = "replay", NEW i \in DOMAIN config.packets
        PROVE  i < nextPacket <=> /\ config.packets[i].cycle < cycle + 1
                                  /\ config.packets[i].cycle < config.sim
    BY <2>1, <2>5 DEF ReplayOnTime
  <2>6. CASE phase' = "process"
    <3>1. ASSUME config.synthetic = "replay", NEW i \in DOMAIN config.packets
          PROVE  i < nextPacket <=> /\ config.packets[i].cycle < cycle + 1 + 1
                                    /\ config.packets[i].cycle < config.sim
      BY <2>2, <2>3, <2>4, <2>5, <2>6, <3>1
    <3> QED
      BY <2>1, <2>6, <3>1 DEF ReplayOnTime
  <2>7. CASE phase' # "process"
    <3>1. phase' \notin {"process", "drain"}
      BY <2>3, <2>7
    <3>2. ASSUME config.synthetic = "replay", NEW i \in DOMAIN config.packets
          PROVE  i < nextPacket <=> /\ config.packets[i].cycle < cycle + 1 + 0
                                    /\ config.packets[i].cycle < config.sim
      BY <2>2, <2>4, <2>5, <3>2
    <3> QED
      BY <2>1, <3>1, <3>2 DEF ReplayOnTime
  <2> QED
    BY <2>6, <2>7
<1>6. CASE UNCHANGED vars
  BY <1>6 DEF vars, ReplayOnTime
<1> QED
  BY <1>1, <1>2, <1>3, <1>4, <1>5, <1>6 DEF Next

LEMMA OnTimeFirst ==
    ASSUME Init
    PROVE  ReplayOnTime
<1>1. TypeOK
  BY InitInv
<1>2. /\ phase = PhaseAt(0) /\ cycle = 0 /\ nextPacket = 1
      /\ config.sim \in Nat /\ config.drain \in Nat
  BY <1>1 DEF Init, TypeOK
<1>3. /\ phase \in {"step", "process", "done"} /\ phase = "step" <=> 0 < config.sim
      /\ phase = "process" => config.sim = 0
  BY <1>2, PhaseIs
<1>4. \A i \in DOMAIN config.packets : config.packets[i].cycle \in Nat /\ i \in Nat \ {0}
  BY <1>1, PacketIs DEF Packets
<1>5. CASE phase = "process"
  BY <1>2, <1>3, <1>4, <1>5 DEF ReplayOnTime
<1>6. CASE phase # "process"
  BY <1>2, <1>3, <1>4, <1>6 DEF ReplayOnTime
<1> QED
  BY <1>5, <1>6

(* Every packet of a replay is injected in the step of its own cycle, in   *)
(* whatever order the file gives them (ReplayTraffic::step).               *)
THEOREM ReplaysOnTime == Spec => []ReplayOnTime
<1>1. Init => ReplayOnTime
  BY OnTimeFirst
<1>2. IInv /\ ReplayOnTime /\ [Next]_vars => ReplayOnTime'
  BY OnTimeStays DEF IInv
<1> QED
  BY <1>1, <1>2, SpecIInv, PTL DEF Spec

-----------------------------------------------------------------------------
(* A drain that is long enough                                             *)

(* The pattern of synthetic traffic aims at directories that exist.        *)
DestinationsExist ==
    config.synthetic # "replay" =>
        \A s \in Requests : ChooseDestination(s) \subseteq Directories

(* All messages go to nodes that are looked at, and none is left in        *)
(* from_net that was ready before this cycle.                              *)
WatchedInv ==
    /\ DestinationsExist
    /\ \A m \in network \cup fromNet : m.dst \in Watched
    /\ \A m \in fromNet : m.ready >= cycle

LEMMA SameWatched ==
    ASSUME UNCHANGED config
    PROVE  Watched' = Watched /\ (DestinationsExist' <=> DestinationsExist)
BY SameDestinations DEF Watched, DestinationsExist

LEMMA CollectKeepsWatched ==
    ASSUME TypeOK, MsgInv, WatchedInv, CollectDelivered, UNCHANGED config,
           cycle' \in {cycle, cycle + 1},
           \A m \in network' : m.dst \in Watched
    PROVE  WatchedInv'
<1>1. fromNet' \in SUBSET fromNet /\ fromNet' = fromNet \ Collected
  BY DEF CollectDelivered, Rest
<1>2. \A m \in network' \cup fromNet' : m.dst \in Watched
  BY <1>1 DEF WatchedInv
<1>3. ASSUME NEW m \in fromNet'
      PROVE  m.ready >= cycle'
  <2>1. m \in fromNet /\ m.dst \in Watched /\ m.ready \in Int /\ cycle \in Nat
    BY <1>1 DEF WatchedInv, MsgInv, TypeOK
  <2>2. ~(m.ready <= cycle)
    BY <1>1, <2>1 DEF Collected, IsReady
  <2> QED
    BY <2>1, <2>2
<1> QED
  BY <1>2, <1>3, SameWatched DEF WatchedInv

LEMMA WatchedStays ==
    ASSUME TypeOK, MsgInv, WatchedInv, [Next]_vars
    PROVE  WatchedInv'
<1>1. CASE SyntheticStep
  <2>1. PICK S \in Injections : network' = network \cup S
    BY <1>1 DEF SyntheticStep
  <2>2. CollectDelivered /\ UNCHANGED <<config, cycle>> /\ config.synthetic # "replay"
    BY <1>1 DEF SyntheticStep
  <2>3. \A m \in S : m.dst \in Watched
    <3> TAKE m \in S
    <3>1. \E s \in Requests : \E d \in ChooseDestination(s) : m.dst = RequestNodes + d
      BY InjectionsAre
    <3>2. PICK d \in Directories : m.dst = RequestNodes + d
      BY <2>2, <3>1 DEF WatchedInv, DestinationsExist
    <3> QED
      BY <2>2, <3>2 DEF Watched
  <2>4. \A m \in network' : m.dst \in Watched
    BY <2>1, <2>3 DEF WatchedInv
  <2> QED
    BY <2>2, <2>4, CollectKeepsWatched
<1>2. CASE ReplayStep
  <2> DEFINE S == {MessageOf(i) : i \in Due}
  <2>1. /\ network' = network \cup S /\ CollectDelivered /\ UNCHANGED <<config, cycle>>
        /\ config.synthetic = "replay" /\ \A i \in Due : ~Invalid(config.packets[i])
    BY <1>2 DEF ReplayStep
  <2>2. \A m \in S : m.dst \in Watched
    <3>1. \A m \in S : m.dst \in Nodes
      BY <2>1, DueMessages
    <3> QED
      BY <2>1, <3>1 DEF Watched
  <2> HIDE DEF S
  <2>3. \A m \in network' : m.dst \in Watched
    BY <2>1, <2>2 DEF WatchedInv
  <2> QED
    BY <2>1, <2>3, CollectKeepsWatched
<1>3. CASE ReplayFails
  <2>1. UNCHANGED <<config, cycle, network, fromNet>>
    BY <1>3 DEF ReplayFails
  <2> QED
    BY <2>1, SameWatched DEF WatchedInv
<1>4. ASSUME NEW S \in SUBSET network, Process(S)
      PROVE  WatchedInv'
  <2> DEFINE B == {[m EXCEPT !.ready = cycle + 1] : m \in S}
  <2>1. /\ UNCHANGED <<config, cycle>> /\ network' = network \ S
        /\ fromNet' = fromNet \cup B
    BY <1>4 DEF Process
  <2>2. network \in SUBSET Messages /\ cycle + 1 \in Int /\ cycle \in Nat
    BY DEF TypeOK
  <2>3. \A m \in S : /\ [m EXCEPT !.ready = cycle + 1].ready = cycle + 1
                     /\ [m EXCEPT !.ready = cycle + 1].dst = m.dst
    BY <2>2, ArrivedIs
  <2>4. \A m \in B : m.ready = cycle + 1 /\ m.dst \in Watched
    BY <2>3 DEF WatchedInv
  <2>5. cycle + 1 >= cycle
    BY <2>2
  <2> HIDE DEF B
  <2> QED
    BY <2>1, <2>4, <2>5, SameWatched DEF WatchedInv
<1>5. CASE Drain
  <2>1. /\ CollectDelivered /\ UNCHANGED config /\ cycle' = cycle + 1
        /\ network' = network
    BY <1>5 DEF Drain
  <2>2. \A m \in network' : m.dst \in Watched
    BY <2>1 DEF WatchedInv
  <2>3. cycle' \in {cycle, cycle + 1}
    BY <2>1
  <2> QED
    BY <2>1, <2>2, <2>3, CollectKeepsWatched
<1>6. CASE UNCHANGED vars
  <2>1. UNCHANGED <<config, cycle, network, fromNet>>
    BY <1>6 DEF vars
  <2> QED
    BY <2>1, SameWatched DEF WatchedInv
<1> QED
  BY <1>1, <1>2, <1>3, <1>4, <1>5, <1>6 DEF Next

(* After the drain nothing can be under way any more.                      *)
LEMMA DrainedWhenDone ==
    ASSUME IInv, WatchedInv
    PROVE  DrainSuffices
<1> SUFFICES ASSUME phase = "done", config.drain >= Delay + 1
             PROVE  injected = delivered
  BY DEF DrainSuffices
<1>1. /\ cycle \in Nat /\ config.sim \in Nat /\ config.drain \in Nat /\ Delay \in Nat
      /\ cycle >= config.sim + config.drain /\ Ran = 0
  BY FlitSizeAssumption DEF IInv, TypeOK, MsgInv, Ran
<1>2. ASSUME NEW m \in network PROVE FALSE
  <2>1. m.created \in Nat /\ m.created < config.sim /\ cycle + 0 <= m.created + Delay
    BY <1>1 DEF IInv, TypeOK, MsgInv, Messages
  <2> QED
    BY <1>1, <2>1
<1>3. ASSUME NEW m \in fromNet PROVE FALSE
  <2>1. /\ m.created \in Nat /\ m.created < config.sim /\ m.ready \in Nat
        /\ m.ready <= m.created + Delay + 1 /\ m.ready >= cycle
    BY DEF IInv, TypeOK, MsgInv, Messages, WatchedInv
  <2> QED
    BY <1>1, <2>1
<1>4. \A v \in Vnets : Cardinality(InFlight(v)) = 0
  <2>1. network \cup fromNet = {}
    BY <1>2, <1>3
  <2> QED
    BY <2>1, NoMessages DEF InFlight
<1>5. injected \in [Vnets -> Nat] /\ delivered \in [Vnets -> Nat]
  BY DEF IInv, TypeOK
<1>6. \A v \in Vnets : injected[v] = delivered[v]
  BY <1>4, <1>5 DEF IInv, Accounting
<1> QED
  BY <1>5, <1>6

(* Draining for longer than the network takes delivers everything that was *)
(* injected, when every pattern aims at directories that exist             *)
(* (drain_cycles of main, collectDelivered).                               *)
THEOREM DrainsSuffice == Spec /\ DestinationsExist => []DrainSuffices
<1>1. Init /\ DestinationsExist => WatchedInv
  BY DEF Init, WatchedInv
<1>2. IInv /\ WatchedInv /\ [Next]_vars => WatchedInv'
  BY WatchedStays DEF IInv
<1>3. IInv /\ WatchedInv => DrainSuffices
  BY DrainedWhenDone
<1> QED
  BY <1>1, <1>2, <1>3, SpecIInv, PTL DEF Spec

-----------------------------------------------------------------------------
(* Patterns                                                                *)

(* As many sources as directories, a square and an even number of them.    *)
Square ==
    RequestNodes = DirectoryNodes /\ Radix * Radix = DirectoryNodes /\ DirectoryNodes % 2 = 0

LEMMA RadixIs == Radix \in Nat \ {0}
<1> DEFINE S == {r \in 0 .. DirectoryNodes : r * r <= DirectoryNodes}
<1>1. DirectoryNodes \in Nat \ {0}
  BY NodesAssumption
<1>2. 1 * 1 = 1 /\ 1 \in 0 .. DirectoryNodes /\ 1 <= DirectoryNodes
  BY <1>1
<1>3. 1 \in S
  BY <1>2
<1>4. /\ S \in SUBSET Nat /\ \A x \in S : x <= DirectoryNodes
      /\ S # {} /\ DirectoryNodes \in Nat
  BY <1>1, <1>3
<1> HIDE DEF S
<1>5. Max(S) \in S /\ 1 <= Max(S)
  <2>1. Max(S) \in S /\ \A x \in S : x <= Max(S)
    BY <1>4, MaxPicks
  <2> QED
    BY <1>3, <2>1
<1>6. Max(S) \in Nat \ {0}
  <2> DEFINE m == Max(S)
  <2>1. m \in S /\ 1 <= m
    BY <1>5
  <2> HIDE DEF m
  <2>2. m \in Nat /\ m # 0
    BY <1>4, <2>1
  <2> QED
    BY <2>2 DEF m
<1> QED
  BY <1>6 DEF Radix, S

(* A node by its row and column, and a row and column by their node.       *)
LEMMA PlaceOfNode ==
    ASSUME Square, NEW s \in Requests
    PROVE  /\ s % Radix \in 0 .. Radix - 1 /\ s \div Radix \in 0 .. Radix - 1
           /\ s = (s \div Radix) * Radix + (s % Radix) /\ s \in Nat
<1>1. Radix \in Nat \ {0} /\ RequestNodes = Radix * Radix /\ RequestNodes \in Nat
  BY RadixIs, NodesAssumption DEF Square
<1>2. s \in 0 .. Radix * Radix - 1 /\ s \in Nat
  BY <1>1 DEF Requests
<1> QED
  BY <1>1, <1>2, DivAndMod, DivBelow

LEMMA NodeOfPlace ==
    ASSUME Square, NEW x \in 0 .. Radix - 1, NEW y \in 0 .. Radix - 1
    PROVE  /\ y * Radix + x \in Directories
           /\ \A u, v \in 0 .. Radix - 1 :
                y * Radix + x = v * Radix + u => x = u /\ y = v
<1>1. Radix \in Nat \ {0} /\ DirectoryNodes = Radix * Radix /\ x \in Nat /\ y \in Nat
  BY RadixIs DEF Square
<1>2. y * Radix + x \in 0 .. Radix * Radix - 1
  BY <1>1, SumBelow
<1>3. ASSUME NEW u \in 0 .. Radix - 1, NEW v \in 0 .. Radix - 1,
             y * Radix + x = v * Radix + u
      PROVE  x = u /\ y = v
  <2> DEFINE s == y * Radix + x
  <2>1. s \in Nat /\ s = y * Radix + x /\ s = v * Radix + u /\ v \in Nat
    <3>1. s \in Nat
      BY <1>1, SumBelow, DivOfSum
    <3> QED
      BY <1>1, <1>3, <3>1
  <2> HIDE DEF s
  <2>2. s \div Radix = y /\ s % Radix = x
    BY <1>1, <2>1, OnlyDivAndMod
  <2>3. s \div Radix = v /\ s % Radix = u
    BY <1>1, <2>1, OnlyDivAndMod
  <2> QED
    BY <2>2, <2>3
<1> QED
  BY <1>1, <1>2, <1>3 DEF Directories

(* Turning a row of nodes.                                                 *)
LEMMA TurnedRow ==
    ASSUME NEW a \in Nat
    PROVE  /\ \A x \in 0 .. Radix - 1 : (x + a) % Radix \in 0 .. Radix - 1
           /\ \A x, u \in 0 .. Radix - 1 : (x + a) % Radix = (u + a) % Radix => x = u
<1>1. Radix \in Nat \ {0}
  BY RadixIs
<1>2. ASSUME NEW x \in 0 .. Radix - 1, NEW u \in 0 .. Radix - 1,
             (x + a) % Radix = (u + a) % Radix
      PROVE  x = u
  <2>1. x + a \in a .. a + Radix - 1 /\ u + a \in a .. a + Radix - 1
    BY <1>1
  <2>2. x + a = u + a
    BY <1>1, <1>2, <2>1, SameRound
  <2> QED
    BY <1>1, <2>2
<1>3. \A x \in 0 .. Radix - 1 : (x + a) % Radix \in 0 .. Radix - 1
  <2> TAKE x \in 0 .. Radix - 1
  <2>1. x + a \in Int
    BY <1>1
  <2> QED
    BY <1>1, <2>1, InARound
<1> QED
  BY <1>2, <1>3

(* The patterns on rows and columns.                                       *)
LEMMA GridPatterns ==
    ASSUME Square, NEW s \in Requests, NEW t \in Requests,
           config.synthetic \in {"bit_complement", "neighbor", "transpose", "tornado"}
    PROVE  /\ PatternDest(s) \in Directories
           /\ PatternDest(s) = PatternDest(t) => s = t
<1> DEFINE x == s % Radix
           y == s \div Radix
           u == t % Radix
           v == t \div Radix
<1>1. /\ x \in 0 .. Radix - 1 /\ y \in 0 .. Radix - 1 /\ s = y * Radix + x
      /\ u \in 0 .. Radix - 1 /\ v \in 0 .. Radix - 1 /\ t = v * Radix + u
      /\ Radix \in Nat \ {0}
  BY PlaceOfNode, RadixIs
<1>2. CASE config.synthetic = "bit_complement"
  <2>1. /\ PatternDest(s) = (Radix - y - 1) * Radix + (Radix - x - 1)
        /\ PatternDest(t) = (Radix - v - 1) * Radix + (Radix - u - 1)
    BY <1>2 DEF PatternDest
  <2> HIDE DEF x, y, u, v
  <2>2. /\ Radix - y - 1 \in 0 .. Radix - 1 /\ Radix - x - 1 \in 0 .. Radix - 1
        /\ Radix - v - 1 \in 0 .. Radix - 1 /\ Radix - u - 1 \in 0 .. Radix - 1
    BY <1>1
  <2>3. PatternDest(s) = PatternDest(t) =>
          Radix - x - 1 = Radix - u - 1 /\ Radix - y - 1 = Radix - v - 1
    BY <2>1, <2>2, NodeOfPlace
  <2>4. Radix - x - 1 = Radix - u - 1 /\ Radix - y - 1 = Radix - v - 1 => x = u /\ y = v
    BY <1>1
  <2>5. PatternDest(s) \in Directories
    <3>1. (Radix - y - 1) * Radix + (Radix - x - 1) \in Directories
      BY <2>2, NodeOfPlace
    <3> QED
      BY <2>1, <3>1
  <2> QED
    BY <1>1, <2>3, <2>4, <2>5
<1>3. CASE config.synthetic = "neighbor"
  <2> DEFINE a == (x + 1) % Radix
             b == (u + 1) % Radix
  <2>1. PatternDest(s) = y * Radix + a /\ PatternDest(t) = v * Radix + b
    BY <1>3 DEF PatternDest
  <2> HIDE DEF x, y, u, v
  <2>2. a \in 0 .. Radix - 1 /\ b \in 0 .. Radix - 1 /\ (a = b => x = u)
    BY <1>1, TurnedRow
  <2> HIDE DEF a, b
  <2>3. PatternDest(s) \in Directories
    <3>1. y * Radix + a \in Directories
      BY <1>1, <2>2, NodeOfPlace
    <3> QED
      BY <2>1, <3>1
  <2>4. PatternDest(s) = PatternDest(t) => a = b /\ y = v
    BY <1>1, <2>1, <2>2, NodeOfPlace
  <2> QED
    BY <1>1, <2>2, <2>3, <2>4
<1>4. CASE config.synthetic = "transpose"
  <2>1. PatternDest(s) = x * Radix + y /\ PatternDest(t) = u * Radix + v
    BY <1>4 DEF PatternDest
  <2> HIDE DEF x, y, u, v
  <2>2. PatternDest(s) \in Directories
    <3>1. x * Radix + y \in Directories
      BY <1>1, NodeOfPlace
    <3> QED
      BY <2>1, <3>1
  <2>3. PatternDest(s) = PatternDest(t) => x = u /\ y = v
    BY <1>1, <2>1, NodeOfPlace
  <2> QED
    BY <1>1, <2>2, <2>3
<1>5. CASE config.synthetic = "tornado"
  <2> DEFINE n == CeilDiv(Radix, 2) - 1
             a == (x + n) % Radix
             b == (u + n) % Radix
  <2>1. PatternDest(s) = y * Radix + a /\ PatternDest(t) = v * Radix + b
    <3>1. /\ PatternDest(s) = y * Radix + ((x + CeilDiv(Radix, 2) - 1) % Radix)
          /\ PatternDest(t) = v * Radix + ((u + CeilDiv(Radix, 2) - 1) % Radix)
      BY <1>5 DEF PatternDest
    <3> HIDE DEF x, y, u, v
    <3>2. CeilDiv(Radix, 2) \in Int
      BY <1>1 DEF CeilDiv
    <3>3. /\ x + CeilDiv(Radix, 2) - 1 = x + (CeilDiv(Radix, 2) - 1)
          /\ u + CeilDiv(Radix, 2) - 1 = u + (CeilDiv(Radix, 2) - 1)
      BY <1>1, <3>2
    <3> QED
      BY <3>1, <3>3
  <2> HIDE DEF x, y, u, v
  <2>2. n \in Nat
    BY <1>1 DEF CeilDiv
  <2> HIDE DEF n
  <2>3. a \in 0 .. Radix - 1 /\ b \in 0 .. Radix - 1 /\ (a = b => x = u)
    BY <1>1, <2>2, TurnedRow
  <2> HIDE DEF a, b
  <2>4. PatternDest(s) \in Directories
    <3>1. y * Radix + a \in Directories
      BY <1>1, <2>3, NodeOfPlace
    <3> QED
      BY <2>1, <3>1
  <2>5. PatternDest(s) = PatternDest(t) => a = b /\ y = v
    BY <1>1, <2>1, <2>3, NodeOfPlace
  <2> QED
    BY <1>1, <2>3, <2>4, <2>5
<1> QED
  BY <1>2, <1>3, <1>4, <1>5

(* The patterns on the bits of a node.                                     *)
LEMMA BitPatterns ==
    ASSUME Square, NEW s \in Requests, NEW t \in Requests,
           config.synthetic \in {"bit_rotation", "shuffle"}
    PROVE  /\ PatternDest(s) \in Directories
           /\ PatternDest(s) = PatternDest(t) => s = t
<1> DEFINE half == DirectoryNodes \div 2
<1>1. half \in Nat \ {0} /\ DirectoryNodes = 2 * half
  BY NodesAssumption DEF Square
<1>2. s \in 0 .. 2 * half - 1 /\ t \in 0 .. 2 * half - 1 /\ Directories = 0 .. 2 * half - 1
  BY <1>1 DEF Requests, Directories, Square
<1>3. CASE config.synthetic = "shuffle"
  <2>1. /\ PatternDest(s) = IF s < half THEN s * 2 ELSE s * 2 - DirectoryNodes + 1
        /\ PatternDest(t) = IF t < half THEN t * 2 ELSE t * 2 - DirectoryNodes + 1
    BY <1>3 DEF PatternDest
  <2> HIDE DEF half
  <2>2. /\ PatternDest(s) = IF s < half THEN s * 2 ELSE s * 2 - 2 * half + 1
        /\ PatternDest(t) = IF t < half THEN t * 2 ELSE t * 2 - 2 * half + 1
    BY <1>1, <2>1
  <2> QED
    BY <1>1, <1>2, <2>2
<1>4. CASE config.synthetic = "bit_rotation"
  <2> DEFINE p == s \div 2
             q == t \div 2
             b == s % 2
             c == t % 2
  <2>1. PatternDest(s) = p + b * half /\ PatternDest(t) = q + c * half
    BY <1>4 DEF PatternDest
  <2> HIDE DEF half
  <2>2. /\ p \in 0 .. half - 1 /\ q \in 0 .. half - 1 /\ b \in 0 .. 1 /\ c \in 0 .. 1
        /\ s = 2 * p + b /\ t = 2 * q + c
    BY <1>1, <1>2
  <2> HIDE DEF p, q, b, c
  <2>3. /\ b * half = IF b = 0 THEN 0 ELSE half
        /\ c * half = IF c = 0 THEN 0 ELSE half
    BY <1>1, <2>2
  <2>4. /\ PatternDest(s) = IF b = 0 THEN p ELSE p + half
        /\ PatternDest(t) = IF c = 0 THEN q ELSE q + half
    BY <1>1, <2>1, <2>2, <2>3
  <2> QED
    BY <1>1, <1>2, <2>2, <2>4
<1> QED
  BY <1>3, <1>4

(* Where the messages of a pattern are from, and where they go.            *)
Patterned ==
    config.synthetic \in Patterns /\ config.dest = None =>
        \A m \in network : m.src \in Requests /\ m.dst = RequestNodes + PatternDest(m.src)

LEMMA PatternedStays ==
    ASSUME Patterned, [Next]_vars
    PROVE  Patterned'
<1>1. ASSUME UNCHANGED config, network' \in SUBSET network
      PROVE  Patterned'
  BY <1>1 DEF Patterned, PatternDest
<1>2. CASE SyntheticStep
  <2>1. PICK S \in Injections : network' = network \cup S
    BY <1>2 DEF SyntheticStep
  <2>2. UNCHANGED config
    BY <1>2 DEF SyntheticStep
  <2>3. \A m : PatternDest(m.src)' = PatternDest(m.src)
    BY <2>2 DEF PatternDest
  <2>4. ASSUME config.synthetic \in Patterns, config.dest = None, NEW m \in S
        PROVE  m.src \in Requests /\ m.dst = RequestNodes + PatternDest(m.src)
    <3>1. \E s \in Requests : \E d \in ChooseDestination(s) : \E w \in ChooseVnet :
            m = Message(s, s, RequestNodes + d, w, MessageSizeForVnet(w))
      BY DEF Injections
    <3>2. PICK s \in Requests : \E d \in ChooseDestination(s) : \E w \in ChooseVnet :
            m = Message(s, s, RequestNodes + d, w, MessageSizeForVnet(w))
      BY <3>1
    <3>3. ChooseDestination(s) = {PatternDest(s)}
      BY <2>4 DEF ChooseDestination, Patterns
    <3>4. m.src = s /\ m.dst = RequestNodes + PatternDest(s)
      BY <3>2, <3>3 DEF Message
    <3> QED
      BY <3>4
  <2> QED
    BY <2>1, <2>2, <2>3, <2>4 DEF Patterned
<1>3. CASE ReplayStep
  <2>1. config' = config /\ config.synthetic \notin Patterns
    BY <1>3 DEF ReplayStep, Patterns
  <2> QED
    BY <2>1 DEF Patterned
<1>4. CASE ReplayFails
  BY <1>1, <1>4 DEF ReplayFails
<1>5. ASSUME NEW S \in SUBSET network, Process(S)
      PROVE  Patterned'
  BY <1>1, <1>5 DEF Process
<1>6. CASE Drain
  BY <1>1, <1>6 DEF Drain
<1>7. CASE UNCHANGED vars
  BY <1>1, <1>7 DEF vars
<1> QED
  BY <1>2, <1>3, <1>4, <1>5, <1>6, <1>7 DEF Next

(* Among as many sources as directories, a square and even number of them, *)
(* every pattern but bit_reverse sends each source to a directory of its   *)
(* own (chooseDestination).                                                *)
THEOREM PatternsArePermutations ==
    ASSUME Square
    PROVE  Spec => [](config.synthetic # "bit_reverse" => PatternsPermute)
<1>1. Init => Patterned
  BY DEF Init, Patterned
<1>2. Patterned /\ [Next]_vars => Patterned'
  BY PatternedStays
<1>3. Patterned => (config.synthetic # "bit_reverse" => PatternsPermute)
  <2> SUFFICES ASSUME Patterned, config.synthetic # "bit_reverse",
                      config.synthetic \in Patterns, config.dest = None,
                      NEW m1 \in network, NEW m2 \in network
               PROVE  /\ m1.dst \in {RequestNodes + d : d \in Directories}
                      /\ m1.dst = m2.dst => m1.src = m2.src
    BY DEF PatternsPermute
  <2> DEFINE d1 == PatternDest(m1.src)
             d2 == PatternDest(m2.src)
  <2>1. /\ m1.src \in Requests /\ m1.dst = RequestNodes + d1
        /\ m2.src \in Requests /\ m2.dst = RequestNodes + d2
    BY DEF Patterned
  <2>2. /\ d1 \in Directories /\ d2 \in Directories
        /\ d1 = d2 => m1.src = m2.src
    <3>1. CASE config.synthetic \in {"bit_complement", "neighbor", "transpose", "tornado"}
      BY <2>1, <3>1, GridPatterns
    <3>2. CASE config.synthetic \in {"bit_rotation", "shuffle"}
      BY <2>1, <3>2, BitPatterns
    <3> QED
      BY <3>1, <3>2 DEF Patterns
  <2> HIDE DEF d1, d2
  <2>3. RequestNodes + d1 = RequestNodes + d2 => d1 = d2
    BY <2>2, NodesAssumption DEF Directories
  <2> QED
    BY <2>1, <2>2, <2>3
<1> QED
  BY <1>1, <1>2, <1>3, PTL DEF Spec
=============================================================================
