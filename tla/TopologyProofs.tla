--------------------------- MODULE TopologyProofs ---------------------------
(***************************************************************************)
(* The relaxation of extend_shortest_path finds the shortest distances in  *)
(* every network, whatever its size and its weights.  From there to the    *)
(* routes: every link gets its port and every port the routes of its pair  *)
(* of switches, the tables lead a packet on at every router and XY routing *)
(* does in every mesh, so that no packet is stranded or led astray; no     *)
(* links of a mesh ever wait for one another in a circle; and the objects  *)
(* of every link that is made are connected from end to end.               *)
(***************************************************************************)
EXTENDS RoutingUnit, DataTheorems

-----------------------------------------------------------------------------
(* One vnet: a table of weights W and of distances D between switches S    *)

Table(S) == [S -> [S -> 0 .. Infinite]]
Zeros(S, D) == \A i \in S : D[i][i] = 0

(* No path through m is shorter than the distance known.                   *)
Through(S, D, m) ==
    \A i, j \in S : D[i][m] < Infinite /\ D[m][j] < Infinite => D[i][j] <= D[i][m] + D[m][j]
Closed(S, D, n) == \A m \in S : m < n => Through(S, D, m)

(* A distance is no more than a direct link, and begins with a link.       *)
Direct(S, W, D) == \A i, j \in S : D[i][j] <= W[i][j]
First(S, W, D) ==
    \A i, j \in S : i # j /\ D[i][j] < Infinite =>
        \E k \in S \ {i} : W[i][k] + D[k][j] <= D[i][j]
Sound(S, W, D) == D \in Table(S) /\ Zeros(S, D) /\ Direct(S, W, D) /\ First(S, W, D)

(* The table when all rows are relaxed through k.                          *)
Round(S, D, k) == [i \in S |-> [j \in S |-> Relaxed(D, i, j, k)]]

LEMMA RelaxedIs ==
    ASSUME NEW S, NEW D \in Table(S), NEW i \in S, NEW j \in S, NEW k \in S
    PROVE  /\ Relaxed(D, i, j, k) \in 0 .. Infinite
           /\ Relaxed(D, i, j, k) <= D[i][j]
           /\ D[i][k] < Infinite /\ D[k][j] < Infinite =>
                Relaxed(D, i, j, k) <= D[i][k] + D[k][j]
           /\ \/ Relaxed(D, i, j, k) = D[i][j]
              \/ /\ D[i][k] < Infinite /\ D[k][j] < Infinite
                 /\ Relaxed(D, i, j, k) = D[i][k] + D[k][j]
<1>1. D[i][j] \in 0 .. Infinite /\ D[i][k] \in 0 .. Infinite /\ D[k][j] \in 0 .. Infinite
  BY DEF Table
<1> DEFINE a == D[i][j]
           b == D[i][k]
           c == D[k][j]
<1>2. Relaxed(D, i, j, k) = IF b < Infinite /\ c < Infinite /\ b + c < a THEN b + c ELSE a
  BY DEF Relaxed
<1> HIDE DEF a, b, c
<1>3. a \in 0 .. Infinite /\ b \in 0 .. Infinite /\ c \in 0 .. Infinite
  BY <1>1 DEF a, b, c
<1>4. LET x == Relaxed(D, i, j, k)
      IN  /\ x \in 0 .. Infinite /\ x <= a
          /\ b < Infinite /\ c < Infinite => x <= b + c
          /\ x = a \/ (b < Infinite /\ c < Infinite /\ x = b + c)
  BY <1>2, <1>3, InfiniteAssumption
<1> QED
  BY <1>4 DEF a, b, c

(* Row and column k stay in the round through k.                           *)
LEMMA RelaxedAt ==
    ASSUME NEW S, NEW D \in Table(S), Zeros(S, D), NEW i \in S, NEW k \in S
    PROVE  Relaxed(D, i, k, k) = D[i][k] /\ Relaxed(D, k, i, k) = D[k][i]
<1>1. D[i][k] \in 0 .. Infinite /\ D[k][i] \in 0 .. Infinite /\ D[k][k] = 0
  BY DEF Table, Zeros
<1> QED
  BY <1>1, InfiniteAssumption DEF Relaxed

LEMMA RoundIs ==
    ASSUME NEW S, NEW D \in Table(S), NEW k \in S
    PROVE  /\ Round(S, D, k) \in Table(S)
           /\ \A i, j \in S : Round(S, D, k)[i][j] = Relaxed(D, i, j, k)
<1>1. \A i, j \in S : Relaxed(D, i, j, k) \in 0 .. Infinite
  BY RelaxedIs
<1> QED
  BY <1>1 DEF Round, Table

(* A round leaves the distances sound.                                     *)
LEMMA RoundIsSound ==
    ASSUME NEW S, NEW W \in Table(S), NEW D, Sound(S, W, D), NEW k \in S
    PROVE  Sound(S, W, Round(S, D, k))
<1> DEFINE E == Round(S, D, k)
<1>1. D \in Table(S) /\ Zeros(S, D) /\ Direct(S, W, D) /\ First(S, W, D)
  BY DEF Sound
<1>2. E \in Table(S) /\ \A i, j \in S : E[i][j] = Relaxed(D, i, j, k)
  BY <1>1, RoundIs
<1>3. \A i, j \in S : W[i][j] \in 0 .. Infinite /\ D[i][j] \in 0 .. Infinite
                        /\ E[i][j] \in 0 .. Infinite
  BY <1>1, <1>2 DEF Table
<1>4. \A i, j \in S : E[i][j] <= D[i][j]
  BY <1>1, <1>2, RelaxedIs
<1> HIDE DEF E
<1>5. Zeros(S, E)
  <2> SUFFICES ASSUME NEW i \in S PROVE E[i][i] = 0
    BY DEF Zeros
  <2>1. D[i][i] = 0 /\ E[i][i] <= D[i][i] /\ E[i][i] \in 0 .. Infinite
    BY <1>1, <1>3, <1>4 DEF Zeros
  <2> QED
    BY <2>1, InfiniteAssumption
<1>6. Direct(S, W, E)
  <2> SUFFICES ASSUME NEW i \in S, NEW j \in S PROVE E[i][j] <= W[i][j]
    BY DEF Direct
  <2>1. D[i][j] <= W[i][j] /\ E[i][j] <= D[i][j]
    BY <1>1, <1>4 DEF Direct
  <2> QED
    BY <1>3, <2>1, InfiniteAssumption
<1>7. First(S, W, E)
  <2> SUFFICES ASSUME NEW i \in S, NEW j \in S, i # j, E[i][j] < Infinite
               PROVE  \E h \in S \ {i} : W[i][h] + E[h][j] <= E[i][j]
    BY DEF First
  <2>1. \/ E[i][j] = D[i][j]
        \/ D[i][k] < Infinite /\ D[k][j] < Infinite /\ E[i][j] = D[i][k] + D[k][j]
    BY <1>1, <1>2, RelaxedIs
  <2>2. CASE E[i][j] = D[i][j]
    <3>1. PICK h \in S \ {i} : W[i][h] + D[h][j] <= D[i][j]
      BY <1>1, <2>2 DEF First
    <3>2. E[h][j] <= D[h][j]
      BY <1>4
    <3>3. /\ W[i][h] \in Int /\ D[h][j] \in Int /\ E[h][j] \in Int /\ E[i][j] \in Int
      BY <1>3
    <3>4. W[i][h] + E[h][j] <= E[i][j]
      BY <2>2, <3>1, <3>2, <3>3
    <3> QED
      BY <3>4
  <2>3. CASE D[i][k] < Infinite /\ D[k][j] < Infinite /\ E[i][j] = D[i][k] + D[k][j] /\ i # k
    <3>1. PICK h \in S \ {i} : W[i][h] + D[h][k] <= D[i][k]
      BY <1>1, <2>3 DEF First
    <3>2. /\ W[i][h] \in 0 .. Infinite /\ D[h][k] \in 0 .. Infinite /\ D[i][k] \in 0 .. Infinite
          /\ D[k][j] \in 0 .. Infinite /\ E[h][j] \in 0 .. Infinite
      BY <1>3
    <3>3. D[h][k] < Infinite
      BY <2>3, <3>1, <3>2, InfiniteAssumption
    <3>4. E[h][j] <= D[h][k] + D[k][j]
      BY <1>1, <1>2, <2>3, <3>3, RelaxedIs
    <3>5. W[i][h] + E[h][j] <= D[i][k] + D[k][j]
      BY <3>1, <3>2, <3>4, InfiniteAssumption
    <3> QED
      BY <2>3, <3>5
  <2>4. CASE D[i][k] < Infinite /\ D[k][j] < Infinite /\ E[i][j] = D[i][k] + D[k][j] /\ i = k
    <3>1. E[i][j] = D[i][j]
      BY <1>1, <1>2, <2>4, RelaxedAt
    <3> QED
      BY <2>2, <3>1
  <2> QED
    BY <2>1, <2>2, <2>3, <2>4
<1> QED
  BY <1>2, <1>5, <1>6, <1>7 DEF Sound, E

(* A round through k closes the distances for k, and keeps them closed.    *)
LEMMA RoundIsClosed ==
    ASSUME NEW S \in SUBSET Nat, NEW D \in Table(S), Zeros(S, D), NEW k \in S, Closed(S, D, k)
    PROVE  Closed(S, Round(S, D, k), k + 1)
<1> DEFINE E == Round(S, D, k)
<1>1. E \in Table(S) /\ \A i, j \in S : E[i][j] = Relaxed(D, i, j, k)
  BY RoundIs
<1> HIDE DEF E
<1>2. \A i, j \in S : D[i][j] \in 0 .. Infinite /\ E[i][j] \in 0 .. Infinite /\ E[i][j] <= D[i][j]
  <2>1. \A i, j \in S : D[i][j] \in 0 .. Infinite /\ E[i][j] \in 0 .. Infinite
    BY <1>1 DEF Table
  <2>2. \A i, j \in S : E[i][j] <= D[i][j]
    BY <1>1, RelaxedIs
  <2> QED
    BY <2>1, <2>2
<1>3. \A i, j \in S : D[i][k] < Infinite /\ D[k][j] < Infinite => E[i][j] <= D[i][k] + D[k][j]
  BY <1>1, RelaxedIs
<1>4. \A i, j \in S : \/ E[i][j] = D[i][j]
                      \/ /\ D[i][k] < Infinite /\ D[k][j] < Infinite
                         /\ E[i][j] = D[i][k] + D[k][j]
  BY <1>1, RelaxedIs
<1>5. ASSUME NEW i \in S PROVE E[i][k] = D[i][k] /\ E[k][i] = D[k][i]
  <2>1. Relaxed(D, i, k, k) = D[i][k] /\ Relaxed(D, k, i, k) = D[k][i]
    BY RelaxedAt
  <2> QED
    BY <1>1, <2>1
<1> SUFFICES ASSUME NEW m \in S, m < k + 1, NEW i \in S, NEW j \in S,
                    E[i][m] < Infinite, E[m][j] < Infinite
             PROVE  E[i][j] <= E[i][m] + E[m][j]
  BY DEF Closed, Through, E
<1>6. CASE m = k
  <2>1. E[i][k] = D[i][k] /\ E[k][j] = D[k][j]
    BY <1>5
  <2> QED
    BY <1>3, <1>6, <2>1
<1>7. CASE m # k
  <2>1. Through(S, D, m)
    <3>1. m < k
      BY <1>7
    <3> QED
      BY <3>1 DEF Closed
  <2> DEFINE ij == D[i][j]
             im == D[i][m]
             mj == D[m][j]
             ik == D[i][k]
             kj == D[k][j]
             mk == D[m][k]
             km == D[k][m]
  <2>2. /\ ij \in 0 .. Infinite /\ im \in 0 .. Infinite /\ mj \in 0 .. Infinite
        /\ ik \in 0 .. Infinite /\ kj \in 0 .. Infinite /\ mk \in 0 .. Infinite
        /\ km \in 0 .. Infinite /\ E[i][j] \in 0 .. Infinite
    BY <1>2
  <2>3. E[i][j] <= ij /\ (ik < Infinite /\ kj < Infinite => E[i][j] <= ik + kj)
    BY <1>2, <1>3
  <2>4. /\ im < Infinite /\ mj < Infinite => ij <= im + mj
        /\ km < Infinite /\ mj < Infinite => kj <= km + mj
        /\ im < Infinite /\ mk < Infinite => ik <= im + mk
    BY <2>1 DEF Through
  <2>5. E[i][m] = im \/ (ik < Infinite /\ km < Infinite /\ E[i][m] = ik + km)
    BY <1>4
  <2>6. E[m][j] = mj \/ (mk < Infinite /\ kj < Infinite /\ E[m][j] = mk + kj)
    BY <1>4
  <2> DEFINE x == E[i][j]
             y == E[i][m]
             z == E[m][j]
  <2>7. y < Infinite /\ z < Infinite /\ x \in 0 .. Infinite
    BY <2>2
  <2> HIDE DEF ij, im, mj, ik, kj, mk, km, x, y, z
  <2>8. x <= ij /\ (ik < Infinite /\ kj < Infinite => x <= ik + kj)
    BY <2>3 DEF x
  <2>9. y = im \/ (ik < Infinite /\ km < Infinite /\ y = ik + km)
    BY <2>5 DEF y
  <2>10. z = mj \/ (mk < Infinite /\ kj < Infinite /\ z = mk + kj)
    BY <2>6 DEF z
  <2>11. x <= y + z
    <3>1. CASE y = im /\ z = mj
      BY <2>2, <2>4, <2>7, <2>8, <3>1, InfiniteAssumption
    <3>2. CASE ik < Infinite /\ km < Infinite /\ y = ik + km /\ z = mj
      <4>1. kj <= km + mj
        BY <2>4, <2>7, <3>2
      <4>2. CASE kj < Infinite
        BY <2>2, <2>7, <2>8, <3>2, <4>1, <4>2, InfiniteAssumption
      <4>3. CASE ~(kj < Infinite)
        BY <2>2, <2>7, <2>8, <3>2, <4>1, <4>3, InfiniteAssumption
      <4> QED
        BY <4>2, <4>3
    <3>3. CASE y = im /\ mk < Infinite /\ kj < Infinite /\ z = mk + kj
      <4>1. ik <= im + mk
        BY <2>4, <2>7, <3>3
      <4>2. CASE ik < Infinite
        BY <2>2, <2>7, <2>8, <3>3, <4>1, <4>2, InfiniteAssumption
      <4>3. CASE ~(ik < Infinite)
        BY <2>2, <2>7, <2>8, <3>3, <4>1, <4>3, InfiniteAssumption
      <4> QED
        BY <4>2, <4>3
    <3>4. CASE /\ ik < Infinite /\ km < Infinite /\ y = ik + km
                /\ mk < Infinite /\ kj < Infinite /\ z = mk + kj
      BY <2>2, <2>7, <2>8, <3>4, InfiniteAssumption
    <3> QED
      BY <2>9, <2>10, <3>1, <3>2, <3>3, <3>4
  <2> QED
    BY <2>11 DEF x, y, z
<1> QED
  BY <1>6, <1>7

-----------------------------------------------------------------------------
(* A round, row by row                                                     *)

RowsDone(S, D, k, r) == \A i \in S : i < r => D[i] = Round(S, D, k)[i]

(* Rows before r are relaxed through k; the finished round will be sound.  *)
InRound(S, W, D, k, r) ==
    /\ D \in Table(S) /\ Zeros(S, D)
    /\ Sound(S, W, Round(S, D, k)) /\ Closed(S, Round(S, D, k), k + 1)
    /\ RowsDone(S, D, k, r)

RelaxedRow(S, D, k, r) == [D EXCEPT ![r] = [j \in S |-> Relaxed(D, r, j, k)]]

LEMMA RoundBegins ==
    ASSUME NEW S \in SUBSET Nat, NEW W \in Table(S), NEW D, Sound(S, W, D), NEW k \in S,
           Closed(S, D, k)
    PROVE  InRound(S, W, D, k, 0)
<1>1. D \in Table(S) /\ Zeros(S, D)
  BY DEF Sound
<1>2. Sound(S, W, Round(S, D, k)) /\ Closed(S, Round(S, D, k), k + 1)
  BY <1>1, RoundIsSound, RoundIsClosed
<1>3. \A i \in S : ~(i < 0)
  OBVIOUS
<1> QED
  BY <1>1, <1>2, <1>3 DEF InRound, RowsDone

(* Relaxing one row leaves what the round leads to.                        *)
LEMMA RowRelaxed ==
    ASSUME NEW S \in SUBSET Nat, NEW W \in Table(S), NEW D, NEW k \in S, NEW r \in S,
           InRound(S, W, D, k, r)
    PROVE  InRound(S, W, RelaxedRow(S, D, k, r), k, r + 1)
<1> DEFINE E == Round(S, D, k)
           F == RelaxedRow(S, D, k, r)
<1>1. D \in Table(S) /\ Zeros(S, D)
  BY DEF InRound
<1>2. E \in Table(S) /\ \A i, j \in S : E[i][j] = Relaxed(D, i, j, k)
  BY <1>1, RoundIs
<1>3. E[r] = [j \in S |-> Relaxed(D, r, j, k)]
  BY DEF Round
<1>4. F = [D EXCEPT ![r] = E[r]]
  BY <1>3 DEF RelaxedRow
<1> HIDE DEF E, F
<1>5. F \in Table(S) /\ F[r] = E[r] /\ \A i \in S \ {r} : F[i] = D[i]
  BY <1>1, <1>2, <1>4 DEF Table
<1>6. \A i, j \in S : D[i][j] \in 0 .. Infinite /\ E[i][j] \in 0 .. Infinite
                        /\ F[i][j] \in 0 .. Infinite
  BY <1>1, <1>2, <1>5 DEF Table
<1>7. ASSUME NEW i \in S PROVE E[i][k] = D[i][k] /\ E[k][i] = D[k][i]
  <2>1. Relaxed(D, i, k, k) = D[i][k] /\ Relaxed(D, k, i, k) = D[k][i]
    BY <1>1, RelaxedAt
  <2> QED
    BY <1>2, <2>1
<1>8. ASSUME NEW i \in S PROVE F[i][k] = D[i][k] /\ F[k][i] = D[k][i]
  <2>1. CASE i = r
    BY <1>5, <1>7, <2>1
  <2>2. CASE i # r
    BY <1>5, <1>7, <2>2
  <2>3. F[k][i] = D[k][i]
    BY <1>5, <1>7
  <2> QED
    BY <2>1, <2>2, <2>3
<1>9. Zeros(S, F)
  <2> SUFFICES ASSUME NEW i \in S PROVE F[i][i] = 0
    BY DEF Zeros
  <2>1. D[i][i] = 0
    BY <1>1 DEF Zeros
  <2>2. CASE i # r
    BY <1>5, <2>1, <2>2
  <2>3. CASE i = r
    <3>1. F[i][i] <= D[i][i]
      BY <1>1, <1>2, <1>5, <2>3, RelaxedIs
    <3> QED
      BY <1>6, <2>1, <3>1, InfiniteAssumption
  <2> QED
    BY <2>2, <2>3
<1>10. Round(S, F, k) = E
  <2>1. ASSUME NEW i \in S, NEW j \in S PROVE Relaxed(F, i, j, k) = E[i][j]
    <3>1. /\ F[i][k] = D[i][k] /\ F[k][j] = D[k][j]
          /\ E[i][j] = Relaxed(D, i, j, k)
      BY <1>2, <1>8
    <3>2. CASE i # r
      <4>1. F[i][j] = D[i][j]
        BY <1>5, <3>2
      <4> QED
        BY <3>1, <4>1 DEF Relaxed
    <3>3. CASE i = r
      <4>1. F[i][j] = E[i][j]
        BY <1>5, <3>3
      <4>2. D[i][k] < Infinite /\ D[k][j] < Infinite => E[i][j] <= D[i][k] + D[k][j]
        BY <1>1, <1>2, RelaxedIs
      <4>3. /\ D[i][k] \in 0 .. Infinite /\ D[k][j] \in 0 .. Infinite /\ E[i][j] \in 0 .. Infinite
        BY <1>6
      <4>4. ~(D[i][k] < Infinite /\ D[k][j] < Infinite /\ D[i][k] + D[k][j] < E[i][j])
        BY <4>2, <4>3, InfiniteAssumption
      <4> QED
        BY <3>1, <4>1, <4>4 DEF Relaxed
    <3> QED
      BY <3>2, <3>3
  <2>2. E = [i \in S |-> [j \in S |-> E[i][j]]]
    BY <1>2 DEF Table
  <2> QED
    BY <2>1, <2>2 DEF Round
<1>11. RowsDone(S, F, k, r + 1)
  <2> SUFFICES ASSUME NEW i \in S, i < r + 1 PROVE F[i] = E[i]
    BY <1>10 DEF RowsDone
  <2>1. CASE i = r
    BY <1>5, <2>1
  <2>2. CASE i # r
    <3>1. i < r
      BY <2>2
    <3>2. D[i] = E[i]
      BY <3>1 DEF InRound, RowsDone, E
    <3> QED
      BY <1>5, <2>2, <3>2
  <2> QED
    BY <2>1, <2>2
<1>12. Sound(S, W, E) /\ Closed(S, E, k + 1)
  BY DEF InRound, E
<1> QED
  BY <1>5, <1>9, <1>10, <1>11, <1>12 DEF InRound, F

LEMMA RoundEnds ==
    ASSUME NEW S, NEW W, NEW D, NEW k \in S, NEW r, InRound(S, W, D, k, r), \A i \in S : i < r
    PROVE  Sound(S, W, D) /\ Closed(S, D, k + 1)
<1>1. D \in Table(S) /\ Round(S, D, k) \in Table(S)
  BY RoundIs DEF InRound
<1>2. \A i \in S : D[i] = Round(S, D, k)[i]
  BY DEF InRound, RowsDone
<1>3. D = Round(S, D, k)
  BY <1>1, <1>2 DEF Table
<1> QED
  BY <1>3 DEF InRound

(* The best way from i to j begins with a link of i.                       *)
Best(S, W, D, i, j) ==
    IF i = j THEN 0 ELSE Min({Infinite} \cup {W[i][k] + D[k][j] : k \in S \ {i}})

(* Distances that are sound and closed are the shortest.                   *)
LEMMA SoundIsLeast ==
    ASSUME NEW S, NEW W \in Table(S), NEW D, Sound(S, W, D),
           \A m \in S : Through(S, D, m), NEW i \in S, NEW j \in S
    PROVE  D[i][j] = Best(S, W, D, i, j)
<1>1. D \in Table(S) /\ Zeros(S, D) /\ Direct(S, W, D) /\ First(S, W, D)
  BY DEF Sound
<1>2. CASE i = j
  BY <1>1, <1>2 DEF Zeros, Best
<1>3. CASE i # j
  <2> DEFINE R == {Infinite} \cup {W[i][k] + D[k][j] : k \in S \ {i}}
             d == D[i][j]
  <2>1. d \in 0 .. Infinite
    BY <1>1 DEF Table
  <2>2. ASSUME NEW k \in S PROVE W[i][k] + D[k][j] \in Nat /\ d <= W[i][k] + D[k][j]
    <3>1. /\ W[i][k] \in 0 .. Infinite /\ D[i][k] \in 0 .. Infinite /\ D[k][j] \in 0 .. Infinite
      BY <1>1 DEF Table
    <3>2. D[i][k] <= W[i][k]
      BY <1>1 DEF Direct
    <3>3. D[i][k] < Infinite /\ D[k][j] < Infinite => d <= D[i][k] + D[k][j]
      BY DEF Through
    <3> HIDE DEF d
    <3> QED
      BY <2>1, <3>1, <3>2, <3>3, InfiniteAssumption
  <2>3. d \in R
    <3>1. CASE d < Infinite
      <4>1. PICK k \in S \ {i} : W[i][k] + D[k][j] <= d
        BY <1>1, <1>3, <3>1 DEF First
      <4>2. W[i][k] + D[k][j] \in Nat /\ d <= W[i][k] + D[k][j]
        BY <2>2
      <4> HIDE DEF d
      <4>3. W[i][k] + D[k][j] = d
        BY <2>1, <4>1, <4>2, InfiniteAssumption
      <4> QED
        BY <4>3
    <3>2. CASE ~(d < Infinite)
      <4> HIDE DEF d
      <4>1. d = Infinite
        BY <2>1, <3>2, InfiniteAssumption
      <4> QED
        BY <4>1
    <3> QED
      BY <3>1, <3>2
  <2>4. \A x \in R : x \in Nat /\ d <= x
    <3> HIDE DEF d
    <3> QED
      BY <2>1, <2>2, InfiniteAssumption
  <2> HIDE DEF R, d
  <2>5. \A x \in R : (\A y \in R : x <= y) => x = d
    BY <2>1, <2>3, <2>4, InfiniteAssumption
  <2>6. Min(R) = d
    BY <2>3, <2>4, <2>5 DEF Min
  <2> QED
    BY <1>3, <2>6 DEF R, d, Best
<1> QED
  BY <1>2, <1>3

-----------------------------------------------------------------------------
(* The links and the weights of a description                              *)

LastSwitch == 2 * net.nodes + net.routers

LEMMA LinksAre ==
    ASSUME net \in Descriptions
    PROVE  /\ LastSwitch \in Nat /\ DOMAIN Links # {}
           /\ \A n \in DOMAIN Links :
                /\ Links[n].src \in 0 .. LastSwitch /\ Links[n].dst \in 0 .. LastSwitch
                /\ Links[n].src # Links[n].dst /\ Links[n].weight \in 0 .. Infinite
<1>1. /\ net.nodes \in Nat \ {0} /\ net.routers \in Nat \ {0}
      /\ Len(net.ext) \in Nat \ {0} /\ DOMAIN net.ext = 1 .. Len(net.ext)
      /\ Len(net.int) \in Nat /\ DOMAIN net.int = 1 .. Len(net.int)
      /\ \A n \in DOMAIN net.ext : /\ net.ext[n].node \in 0 .. net.nodes - 1
                                   /\ net.ext[n].router \in 0 .. net.routers - 1
                                   /\ net.ext[n].weight \in 0 .. Infinite
      /\ \A n \in DOMAIN net.int : /\ net.int[n].src \in 0 .. net.routers - 1
                                   /\ net.int[n].dst \in 0 .. net.routers - 1 \ {net.int[n].src}
                                   /\ net.int[n].weight \in 0 .. Infinite
  BY DescriptionsAssumption
<1> DEFINE Good(l) == /\ l.src \in 0 .. LastSwitch /\ l.dst \in 0 .. LastSwitch
                      /\ l.src # l.dst /\ l.weight \in 0 .. Infinite
           A == [n \in DOMAIN net.ext |-> ExtIn(net.ext[n])]
           B == [n \in DOMAIN net.ext |-> ExtOut(net.ext[n])]
           C == [n \in DOMAIN net.int |-> Internal(net.int[n])]
           L == {ExtIn(net.ext[n]) : n \in DOMAIN net.ext}
                  \cup {ExtOut(net.ext[n]) : n \in DOMAIN net.ext}
                  \cup {Internal(net.int[n]) : n \in DOMAIN net.int}
<1>2. ASSUME NEW n \in DOMAIN net.ext PROVE Good(ExtIn(net.ext[n])) /\ Good(ExtOut(net.ext[n]))
  <2> DEFINE e == net.ext[n]
  <2>1. e.node \in 0 .. net.nodes - 1 /\ e.router \in 0 .. net.routers - 1
        /\ e.weight \in 0 .. Infinite
    BY <1>1
  <2>2. /\ ExtIn(e).src = e.node /\ ExtIn(e).dst = e.router + 2 * net.nodes
        /\ ExtIn(e).weight = e.weight
    BY DEF ExtIn, RouterSwitch
  <2>3. /\ ExtOut(e).src = e.router + 2 * net.nodes /\ ExtOut(e).dst = e.node + net.nodes
        /\ ExtOut(e).weight = e.weight
    BY DEF ExtOut, ExtIn, RouterSwitch, ReceiverOf
  <2> HIDE DEF e
  <2> DEFINE k == net.nodes
             r == net.routers
             a == e.node
             b == e.router
             m == LastSwitch
  <2>5. k \in Nat \ {0} /\ r \in Nat \ {0} /\ m = 2 * k + r /\ a \in 0 .. k - 1 /\ b \in 0 .. r - 1
    BY <1>1, <2>1 DEF LastSwitch
  <2>6. /\ a \in 0 .. m /\ b + 2 * k \in 0 .. m /\ a + k \in 0 .. m
        /\ a # b + 2 * k /\ a + k # b + 2 * k
    <3> HIDE DEF k, r, a, b, m
    <3> QED
      BY <2>5
  <2>7. Good(ExtIn(e)) /\ Good(ExtOut(e))
    BY <2>1, <2>2, <2>3, <2>6
  <2> QED
    BY <2>7 DEF e
<1>3. ASSUME NEW n \in DOMAIN net.int PROVE Good(Internal(net.int[n]))
  <2> DEFINE e == net.int[n]
  <2>1. /\ e.src \in 0 .. net.routers - 1 /\ e.dst \in 0 .. net.routers - 1 /\ e.src # e.dst
        /\ e.weight \in 0 .. Infinite
    BY <1>1
  <2>2. /\ Internal(e).src = e.src + 2 * net.nodes /\ Internal(e).dst = e.dst + 2 * net.nodes
        /\ Internal(e).weight = e.weight
    BY DEF Internal, RouterSwitch
  <2> HIDE DEF e
  <2> DEFINE k == net.nodes
             r == net.routers
             a == e.src
             b == e.dst
             m == LastSwitch
  <2>5. /\ k \in Nat \ {0} /\ r \in Nat \ {0} /\ m = 2 * k + r
        /\ a \in 0 .. r - 1 /\ b \in 0 .. r - 1 /\ a # b
    BY <1>1, <2>1 DEF LastSwitch
  <2>6. a + 2 * k \in 0 .. m /\ b + 2 * k \in 0 .. m /\ a + 2 * k # b + 2 * k
    <3> HIDE DEF k, r, a, b, m
    <3> QED
      BY <2>5
  <2>7. Good(Internal(e))
    BY <2>1, <2>2, <2>6
  <2> QED
    BY <2>7 DEF e
<1>4. \A l \in L : Good(l)
  <2> HIDE DEF Good
  <2> QED
    BY <1>2, <1>3
<1>5. A \in Seq(L) /\ B \in Seq(L) /\ C \in Seq(L) /\ Len(A) = Len(net.ext)
  BY <1>1
<1>6. Links = A \o B \o C
  BY DEF Links
<1> HIDE DEF A, B, C, L, Good
<1>7. Links \in Seq(L) /\ Len(Links) = Len(A) + Len(B) + Len(C)
  <2>1. A \o B \in Seq(L) /\ Len(A \o B) = Len(A) + Len(B)
    BY <1>5, ConcatProperties
  <2>2. (A \o B) \o C \in Seq(L) /\ Len((A \o B) \o C) = Len(A \o B) + Len(C)
    BY <1>5, <2>1, ConcatProperties
  <2> QED
    BY <1>6, <2>1, <2>2
<1>8. DOMAIN Links # {} /\ \A n \in DOMAIN Links : Links[n] \in L
  <2>1. Len(A) \in Nat \ {0} /\ Len(B) \in Nat /\ Len(C) \in Nat
    BY <1>1, <1>5
  <2>2. Len(Links) \in Nat \ {0} /\ DOMAIN Links = 1 .. Len(Links)
    BY <1>7, <2>1
  <2>3. 1 \in DOMAIN Links
    BY <2>2
  <2> QED
    BY <1>7, <2>2, <2>3
<1>9. LastSwitch \in Nat
  BY <1>1 DEF LastSwitch
<1>10. \A n \in DOMAIN Links : Good(Links[n])
  BY <1>4, <1>8
<1> QED
  BY <1>8, <1>9, <1>10 DEF Good

(* The switches are numbered from 0.                                       *)
SwitchesInv ==
    /\ net \in Descriptions
    /\ NumSwitches \in Nat \ {0} /\ Switches = 0 .. NumSwitches - 1

LEMMA InitSwitches == Init => SwitchesInv
<1> SUFFICES ASSUME Init PROVE SwitchesInv
  OBVIOUS
<1> DEFINE E == UNION {{Links[n].src, Links[n].dst} : n \in DOMAIN Links}
           last == Max(E)
<1>1. net \in Descriptions /\ Switches = 0 .. last
  BY DEF Init, Switches
<1>2. last \in Nat
  <2>1. LastSwitch \in Nat /\ E \in SUBSET Nat /\ \A x \in E : x <= LastSwitch
    BY <1>1, LinksAre
  <2>2. E # {}
    <3>1. PICK n \in DOMAIN Links : TRUE
      BY <1>1, LinksAre
    <3> QED
      BY <3>1
  <2> HIDE DEF E
  <2>3. last \in E
    BY <2>1, <2>2, MaxPicks
  <2> QED
    BY <2>1, <2>3
<1> HIDE DEF last
<1>3. Cardinality(0 .. last) = last + 1
  BY <1>2, FS_Interval
<1> QED
  BY <1>1, <1>2, <1>3 DEF SwitchesInv, NumSwitches

LEMMA WeightsAreSound ==
    ASSUME SwitchesInv, ReadWeights, phase' = "relax", NEW v \in net.vnets
    PROVE  weights'[v] \in Table(Switches) /\ Sound(Switches, weights'[v], weights'[v])
<1> DEFINE S == Switches
           W == weights'[v]
           weight(i, j) == IF CarriersOf(i, j, v) # {}
                           THEN Links[CHOOSE n \in CarriersOf(i, j, v) : TRUE].weight
                           ELSE IF i = j THEN 0 ELSE Infinite
<1>1. W = [i \in S |-> [j \in S |-> weight(i, j)]]
  BY DEF ReadWeights
<1>2. ASSUME NEW i \in S, NEW j \in S
      PROVE  weight(i, j) \in 0 .. Infinite /\ (i = j => weight(i, j) = 0)
  <2>1. CASE CarriersOf(i, j, v) # {}
    <3> DEFINE n == CHOOSE n \in CarriersOf(i, j, v) : TRUE
    <3>1. n \in CarriersOf(i, j, v)
      BY <2>1
    <3> HIDE DEF n
    <3>2. n \in DOMAIN Links /\ Links[n].src = i /\ Links[n].dst = j
      BY <3>1 DEF CarriersOf
    <3>3. Links[n].src # Links[n].dst /\ Links[n].weight \in 0 .. Infinite
      BY <3>2, LinksAre DEF SwitchesInv
    <3>4. weight(i, j) = Links[n].weight
      BY <2>1 DEF n
    <3> QED
      BY <3>2, <3>3, <3>4
  <2>2. CASE CarriersOf(i, j, v) = {}
    BY <2>2, InfiniteAssumption
  <2> QED
    BY <2>1, <2>2
<1> HIDE DEF weight
<1>3. \A i, j \in S : W[i][j] = weight(i, j)
  BY <1>1
<1>4. W \in Table(S)
  BY <1>1, <1>2 DEF Table
<1> HIDE DEF W
<1>5. \A i, j \in S : W[i][j] \in 0 .. Infinite /\ (i = j => W[i][j] = 0)
  BY <1>2, <1>3
<1>6. Zeros(S, W)
  BY <1>5 DEF Zeros
<1>7. Direct(S, W, W)
  BY <1>5, InfiniteAssumption DEF Direct
<1>8. First(S, W, W)
  <2> SUFFICES ASSUME NEW i \in S, NEW j \in S, i # j
               PROVE  W[i][j] + W[j][j] <= W[i][j]
    BY DEF First
  <2> QED
    BY <1>5, InfiniteAssumption
<1> QED
  BY <1>4, <1>6, <1>7, <1>8 DEF Sound, W

-----------------------------------------------------------------------------
(* The passes of the loop                                                  *)

NumVnets == Cardinality(net.vnets)
Passes == NumVnets * NumSwitches * NumSwitches

(* From one pass to the next: the next row, or the first row of the next   *)
(* switch, or the first of the next vnet, until all are done.              *)
LEMMA PassIs ==
    ASSUME NEW d \in Nat \ {0}, NumSwitches = d, NEW s \in Nat
    PROVE  LET p == PassOf(s)
               q == PassOf(s + 1)
           IN  /\ p.vnet \in Nat /\ p.via \in 0 .. d - 1 /\ p.row \in 0 .. d - 1
               /\ p.row + 1 < d => q.vnet = p.vnet /\ q.via = p.via /\ q.row = p.row + 1
               /\ p.row + 1 = d /\ p.via + 1 < d =>
                    q.vnet = p.vnet /\ q.via = p.via + 1 /\ q.row = 0
               /\ p.row + 1 = d /\ p.via + 1 = d =>
                    q.vnet = p.vnet + 1 /\ q.via = 0 /\ q.row = 0
<1> DEFINE a == s \div d
           b == (s + 1) \div d
<1>1. a \in Nat /\ s % d \in 0 .. d - 1 /\ b \in Nat /\ s + 1 \in Nat
  <2>1. a \in Nat /\ s % d \in 0 .. d - 1
    BY DivAndMod
  <2>2. s + 1 \in Nat
    OBVIOUS
  <2>3. b \in Nat
    BY <2>2, DivAndMod
  <2> QED
    BY <2>1, <2>2, <2>3
<1>2. /\ (s % d) + 1 < d => b = a /\ (s + 1) % d = (s % d) + 1
      /\ (s % d) + 1 = d => b = a + 1 /\ (s + 1) % d = 0
  BY DivAndModOfNext
<1>3. s \div (d * d) = a \div d /\ (s + 1) \div (d * d) = b \div d
  BY <1>1, DivTwice
<1>4. PassOf(s) = [vnet |-> a \div d, via |-> a % d, row |-> s % d]
  BY <1>3 DEF PassOf
<1>5. PassOf(s + 1) = [vnet |-> b \div d, via |-> b % d, row |-> (s + 1) % d]
  BY <1>3 DEF PassOf
<1> HIDE DEF a, b
<1>6. a \div d \in Nat /\ a % d \in 0 .. d - 1
  BY <1>1, DivAndMod
<1>7. /\ (a % d) + 1 < d => (a + 1) \div d = a \div d /\ (a + 1) % d = (a % d) + 1
      /\ (a % d) + 1 = d => (a + 1) \div d = (a \div d) + 1 /\ (a + 1) % d = 0
  BY <1>1, DivAndModOfNext
<1> DEFINE row == s % d
           rowNext == (s + 1) % d
           via == a % d
           viaNext == b % d
           v == a \div d
           vNext == b \div d
<1>8. /\ v \in Nat /\ via \in 0 .. d - 1 /\ row \in 0 .. d - 1
      /\ row + 1 < d => vNext = v /\ viaNext = via /\ rowNext = row + 1
      /\ row + 1 = d /\ via + 1 < d => vNext = v /\ viaNext = via + 1 /\ rowNext = 0
      /\ row + 1 = d /\ via + 1 = d => vNext = v + 1 /\ viaNext = 0 /\ rowNext = 0
  BY <1>1, <1>2, <1>6, <1>7, Zenon
<1>9. PassOf(s) = [vnet |-> v, via |-> via, row |-> row]
  BY <1>4
<1>10. PassOf(s + 1) = [vnet |-> vNext, via |-> viaNext, row |-> rowNext]
  BY <1>5
<1> HIDE DEF v, vNext, via, viaNext, row, rowNext
<1> QED
  BY <1>8, <1>9, <1>10

(* The vnet of a pass, and the vnet that follows the last pass.            *)
LEMMA PassesAre ==
    ASSUME SwitchesInv, NEW s \in Nat
    PROVE  /\ NumVnets \in Nat \ {0} /\ net.vnets = 0 .. NumVnets - 1 /\ Passes \in Nat \ {0}
           /\ s < Passes => PassOf(s).vnet \in net.vnets
           /\ s = Passes => PassOf(s).vnet = NumVnets
<1> DEFINE d == NumSwitches
           n == NumVnets
           e == d * d
<1>1. d \in Nat \ {0} /\ n \in Nat \ {0} /\ net.vnets = 0 .. n - 1
  BY DescriptionsAssumption DEF SwitchesInv, NumVnets
<1>2. Passes = n * e /\ e \in Nat \ {0}
  <2>1. Passes = (n * d) * d
    BY DEF Passes
  <2> HIDE DEF d, n
  <2> QED
    BY <1>1, <2>1
<1>3. PassOf(s).vnet = s \div e
  BY DEF PassOf
<1> HIDE DEF d, n, e
<1>4. Passes \in Nat \ {0}
  BY <1>1, <1>2
<1>5. ASSUME s < Passes PROVE s \div e \in 0 .. n - 1
  <2>1. s \in 0 .. (n * e) - 1
    BY <1>2, <1>4, <1>5
  <2> QED
    BY <1>1, <1>2, <2>1, DivBelow
<1>6. ASSUME s = Passes PROVE s \div e = n
  <2>1. s = n * e + 0 /\ 0 \in 0 .. e - 1
    BY <1>2, <1>4, <1>6
  <2> QED
    BY <1>1, <1>2, <2>1, OnlyDivAndMod
<1> QED
  BY <1>1, <1>3, <1>4, <1>5, <1>6 DEF n

-----------------------------------------------------------------------------
(* The inductive invariant                                                 *)

Waiting(v) == dist[v] = weights[v] /\ Sound(Switches, weights[v], weights[v])
Finished(v) == Sound(Switches, weights[v], dist[v]) /\ Closed(Switches, dist[v], NumSwitches)

TablesInv ==
    phase \in {"relax", "make", "route"} =>
        /\ weights \in [net.vnets -> Table(Switches)]
        /\ dist \in [net.vnets -> Table(Switches)]
RelaxInv ==
    phase = "relax" =>
        /\ step \in Nat /\ step < Passes
        /\ LET p == PassOf(step)
           IN  \A v \in net.vnets :
                 /\ v < p.vnet => Finished(v)
                 /\ v = p.vnet => InRound(Switches, weights[v], dist[v], p.via, p.row)
                 /\ v > p.vnet => Waiting(v)
MakeInv == phase \in {"make", "route"} => \A v \in net.vnets : Finished(v)

TopologyInv ==
    /\ SwitchesInv /\ TablesInv /\ RelaxInv /\ MakeInv
    /\ phase = "links" => step = 0

LEMMA InvInit == InitRouting => TopologyInv
<1> SUFFICES ASSUME InitRouting PROVE TopologyInv
  OBVIOUS
<1>1. SwitchesInv
  BY InitSwitches DEF InitRouting
<1>2. phase = "links" /\ step = 0
  BY DEF InitRouting, Init
<1> QED
  BY <1>1, <1>2 DEF TopologyInv, TablesInv, RelaxInv, MakeInv

(* The first round of a vnet, and of the table after a round.              *)
LEMMA WaitingBegins ==
    ASSUME SwitchesInv, NEW v, Waiting(v), weights[v] \in Table(Switches)
    PROVE  InRound(Switches, weights[v], dist[v], 0, 0)
<1>1. Switches \in SUBSET Nat /\ 0 \in Switches
  BY DEF SwitchesInv
<1>2. \A m \in Switches : ~(m < 0)
  BY <1>1
<1>3. Closed(Switches, weights[v], 0)
  BY <1>2 DEF Closed
<1> QED
  BY <1>1, <1>3, RoundBegins DEF Waiting

LEMMA InvReadWeights ==
    ASSUME TopologyInv, ReadWeights
    PROVE  TopologyInv'
<1>1. /\ UNCHANGED <<net, step, outports>> /\ step = 0 /\ SwitchesInv
      /\ phase' \in {"fatal", "relax"}
  BY DEF ReadWeights, TopologyInv
<1>2. SwitchesInv'
  BY <1>1 DEF SwitchesInv, NumSwitches, Switches
<1>3. CASE phase' = "fatal"
  BY <1>2, <1>3 DEF TopologyInv, TablesInv, RelaxInv, MakeInv
<1>4. CASE phase' = "relax"
  <2>1. ASSUME NEW v \in net.vnets
        PROVE  weights'[v] \in Table(Switches) /\ Sound(Switches, weights'[v], weights'[v])
    BY <1>1, <1>4, WeightsAreSound
  <2>2. Switches' = Switches /\ NumSwitches' = NumSwitches /\ net' = net
    BY <1>1 DEF NumSwitches, Switches
  <2>3. /\ weights' = [v \in net.vnets |-> weights'[v]] /\ dist' = weights'
    BY <1>4 DEF ReadWeights
  <2>4. TablesInv'
    BY <2>1, <2>2, <2>3 DEF TablesInv, Table
  <2>5. \A v \in net.vnets : Waiting(v)'
    BY <2>1, <2>2, <2>3 DEF Waiting
  <2>6. ASSUME NEW v \in net.vnets
        PROVE  InRound(Switches', weights'[v], dist'[v], 0, 0)
    <3>1. Switches \in SUBSET Nat /\ 0 \in Switches
      BY <1>1 DEF SwitchesInv
    <3>2. Closed(Switches, dist'[v], 0)
      <4>1. \A m \in Switches : ~(m < 0)
        BY <3>1
      <4> QED
        BY <4>1 DEF Closed
    <3> QED
      BY <2>1, <2>2, <2>3, <3>1, <3>2, RoundBegins
  <2>7. step' = 0 /\ 0 \in Nat /\ PassOf(0) = [vnet |-> 0, via |-> 0, row |-> 0]
    <3> DEFINE d == NumSwitches
    <3>1. d \in Nat \ {0}
      BY <1>1 DEF SwitchesInv
    <3>2. d * d \in Nat \ {0}
      BY <3>1
    <3>3. 0 \div (d * d) = 0 /\ 0 \div d = 0 /\ 0 % d = 0
      <4>1. 0 = 0 * d + 0 /\ 0 = 0 * (d * d) + 0 /\ 0 \in 0 .. d - 1 /\ 0 \in 0 .. (d * d) - 1
        BY <3>1, <3>2
      <4>2. 0 \div d = 0 /\ 0 % d = 0
        BY <3>1, <4>1, OnlyDivAndMod
      <4>3. 0 \div (d * d) = 0
        BY <3>2, <4>1, OnlyDivAndMod
      <4> QED
        BY <4>2, <4>3
    <3> QED
      BY <1>1, <3>3 DEF PassOf
  <2>8. PassOf(step)' = PassOf(0)
    BY <2>2, <2>7 DEF PassOf
  <2>9. Passes' = Passes /\ Passes \in Nat \ {0} /\ \A v \in net.vnets : ~(v < 0)
    <3>1. /\ NumVnets \in Nat \ {0} /\ net.vnets = 0 .. NumVnets - 1 /\ Passes \in Nat \ {0}
      BY <1>1, PassesAre
    <3>2. Passes' = Passes
      BY <2>2 DEF Passes, NumVnets
    <3> QED
      BY <3>1, <3>2
  <2>10. RelaxInv'
    <3> SUFFICES ASSUME NEW v \in net.vnets
                 PROVE  /\ ~(v < 0)
                        /\ InRound(Switches', weights'[v], dist'[v], 0, 0)
                        /\ Waiting(v)'
      BY <2>2, <2>7, <2>8, <2>9 DEF RelaxInv
    <3> QED
      BY <2>5, <2>6, <2>9
  <2> QED
    BY <1>2, <1>4, <2>4, <2>10 DEF TopologyInv, MakeInv
<1> QED
  BY <1>1, <1>3, <1>4

(* A table relaxed in its last row, as the next pass finds it.             *)
LEMMA InvExtendRow ==
    ASSUME TopologyInv, ExtendRow
    PROVE  TopologyInv'
<1> DEFINE S == Switches
           N == NumSwitches
           p == PassOf(step)
           q == PassOf(step + 1)
           u == p.vnet
           D == dist[u]
           F == RelaxedRow(S, D, p.via, p.row)
<1>1. /\ SwitchesInv /\ TablesInv /\ RelaxInv /\ phase = "relax"
      /\ UNCHANGED <<net, weights, outports>>
  BY DEF ExtendRow, TopologyInv
<1>2. S' = S /\ N' = N /\ Passes' = Passes /\ net' = net /\ weights' = weights
  BY <1>1 DEF Switches, NumSwitches, Passes, NumVnets
<1>3. SwitchesInv'
  BY <1>1, <1>2 DEF SwitchesInv
<1>4. /\ N \in Nat \ {0} /\ S = 0 .. N - 1 /\ S \in SUBSET Nat
      /\ Passes \in Nat \ {0} /\ step \in Nat /\ step < Passes
      /\ NumVnets \in Nat \ {0} /\ net.vnets = 0 .. NumVnets - 1
  BY <1>1, PassesAre DEF SwitchesInv, RelaxInv
<1>5. u \in net.vnets
  BY <1>1, <1>4, PassesAre
<1>6. weights \in [net.vnets -> Table(S)] /\ dist \in [net.vnets -> Table(S)]
  BY <1>1 DEF TablesInv
<1>7. /\ u \in Nat /\ p.via \in S /\ p.row \in S
      /\ p.row + 1 < N => q.vnet = u /\ q.via = p.via /\ q.row = p.row + 1
      /\ p.row + 1 = N /\ p.via + 1 < N => q.vnet = u /\ q.via = p.via + 1 /\ q.row = 0
      /\ p.row + 1 = N /\ p.via + 1 = N => q.vnet = u + 1 /\ q.via = 0 /\ q.row = 0
  BY <1>4, PassIs
<1>8. InRound(S, weights[u], D, p.via, p.row)
  BY <1>1, <1>5 DEF RelaxInv
<1>9. InRound(S, weights[u], F, p.via, p.row + 1)
  BY <1>4, <1>5, <1>6, <1>7, <1>8, RowRelaxed
<1>10. dist' = [dist EXCEPT ![u] = F]
  BY <1>5, <1>6 DEF ExtendRow, RelaxedRow
<1>11. F \in Table(S)
  BY <1>9 DEF InRound
<1> HIDE DEF S, N, p, q, D, F
<1>12. dist' \in [net.vnets -> Table(S)] /\ dist'[u] = F
       /\ \A v \in net.vnets \ {u} : dist'[v] = dist[v]
  BY <1>5, <1>6, <1>10, <1>11
<1>13. TablesInv'
  BY <1>2, <1>6, <1>12 DEF TablesInv, S
<1>14. \A v \in net.vnets : v < u => Finished(v)'
  BY <1>1, <1>2, <1>4, <1>5, <1>7, <1>12 DEF RelaxInv, Finished, S, N, p
<1>15. \A v \in net.vnets : v > u => Waiting(v)'
  BY <1>1, <1>2, <1>4, <1>5, <1>7, <1>12 DEF RelaxInv, Waiting, S, N, p
<1>16. ASSUME p.row + 1 = N
       PROVE  Sound(S, weights[u], F) /\ Closed(S, F, p.via + 1)
  <2>1. \A i \in S : i < p.row + 1
    BY <1>4, <1>16
  <2> QED
    BY <1>7, <1>9, <2>1, RoundEnds
<1>17. ASSUME p.row + 1 = N, p.via + 1 = N, NEW v \in net.vnets, v = u PROVE Finished(v)'
  BY <1>2, <1>12, <1>16, <1>17 DEF Finished, S, N
<1>18. CASE step + 1 = Passes
  <2>1. phase' = "make" /\ step' = 0
    BY <1>18 DEF ExtendRow, NextPass, Passes, NumVnets
  <2>2. q.vnet = NumVnets
    BY <1>1, <1>4, <1>18, PassesAre DEF q
  <2>3. p.row + 1 = N /\ p.via + 1 = N /\ u + 1 = NumVnets
    BY <1>4, <1>5, <1>7, <2>2
  <2>4. \A v \in net.vnets : v < u \/ v = u
    BY <1>4, <1>7, <2>3
  <2>5. MakeInv'
    BY <1>2, <1>14, <1>17, <2>3, <2>4 DEF MakeInv
  <2> QED
    BY <1>3, <1>13, <2>1, <2>5 DEF TopologyInv, RelaxInv
<1>19. CASE step + 1 # Passes
  <2>1. phase' = "relax" /\ step' = step + 1
    BY <1>1, <1>19 DEF ExtendRow, NextPass, Passes, NumVnets
  <2>2. step' \in Nat /\ step' < Passes' /\ PassOf(step)' = q
    <3>1. PassOf(step)' = q
      BY <1>2, <2>1 DEF PassOf, q, N
    <3> QED
      BY <1>2, <1>4, <1>19, <2>1, <3>1
  <2>3. CASE p.row + 1 < N
    <3>1. \A v \in net.vnets : /\ v < q.vnet => Finished(v)'
                               /\ v = q.vnet => InRound(S, weights[v], dist'[v], q.via, q.row)
                               /\ v > q.vnet => Waiting(v)'
      BY <1>7, <1>9, <1>12, <1>14, <1>15, <2>3
    <3> QED
      BY <1>2, <1>3, <1>13, <2>1, <2>2, <3>1 DEF TopologyInv, RelaxInv, MakeInv, S
  <2>4. CASE p.row + 1 = N /\ p.via + 1 < N
    <3>1. p.via + 1 \in S
      BY <1>4, <1>7, <2>4
    <3>2. InRound(S, weights[u], F, p.via + 1, 0)
      BY <1>4, <1>5, <1>6, <1>16, <2>4, <3>1, RoundBegins
    <3>3. \A v \in net.vnets : /\ v < q.vnet => Finished(v)'
                               /\ v = q.vnet => InRound(S, weights[v], dist'[v], q.via, q.row)
                               /\ v > q.vnet => Waiting(v)'
      BY <1>7, <1>12, <1>14, <1>15, <2>4, <3>2
    <3> QED
      BY <1>2, <1>3, <1>13, <2>1, <2>2, <3>3 DEF TopologyInv, RelaxInv, MakeInv, S
  <2>5. CASE p.row + 1 = N /\ p.via + 1 = N
    <3>1. ASSUME NEW v \in net.vnets, v = u + 1
          PROVE  InRound(S, weights[v], dist'[v], 0, 0)
      <4>1. Waiting(v)
        BY <1>1, <1>4, <1>7, <3>1 DEF RelaxInv, p
      <4>2. dist'[v] = dist[v]
        BY <1>7, <1>12, <3>1
      <4> QED
        BY <1>1, <1>6, <4>1, <4>2, WaitingBegins DEF S
    <3>2. \A v \in net.vnets : v \in Int
      BY <1>4
    <3>3. \A v \in net.vnets : /\ v < u + 1 => Finished(v)'
                               /\ v = u + 1 => InRound(S, weights[v], dist'[v], 0, 0)
                               /\ v > u + 1 => Waiting(v)'
      <4> SUFFICES ASSUME NEW v \in net.vnets
                   PROVE  /\ v < u + 1 => Finished(v)'
                          /\ v = u + 1 => InRound(S, weights[v], dist'[v], 0, 0)
                          /\ v > u + 1 => Waiting(v)'
        OBVIOUS
      <4>1. v < u + 1 => v < u \/ v = u
        BY <1>7, <3>2
      <4>2. v > u + 1 => v > u
        BY <1>7, <3>2
      <4> QED
        BY <1>14, <1>15, <1>17, <2>5, <3>1, <4>1, <4>2
    <3> QED
      BY <1>2, <1>3, <1>7, <1>13, <2>1, <2>2, <2>5, <3>3 DEF TopologyInv, RelaxInv, MakeInv, S
  <2>6. p.row + 1 < N \/ (p.row + 1 = N /\ p.via + 1 < N) \/ (p.row + 1 = N /\ p.via + 1 = N)
    BY <1>4, <1>7
  <2> QED
    BY <2>3, <2>4, <2>5, <2>6
<1> QED
  BY <1>18, <1>19

LEMMA InvMakeLinks ==
    ASSUME TopologyInv, MakeLinks
    PROVE  TopologyInv'
<1>1. /\ SwitchesInv /\ TablesInv /\ MakeInv /\ phase = "make"
      /\ UNCHANGED <<net, weights, dist>> /\ phase' \in {"make", "route", "fatal"}
  BY DEF MakeLinks, NextPass, TopologyInv
<1>2. Switches' = Switches
  BY DEF MakeLinks, Switches
<1>3. NumSwitches' = NumSwitches
  BY <1>2 DEF NumSwitches
<1>4. SwitchesInv' /\ TablesInv' /\ MakeInv'
  BY <1>1, <1>2, <1>3 DEF SwitchesInv, TablesInv, MakeInv, Finished
<1> QED
  BY <1>1, <1>4 DEF TopologyInv, RelaxInv

LEMMA InvStep == TopologyInv /\ [Next]_routingVars => TopologyInv'
<1> SUFFICES ASSUME TopologyInv, [Next]_routingVars PROVE TopologyInv'
  OBVIOUS
<1>1. CASE Construct
  BY <1>1, InvReadWeights, InvExtendRow, InvMakeLinks DEF Construct, Build
<1>2. ASSUME UNCHANGED vars PROVE TopologyInv'
  <2>1. UNCHANGED <<net, phase, step, weights, dist, outports>>
    BY <1>2 DEF vars
  <2>2. Switches' = Switches /\ NumSwitches' = NumSwitches /\ PassOf(step)' = PassOf(step)
        /\ Passes' = Passes
    BY <2>1 DEF Switches, NumSwitches, PassOf, Passes, NumVnets
  <2> QED
    BY <2>1, <2>2
    DEF TopologyInv, SwitchesInv, TablesInv, RelaxInv, MakeInv, Finished, Waiting
<1>3. CASE ~Construct
  <2>1. UNCHANGED vars
    BY <1>3 DEF Next, SendPacket, Hop, Deliver, routingVars
  <2> QED
    BY <1>2, <2>1
<1> QED
  BY <1>1, <1>3

LEMMA TopologyAlways == Spec => []TopologyInv
BY InvInit, InvStep, PTL DEF Spec

(* While the relaxation is under way, the distances that the present round *)
(* leads to are right about every switch gone through so far               *)
(* (RoundsAreFinal), in whatever order the rows come: extend_shortest_path *)
(* works in place and needs no second table.                               *)
THEOREM RoundsAreAlwaysFinal == Spec => []RoundsAreFinal
<1>1. TopologyInv => RoundsAreFinal
  <2> SUFFICES ASSUME TopologyInv, phase = "relax" PROVE RoundsAreFinal
    BY DEF RoundsAreFinal
  <2> DEFINE p == PassOf(step)
             E == Round(Switches, dist[p.vnet], p.via)
  <2>1. /\ SwitchesInv /\ RelaxInv /\ step \in Nat /\ step < Passes
    BY DEF TopologyInv, RelaxInv
  <2>2. /\ NumSwitches \in Nat \ {0} /\ Switches = 0 .. NumSwitches - 1
        /\ p.vnet \in net.vnets /\ p.via \in Switches
    BY <2>1, PassIs, PassesAre DEF SwitchesInv
  <2>3. Closed(Switches, E, p.via + 1)
    BY <2>1, <2>2 DEF RelaxInv, InRound
  <2>4. ASSUME NEW m \in 0 .. p.via PROVE Through(Switches, E, m)
    <3>1. m \in Switches /\ m < p.via + 1
      BY <2>2
    <3> QED
      BY <2>3, <3>1 DEF Closed
  <2> QED
    BY <2>4 DEF RoundsAreFinal, Round, Through
<1> QED
  BY <1>1, TopologyAlways, PTL

(* When the relaxation is done, the distances are those of the shortest    *)
(* paths (DistIsLeast), in every network of links of any weights, so that  *)
(* the tables made from them (LinkIsShortestPathToNode) hold the links of  *)
(* shortest paths and no others.                                           *)
THEOREM TablesAreShortest == Spec => []DistIsLeast
<1>1. TopologyInv => DistIsLeast
  <2> SUFFICES ASSUME TopologyInv, phase = "make",
                      NEW v \in net.vnets, NEW i \in Switches, NEW j \in Switches
               PROVE  dist[v][i][j] =
                        IF i = j THEN 0
                        ELSE Min({Infinite} \cup
                                 {weights[v][i][k] + dist[v][k][j] : k \in Switches \ {i}})
    BY DEF DistIsLeast
  <2>1. weights[v] \in Table(Switches) /\ Finished(v)
    BY DEF TopologyInv, TablesInv, MakeInv
  <2>2. \A m \in Switches : m < NumSwitches
    BY DEF TopologyInv, SwitchesInv
  <2>3. \A m \in Switches : Through(Switches, dist[v], m)
    BY <2>1, <2>2 DEF Finished, Closed
  <2>4. Sound(Switches, weights[v], dist[v])
    BY <2>1 DEF Finished
  <2>5. dist[v][i][j] = Best(Switches, weights[v], dist[v], i, j)
    BY <2>1, <2>3, <2>4, SoundIsLeast
  <2> QED
    BY <2>5 DEF Best
<1> QED
  BY <1>1, TopologyAlways, PTL

-----------------------------------------------------------------------------
(* The links of a network, one by one                                      *)

(* The links of a description.                                             *)
LinkSet ==
    {ExtIn(net.ext[n]) : n \in DOMAIN net.ext}
        \cup {ExtOut(net.ext[n]) : n \in DOMAIN net.ext}
        \cup {Internal(net.int[n]) : n \in DOMAIN net.int}

(* What the concatenation of two sequences holds.                          *)
Holds(c, a) == \A i \in DOMAIN a : \E k \in DOMAIN c : c[k] = a[i]

FromBoth(c, a, b) ==
    \A k \in DOMAIN c : (\E i \in DOMAIN a : c[k] = a[i]) \/ (\E i \in DOMAIN b : c[k] = b[i])

LEMMA ConcatHolds ==
    ASSUME NEW S, NEW a \in Seq(S), NEW b \in Seq(S)
    PROVE  /\ a \o b \in Seq(S) /\ Holds(a \o b, a) /\ Holds(a \o b, b)
           /\ FromBoth(a \o b, a, b)
<1>1. /\ a \o b \in Seq(S) /\ Len(a \o b) = Len(a) + Len(b)
      /\ \A i \in 1 .. Len(a) : (a \o b)[i] = a[i]
      /\ \A i \in Len(a) + 1 .. Len(a) + Len(b) : (a \o b)[i] = b[i - Len(a)]
  BY ConcatProperties
<1>2. /\ Len(a) \in Nat /\ DOMAIN a = 1 .. Len(a) /\ Len(b) \in Nat /\ DOMAIN b = 1 .. Len(b)
      /\ DOMAIN (a \o b) = 1 .. Len(a) + Len(b)
  BY <1>1, LengthOf
<1>3. ASSUME NEW i \in DOMAIN a PROVE \E k \in DOMAIN (a \o b) : (a \o b)[k] = a[i]
  <2>1. i \in 1 .. Len(a) /\ i \in 1 .. Len(a) + Len(b)
    BY <1>2
  <2> QED
    BY <1>1, <1>2, <2>1
<1>4. ASSUME NEW i \in DOMAIN b PROVE \E k \in DOMAIN (a \o b) : (a \o b)[k] = b[i]
  <2> DEFINE k == Len(a) + i
  <2>1. i \in 1 .. Len(b)
    BY <1>2
  <2>2. k \in Len(a) + 1 .. Len(a) + Len(b) /\ k \in 1 .. Len(a) + Len(b) /\ k - Len(a) = i
    BY <1>2, <2>1
  <2> HIDE DEF k
  <2>3. (a \o b)[k] = b[k - Len(a)]
    BY <1>1, <2>2
  <2> QED
    BY <1>2, <2>2, <2>3
<1>5. ASSUME NEW k \in DOMAIN (a \o b)
      PROVE  \/ \E i \in DOMAIN a : (a \o b)[k] = a[i]
             \/ \E i \in DOMAIN b : (a \o b)[k] = b[i]
  <2>1. k \in 1 .. Len(a) \/ (k \in Len(a) + 1 .. Len(a) + Len(b) /\ k - Len(a) \in 1 .. Len(b))
    BY <1>2
  <2> QED
    BY <1>1, <1>2, <2>1
<1> QED
  BY <1>1, <1>3, <1>4, <1>5 DEF Holds, FromBoth

LEMMA LinksHold ==
    ASSUME net \in Descriptions
    PROVE  /\ Links \in Seq(LinkSet) /\ Len(Links) \in Nat /\ DOMAIN Links = 1 .. Len(Links)
           /\ \A n \in DOMAIN Links : Links[n] \in LinkSet
           /\ \A l \in LinkSet : \E n \in DOMAIN Links : Links[n] = l
<1> DEFINE A == [n \in DOMAIN net.ext |-> ExtIn(net.ext[n])]
           B == [n \in DOMAIN net.ext |-> ExtOut(net.ext[n])]
           C == [n \in DOMAIN net.int |-> Internal(net.int[n])]
<1>1. /\ Len(net.ext) \in Nat /\ DOMAIN net.ext = 1 .. Len(net.ext)
      /\ Len(net.int) \in Nat /\ DOMAIN net.int = 1 .. Len(net.int)
  BY DescriptionsAssumption
<1>2. A \in Seq(LinkSet) /\ B \in Seq(LinkSet) /\ C \in Seq(LinkSet)
  <2>1. /\ \A n \in DOMAIN net.ext : ExtIn(net.ext[n]) \in LinkSet /\ ExtOut(net.ext[n]) \in LinkSet
        /\ \A n \in DOMAIN net.int : Internal(net.int[n]) \in LinkSet
    BY DEF LinkSet
  <2> QED
    BY <1>1, <2>1
<1>3. /\ DOMAIN A = DOMAIN net.ext /\ \A n \in DOMAIN A : A[n] = ExtIn(net.ext[n])
      /\ DOMAIN B = DOMAIN net.ext /\ \A n \in DOMAIN B : B[n] = ExtOut(net.ext[n])
      /\ DOMAIN C = DOMAIN net.int /\ \A n \in DOMAIN C : C[n] = Internal(net.int[n])
  OBVIOUS
<1>4. Links = (A \o B) \o C
  BY DEF Links
<1> HIDE DEF A, B, C
<1>5. A \o B \in Seq(LinkSet) /\ Holds(A \o B, A) /\ Holds(A \o B, B)
  BY ONLY <1>2, ConcatHolds
<1>6. Links \in Seq(LinkSet) /\ Holds(Links, A \o B) /\ Holds(Links, C)
  <2> DEFINE D == A \o B
  <2>1. D \in Seq(LinkSet) /\ Links = D \o C
    BY <1>4, <1>5
  <2> HIDE DEF D
  <2>2. D \o C \in Seq(LinkSet) /\ Holds(D \o C, D) /\ Holds(D \o C, C)
    BY ONLY <1>2, <2>1, ConcatHolds
  <2> QED
    BY <2>1, <2>2 DEF D
<1>7. ASSUME NEW l \in LinkSet PROVE \E n \in DOMAIN Links : Links[n] = l
  <2>0. ASSUME NEW i \in DOMAIN (A \o B), (A \o B)[i] = l
        PROVE  \E n \in DOMAIN Links : Links[n] = l
    BY <1>6, <2>0 DEF Holds
  <2>1. CASE \E n \in DOMAIN net.ext : l = ExtIn(net.ext[n])
    <3>1. PICK n \in DOMAIN A : A[n] = l
      BY <1>3, <2>1
    <3> QED
      BY <1>5, <2>0, <3>1 DEF Holds
  <2>2. CASE \E n \in DOMAIN net.ext : l = ExtOut(net.ext[n])
    <3>1. PICK n \in DOMAIN B : B[n] = l
      BY <1>3, <2>2
    <3> QED
      BY <1>5, <2>0, <3>1 DEF Holds
  <2>3. CASE \E n \in DOMAIN net.int : l = Internal(net.int[n])
    BY <1>3, <1>6, <2>3 DEF Holds
  <2> QED
    BY <2>1, <2>2, <2>3 DEF LinkSet
<1>8. Len(Links) \in Nat /\ DOMAIN Links = 1 .. Len(Links)
      /\ \A n \in DOMAIN Links : Links[n] \in LinkSet
  BY <1>6, LengthOf
<1> QED
  BY <1>6, <1>7, <1>8

-----------------------------------------------------------------------------
(* Links added one by one: F gives those from i to j among the first n.    *)
AddedUpTo(links, i, j, n, F) ==
    F = [k \in 0 .. n |->
            IF k = 0 THEN << >>
            ELSE IF links[k].src = i /\ links[k].dst = j THEN Append(F[k - 1], links[k])
            ELSE F[k - 1]]

LEMMA AddedExists ==
    ASSUME NEW links, NEW i, NEW j
    PROVE  \A n \in Nat : \E F : AddedUpTo(links, i, j, n, F)
<1> DEFINE Bad == {n \in Nat : ~\E F : AddedUpTo(links, i, j, n, F)}
<1>1. SUFFICES ASSUME Bad # {} PROVE FALSE
  OBVIOUS
<1>2. PICK n \in Bad : \A m \in Bad : n <= m
  BY <1>1, LeastNumber
<1>3. CASE n = 0
  <2> DEFINE F == [k \in 0 .. 0 |-> << >>]
  <2>1. \A k \in 0 .. 0 : k = 0
    OBVIOUS
  <2>2. AddedUpTo(links, i, j, 0, F)
    BY <2>1 DEF AddedUpTo
  <2> QED
    BY <1>2, <1>3, <2>2
<1>4. CASE n # 0
  <2>1. n - 1 \in Nat /\ n \in Nat \ {0}
    BY <1>2, <1>4
  <2>2. n - 1 \notin Bad
    BY <1>2, <2>1
  <2>3. PICK F : AddedUpTo(links, i, j, n - 1, F)
    BY <2>1, <2>2
  <2> DEFINE last == IF links[n].src = i /\ links[n].dst = j THEN Append(F[n - 1], links[n])
                     ELSE F[n - 1]
             G == [k \in 0 .. n |-> IF k = n THEN last ELSE F[k]]
  <2>4. ASSUME NEW k \in 0 .. n
        PROVE  G[k] = IF k = 0 THEN << >>
                      ELSE IF links[k].src = i /\ links[k].dst = j THEN Append(G[k - 1], links[k])
                      ELSE G[k - 1]
    <3>1. CASE k = n
      <4>1. n - 1 \in 0 .. n /\ n - 1 # n /\ n # 0
        BY <2>1
      <4>2. G[n] = last /\ G[n - 1] = F[n - 1]
        BY <4>1
      <4> QED
        BY <3>1, <4>1, <4>2
    <3>2. CASE k # n
      <4>1. k \in 0 .. n - 1 /\ (k # 0 => k - 1 \in 0 .. n /\ k - 1 # n)
        BY <2>1, <3>2
      <4>2. F[k] = IF k = 0 THEN << >>
                   ELSE IF links[k].src = i /\ links[k].dst = j THEN Append(F[k - 1], links[k])
                   ELSE F[k - 1]
        BY <2>3, <4>1 DEF AddedUpTo
      <4>3. G[k] = F[k] /\ (k # 0 => G[k - 1] = F[k - 1])
        BY <3>2, <4>1
      <4> QED
        BY <4>2, <4>3
    <3> QED
      BY <3>1, <3>2
  <2>5. AddedUpTo(links, i, j, n, G)
    BY <2>4 DEF AddedUpTo
  <2> QED
    BY <1>2, <2>5
<1> QED
  BY <1>3, <1>4

LEMMA LinksBetweenIs ==
    ASSUME NEW i, NEW j, net \in Descriptions
    PROVE  \E F : AddedUpTo(Links, i, j, Len(Links), F) /\ LinksBetween(i, j) = F[Len(Links)]
<1> DEFINE F == CHOOSE F : AddedUpTo(Links, i, j, Len(Links), F)
<1>1. LinksBetween(i, j) = F[Len(Links)]
  BY DEF LinksBetween, AddedUpTo
<1>2. Len(Links) \in Nat
  BY LinksHold
<1>3. AddedUpTo(Links, i, j, Len(Links), F)
  BY <1>2, AddedExists
<1> QED
  BY <1>1, <1>3

(* What is added up to n are the links of the pair among the first n.      *)
Picks(q, links, i, j, n) ==
    /\ q \in Seq(LinkSet)
    /\ \A p \in DOMAIN q : q[p].src = i /\ q[p].dst = j
    /\ \A m \in 1 .. n : links[m].src = i /\ links[m].dst = j => \E p \in DOMAIN q : q[p] = links[m]

LEMMA AddedPicks ==
    ASSUME NEW links \in Seq(LinkSet), NEW i, NEW j, NEW F, AddedUpTo(links, i, j, Len(links), F)
    PROVE  Picks(F[Len(links)], links, i, j, Len(links))
<1> DEFINE N == Len(links)
           Bad == {n \in 0 .. N : ~Picks(F[n], links, i, j, n)}
<1>1. N \in Nat /\ \A m \in 1 .. N : links[m] \in LinkSet
  BY LengthOf
<1>2. SUFFICES ASSUME Bad # {} PROVE FALSE
  BY <1>1
<1>3. Bad \in SUBSET Nat
  BY <1>1
<1>4. PICK n \in Bad : \A m \in Bad : n <= m
  BY <1>2, <1>3, LeastNumber
<1>5. n \in 0 .. N /\ ~Picks(F[n], links, i, j, n)
  BY <1>4
<1>6. F[n] = IF n = 0 THEN << >>
             ELSE IF links[n].src = i /\ links[n].dst = j THEN Append(F[n - 1], links[n])
             ELSE F[n - 1]
  BY <1>5 DEF AddedUpTo
<1>7. CASE n = 0
  <2>1. << >> \in Seq(LinkSet) /\ DOMAIN << >> = {} /\ 1 .. 0 = {}
    OBVIOUS
  <2> QED
    BY <1>5, <1>6, <1>7, <2>1 DEF Picks
<1>8. CASE n # 0
  <2> DEFINE q == F[n - 1]
             r == F[n]
  <2>1. n - 1 \in 0 .. N /\ ~(n <= n - 1) /\ n \in 1 .. N
    BY <1>1, <1>5, <1>8
  <2>2. Picks(q, links, i, j, n - 1)
    BY <1>4, <2>1
  <2>3. \A m \in 1 .. n : m \in 1 .. n - 1 \/ m = n
    BY <2>1
  <2>4. CASE links[n].src = i /\ links[n].dst = j
    <3>1. r = Append(q, links[n]) /\ links[n] \in LinkSet /\ q \in Seq(LinkSet)
      BY <1>1, <1>6, <1>8, <2>1, <2>2, <2>4 DEF Picks
    <3> HIDE DEF q, r
    <3>2. /\ r \in Seq(LinkSet) /\ Len(q) \in Nat /\ Len(r) = Len(q) + 1
          /\ \A p \in 1 .. Len(q) : r[p] = q[p]
          /\ r[Len(q) + 1] = links[n]
      BY <3>1, AppendTo
    <3>3. DOMAIN q = 1 .. Len(q) /\ DOMAIN r = 1 .. Len(q) + 1
      BY <3>1, <3>2, LengthOf
    <3>4. \A p \in DOMAIN r : p \in DOMAIN q \/ p = Len(q) + 1
      BY <3>2, <3>3
    <3>5. Len(q) + 1 \in DOMAIN r /\ \A p \in DOMAIN q : p \in DOMAIN r
      BY <3>2, <3>3
    <3>6. \A p \in DOMAIN r : r[p].src = i /\ r[p].dst = j
      BY <2>2, <2>4, <3>2, <3>3, <3>4 DEF Picks
    <3>7. ASSUME NEW m \in 1 .. n, links[m].src = i /\ links[m].dst = j
          PROVE  \E p \in DOMAIN r : r[p] = links[m]
      <4>1. CASE m = n
        BY <3>2, <3>5, <4>1
      <4>2. CASE m \in 1 .. n - 1
        BY <2>2, <3>2, <3>3, <3>5, <3>7, <4>2 DEF Picks
      <4> QED
        BY <2>3, <4>1, <4>2
    <3>8. Picks(r, links, i, j, n)
      BY <3>2, <3>6, <3>7 DEF Picks
    <3> QED
      BY <1>5, <3>8 DEF r
  <2>5. CASE ~(links[n].src = i /\ links[n].dst = j)
    <3>1. r = q
      BY <1>6, <1>8, <2>5
    <3> HIDE DEF q, r
    <3>2. Picks(r, links, i, j, n)
      BY <2>2, <2>3, <2>5, <3>1 DEF Picks
    <3> QED
      BY <1>5, <3>2 DEF r
  <2> QED
    BY <2>4, <2>5
<1> QED
  BY <1>7, <1>8

(* The links of a pair are those of the description, and no others.        *)
LEMMA LinksBetweenHold ==
    ASSUME net \in Descriptions, NEW i, NEW j
    PROVE  /\ LinksBetween(i, j) \in Seq(LinkSet)
           /\ \A p \in DOMAIN LinksBetween(i, j) :
                LinksBetween(i, j)[p].src = i /\ LinksBetween(i, j)[p].dst = j
           /\ \A l \in LinkSet : l.src = i /\ l.dst = j =>
                \E p \in DOMAIN LinksBetween(i, j) : LinksBetween(i, j)[p] = l
<1>1. PICK F : AddedUpTo(Links, i, j, Len(Links), F) /\ LinksBetween(i, j) = F[Len(Links)]
  BY LinksBetweenIs
<1>2. Picks(LinksBetween(i, j), Links, i, j, Len(Links))
  BY <1>1, LinksHold, AddedPicks
<1> QED
  BY <1>2, LinksHold DEF Picks

-----------------------------------------------------------------------------
(* The links by kind                                                       *)

LEMMA ExtLinks ==
    ASSUME net \in Descriptions, NEW n \in DOMAIN net.ext
    PROVE  LET e == net.ext[n]
           IN  /\ e.node \in Nodes /\ e.router \in 0 .. net.routers - 1 /\ e.weight \in 0 .. Infinite
               /\ ExtIn(e) \in LinkSet /\ ExtOut(e) \in LinkSet
               /\ ExtIn(e).src = e.node /\ ExtIn(e).dst = RouterSwitch(e.router)
               /\ ExtIn(e).weight = e.weight /\ ExtIn(e).vnets = e.vnets
               /\ ExtIn(e).outDirn = "Local" /\ ExtIn(e).inDirn = "Local"
               /\ ExtOut(e).src = RouterSwitch(e.router) /\ ExtOut(e).dst = ReceiverOf(e.node)
               /\ ExtOut(e).weight = e.weight /\ ExtOut(e).vnets = e.vnets
               /\ ExtOut(e).outDirn = "Local" /\ ExtOut(e).inDirn = "Local"
<1>1. /\ net.ext[n].node \in Nodes /\ net.ext[n].router \in 0 .. net.routers - 1
      /\ net.ext[n].weight \in 0 .. Infinite
  BY DescriptionsAssumption DEF Nodes
<1>2. ExtIn(net.ext[n]) \in LinkSet /\ ExtOut(net.ext[n]) \in LinkSet
  BY DEF LinkSet
<1> QED
  BY <1>1, <1>2 DEF ExtIn, ExtOut

LEMMA IntLinks ==
    ASSUME net \in Descriptions, NEW n \in DOMAIN net.int
    PROVE  LET e == net.int[n]
           IN  /\ e.src \in 0 .. net.routers - 1 /\ e.dst \in 0 .. net.routers - 1
               /\ Internal(e) \in LinkSet
               /\ Internal(e).src = RouterSwitch(e.src) /\ Internal(e).dst = RouterSwitch(e.dst)
               /\ Internal(e).weight = e.weight /\ Internal(e).vnets = e.vnets
               /\ Internal(e).outDirn = e.outDirn /\ Internal(e).inDirn = e.inDirn
<1>1. net.int[n].src \in 0 .. net.routers - 1 /\ net.int[n].dst \in 0 .. net.routers - 1
  BY DescriptionsAssumption
<1>2. Internal(net.int[n]) \in LinkSet
  BY DEF LinkSet
<1> QED
  BY <1>1, <1>2 DEF Internal

(* Senders, receivers and routers have numbers of their own.               *)
LEMMA Numbers ==
    ASSUME net \in Descriptions
    PROVE  /\ \A n \in Nodes : n \in Nat /\ ~IsRouter(n) /\ ReceiverOf(n) \in Nat
                               /\ ~IsRouter(ReceiverOf(n)) /\ ReceiverOf(n) \notin Nodes
           /\ \A m, n \in Nodes : ReceiverOf(m) = ReceiverOf(n) => m = n
           /\ \A r \in 0 .. net.routers - 1 : /\ RouterSwitch(r) \in Nat /\ IsRouter(RouterSwitch(r))
                                              /\ RouterSwitch(r) - 2 * net.nodes = r
                                              /\ \A n \in Nodes : n < RouterSwitch(r)
                                                                  /\ ReceiverOf(n) < RouterSwitch(r)
<1> DEFINE k == net.nodes
<1>1. k \in Nat \ {0} /\ Nodes = 0 .. k - 1 /\ net.routers \in Nat
  BY DescriptionsAssumption DEF Nodes
<1> HIDE DEF k
<1>2. ASSUME NEW n \in 0 .. k - 1
      PROVE  /\ n \in Nat /\ ~(n >= 2 * k) /\ n + k \in Nat /\ ~(n + k >= 2 * k)
             /\ n + k \notin 0 .. k - 1
  BY <1>1
<1>3. ASSUME NEW r \in 0 .. net.routers - 1
      PROVE  /\ r + 2 * k \in Nat /\ r + 2 * k >= 2 * k /\ (r + 2 * k) - 2 * k = r
             /\ \A n \in 0 .. k - 1 : n < r + 2 * k /\ n + k < r + 2 * k
  BY <1>1
<1>4. \A m, n \in 0 .. k - 1 : m + k = n + k => m = n
  BY <1>1
<1> QED
  BY <1>1, <1>2, <1>3, <1>4 DEF k, ReceiverOf, IsRouter, RouterSwitch

(* What holds of every link.                                               *)
LEMMA LinksAllAre ==
    ASSUME net \in Descriptions, NEW l \in LinkSet
    PROVE  /\ l.src # l.dst /\ l.weight \in 0 .. Infinite /\ l.src \in Nat /\ l.dst \in Nat
           /\ l.src \in Nodes \/ IsRouter(l.src)
           /\ IsRouter(l.dst) \/ (IsRouter(l.src) /\ \E n \in Nodes : l.dst = ReceiverOf(n))
<1>1. PICK n \in DOMAIN Links : Links[n] = l
  BY LinksHold
<1>2. l.src # l.dst /\ l.weight \in 0 .. Infinite /\ l.src \in Nat /\ l.dst \in Nat
  BY <1>1, LinksAre
<1>3. /\ l.src \in Nodes \/ IsRouter(l.src)
      /\ IsRouter(l.dst) \/ (IsRouter(l.src) /\ \E m \in Nodes : l.dst = ReceiverOf(m))
  <2>1. CASE \E m \in DOMAIN net.ext : l = ExtIn(net.ext[m])
    BY <2>1, ExtLinks, Numbers
  <2>2. CASE \E m \in DOMAIN net.ext : l = ExtOut(net.ext[m])
    BY <2>2, ExtLinks, Numbers
  <2>3. CASE \E m \in DOMAIN net.int : l = Internal(net.int[m])
    BY <2>3, IntLinks, Numbers
  <2> QED
    BY <2>1, <2>2, <2>3 DEF LinkSet
<1> QED
  BY <1>2, <1>3

-----------------------------------------------------------------------------
(* The network as it is built                                              *)

(* Every end of a link, and every half of an interface, is a switch.       *)
EndsInv ==
    /\ \A l \in LinkSet : l.src \in Switches /\ l.dst \in Switches
    /\ \A n \in Nodes : n \in Switches /\ ReceiverOf(n) \in Switches

LEMMA InitEnds == Init => EndsInv
<1> SUFFICES ASSUME Init PROVE EndsInv
  OBVIOUS
<1> DEFINE E == UNION {{Links[n].src, Links[n].dst} : n \in DOMAIN Links}
           last == Max(E)
<1>1. net \in Descriptions /\ Switches = 0 .. last
  BY DEF Init, Switches
<1>2. LastSwitch \in Nat /\ E \in SUBSET Nat /\ \A x \in E : x <= LastSwitch
  BY <1>1, LinksAre
<1>3. \A l \in LinkSet : l.src \in E /\ l.dst \in E
  BY <1>1, LinksHold
<1>4. PICK n \in DOMAIN net.ext : TRUE
  <2>1. DOMAIN net.ext = 1 .. Len(net.ext) /\ Len(net.ext) \in Nat \ {0}
    BY <1>1, DescriptionsAssumption
  <2>2. 1 \in DOMAIN net.ext
    BY <2>1
  <2> QED
    BY <2>2
<1> DEFINE e == net.ext[n]
           r == RouterSwitch(e.router)
<1>5. e.router \in 0 .. net.routers - 1 /\ ExtIn(e) \in LinkSet /\ ExtIn(e).dst = r
  BY <1>1, ExtLinks
<1>6. r \in E /\ r \in Nat /\ \A m \in Nodes : m \in Nat /\ ReceiverOf(m) \in Nat
                                               /\ m < r /\ ReceiverOf(m) < r
  BY <1>1, <1>3, <1>5, Numbers
<1> HIDE DEF E, r, e
<1>7. last \in Nat /\ \A x \in E : x <= last
  <2>1. E # {}
    BY <1>6
  <2>2. last \in E /\ \A x \in E : x <= last
    BY ONLY <1>2, <2>1, MaxPicks
  <2> QED
    BY <1>2, <2>2
<1> HIDE DEF last
<1>8. \A l \in LinkSet : l.src \in 0 .. last /\ l.dst \in 0 .. last
  <2>1. \A x \in E : x \in 0 .. last
    BY <1>2, <1>7
  <2> QED
    BY <1>3, <2>1
<1>9. \A m \in Nodes : m \in 0 .. last /\ ReceiverOf(m) \in 0 .. last
  BY <1>6, <1>7
<1> QED
  BY <1>1, <1>8, <1>9 DEF EndsInv

-----------------------------------------------------------------------------
(* The weight of a link that carries a vnet, and the link of a weight.     *)
WeightsOfLinks(W, v) ==
    /\ \A l \in LinkSet : Supports(l, v) => W[l.src][l.dst] = l.weight
    /\ \A i, j \in Switches : i # j /\ W[i][j] < Infinite =>
          \E l \in LinkSet : l.src = i /\ l.dst = j /\ Supports(l, v) /\ l.weight = W[i][j]
WeightsInv ==
    phase \in {"relax", "make", "route"} => \A v \in net.vnets : WeightsOfLinks(weights[v], v)

LEMMA OneCarrier ==
    ASSUME net \in Descriptions, NEW i, NEW j, NEW v, ~(Cardinality(CarriersOf(i, j, v)) > 1),
           NEW m \in CarriersOf(i, j, v), NEW n \in CarriersOf(i, j, v)
    PROVE  m = n
<1> DEFINE C == CarriersOf(i, j, v)
<1>1. IsFiniteSet(C)
  <2>1. IsFiniteSet(1 .. Len(Links)) /\ DOMAIN Links = 1 .. Len(Links)
    BY LinksHold, FS_Interval
  <2>2. C \in SUBSET (1 .. Len(Links))
    BY <2>1 DEF CarriersOf
  <2> QED
    BY <2>1, <2>2, FS_Subset
<1> HIDE DEF C
<1>2. SUFFICES ASSUME m # n PROVE FALSE
  OBVIOUS
<1>3. IsFiniteSet({m}) /\ Cardinality({m}) = 1 /\ n \notin {m}
  BY <1>2, FS_Singleton
<1>4. Cardinality({m} \cup {n}) = 2
  <2>1. Cardinality({m} \cup {n}) = Cardinality({m}) + 1
    BY ONLY <1>3, FS_AddElement
  <2> QED
    BY ONLY <1>3, <2>1
<1>5. {m} \cup {n} \in SUBSET C
  BY DEF C
<1>6. Cardinality({m} \cup {n}) <= Cardinality(C) /\ Cardinality(C) \in Nat
  BY <1>1, <1>5, FS_Subset, FS_CardinalityType
<1> QED
  BY <1>4, <1>6 DEF C

LEMMA WeightsRead ==
    ASSUME SwitchesInv, EndsInv, ReadWeights, phase' = "relax", NEW v \in net.vnets
    PROVE  WeightsOfLinks(weights'[v], v)
<1> DEFINE W == weights'[v]
           weight(i, j) == IF CarriersOf(i, j, v) # {}
                           THEN Links[CHOOSE n \in CarriersOf(i, j, v) : TRUE].weight
                           ELSE IF i = j THEN 0 ELSE Infinite
<1>1. W = [i \in Switches |-> [j \in Switches |-> weight(i, j)]]
      /\ \A i, j \in Switches : ~(Cardinality(CarriersOf(i, j, v)) > 1)
  BY DEF ReadWeights
<1>2. ASSUME NEW i \in Switches, NEW j \in Switches PROVE W[i][j] = weight(i, j)
  BY <1>1
<1> HIDE DEF W
<1>3. net \in Descriptions
  BY DEF SwitchesInv
<1>4. ASSUME NEW l \in LinkSet, Supports(l, v) PROVE W[l.src][l.dst] = l.weight
  <2>1. PICK n \in DOMAIN Links : Links[n] = l
    BY <1>3, LinksHold
  <2> DEFINE C == CarriersOf(l.src, l.dst, v)
             m == CHOOSE m \in C : TRUE
  <2>2. n \in C
    BY <1>4, <2>1 DEF CarriersOf
  <2>3. m \in C
    BY <2>2
  <2>4. l.src \in Switches /\ l.dst \in Switches
    BY DEF EndsInv
  <2>5. ~(Cardinality(C) > 1)
    BY <1>1, <2>4
  <2>6. m = n
    BY <1>3, <2>2, <2>3, <2>5, OneCarrier
  <2>7. W[l.src][l.dst] = Links[m].weight
    BY <1>2, <2>2, <2>4
  <2> QED
    BY <2>1, <2>6, <2>7
<1>5. ASSUME NEW i \in Switches, NEW j \in Switches, i # j, W[i][j] < Infinite
      PROVE  \E l \in LinkSet : l.src = i /\ l.dst = j /\ Supports(l, v) /\ l.weight = W[i][j]
  <2> DEFINE C == CarriersOf(i, j, v)
             m == CHOOSE m \in C : TRUE
  <2>1. W[i][j] = weight(i, j)
    BY <1>2
  <2>2. C # {}
    BY <1>5, <2>1, InfiniteAssumption
  <2>3. m \in C /\ W[i][j] = Links[m].weight
    BY <2>1, <2>2
  <2> HIDE DEF m
  <2>4. /\ m \in DOMAIN Links /\ Links[m].src = i /\ Links[m].dst = j /\ Supports(Links[m], v)
    BY <2>3 DEF CarriersOf
  <2>5. Links[m] \in LinkSet
    BY <1>3, <2>4, LinksHold
  <2> QED
    BY <2>3, <2>4, <2>5
<1> QED
  BY <1>4, <1>5 DEF WeightsOfLinks, W

-----------------------------------------------------------------------------
(* The ports                                                               *)

PortSet == [link : LinkSet, routes : [net.vnets -> SUBSET Nodes]]
Real(i, j) == \E v \in net.vnets : IsRealLink(i, j, v)

(* A port has the routes of its pair of switches.                          *)
PortsInv ==
    /\ outports \in [Switches -> Seq(PortSet)]
    /\ phase \in {"links", "relax"} => \A s \in Switches : outports[s] = << >>
    /\ phase \in {"make", "route"} =>
         \A s \in Switches : \A p \in DOMAIN outports[s] :
            /\ outports[s][p].link.src = s
            /\ outports[s][p].routes = RoutesThrough(s, outports[s][p].link.dst)

(* Each link of the first k pairs has its port.                            *)
MadeUpTo(k) ==
    \A l \in LinkSet : l.src * NumSwitches + l.dst < k /\ Real(l.src, l.dst) =>
        \E p \in DOMAIN outports[l.src] : outports[l.src][p].link = l
MadeInv ==
    /\ phase = "make" => /\ step \in Nat /\ step < NumSwitches * NumSwitches
                         /\ MadeUpTo(step)
    /\ phase = "route" => MadeUpTo(NumSwitches * NumSwitches)

BuildInv == TopologyInv /\ EndsInv /\ WeightsInv /\ PortsInv /\ MadeInv

LEMMA BuildInit == InitRouting => BuildInv
<1> SUFFICES ASSUME InitRouting PROVE BuildInv
  OBVIOUS
<1>1. TopologyInv /\ EndsInv
  BY InvInit, InitEnds DEF InitRouting
<1>2. phase = "links" /\ \A s \in Switches : outports[s] = << >>
  BY DEF InitRouting, Init, Switches
<1>3. outports \in [Switches -> Seq(PortSet)]
  <2>1. << >> \in Seq(PortSet)
    OBVIOUS
  <2>2. outports = [s \in Switches |-> << >>]
    BY DEF InitRouting, Init, Switches
  <2> QED
    BY <2>1, <2>2
<1> QED
  BY <1>1, <1>2, <1>3 DEF BuildInv, WeightsInv, PortsInv, MadeInv

(* Nothing but the phase and the tables changes.                           *)
LEMMA SameLinks ==
    ASSUME net' = net
    PROVE  /\ Nodes' = Nodes /\ LinkSet' = LinkSet /\ PortSet' = PortSet
           /\ \A n : ReceiverOf(n)' = ReceiverOf(n)
<1>1. \A e : /\ ExtIn(e)' = ExtIn(e) /\ ExtOut(e)' = ExtOut(e) /\ Internal(e)' = Internal(e)
  BY DEF ExtIn, ExtOut, Internal, EndAt, RouterSwitch, ReceiverOf
<1> QED
  BY <1>1 DEF Nodes, LinkSet, PortSet, ReceiverOf

LEMMA BuildReads == ASSUME BuildInv, ReadWeights PROVE BuildInv'
<1>1. /\ UNCHANGED <<net, step, outports>> /\ phase' \in {"fatal", "relax"} /\ phase = "links"
      /\ TopologyInv
  BY DEF ReadWeights, BuildInv
<1>2. TopologyInv'
  BY <1>1, InvReadWeights
<1>3. Switches' = Switches
  BY <1>1 DEF Switches
<1>4. EndsInv'
  BY <1>1, <1>3, SameLinks DEF BuildInv, EndsInv
<1>5. WeightsInv'
  <2> SUFFICES ASSUME phase' = "relax", NEW v \in net.vnets PROVE WeightsOfLinks(weights[v], v)'
    BY <1>1 DEF WeightsInv
  <2>1. WeightsOfLinks(weights'[v], v)
    BY WeightsRead DEF BuildInv, TopologyInv
  <2>2. LinkSet' = LinkSet /\ weights[v]' = weights'[v]
    BY <1>1, SameLinks
  <2> QED
    BY <1>3, <2>1, <2>2 DEF WeightsOfLinks, Supports
<1>6. PortsInv'
  BY <1>1, <1>3, SameLinks DEF BuildInv, PortsInv
<1>7. MadeInv'
  BY <1>1 DEF MadeInv
<1> QED
  BY <1>2, <1>4, <1>5, <1>6, <1>7 DEF BuildInv

LEMMA BuildExtends == ASSUME BuildInv, ExtendRow PROVE BuildInv'
<1>1. /\ UNCHANGED <<net, weights, outports>> /\ phase' \in {"relax", "make"} /\ phase = "relax"
      /\ TopologyInv /\ (phase' = "make" => step' = 0)
  BY DEF ExtendRow, NextPass, BuildInv
<1>2. TopologyInv'
  BY <1>1, InvExtendRow
<1>3. Switches' = Switches /\ NumSwitches' = NumSwitches
  BY <1>1 DEF Switches, NumSwitches
<1>4. EndsInv'
  BY <1>1, <1>3, SameLinks DEF BuildInv, EndsInv
<1>5. WeightsInv'
  <2>1. LinkSet' = LinkSet
    BY <1>1, SameLinks
  <2>2. \A v : WeightsOfLinks(weights[v], v)' <=> WeightsOfLinks(weights[v], v)
    BY <1>1, <1>3, <2>1 DEF WeightsOfLinks, Supports
  <2> QED
    BY <1>1, <2>2 DEF BuildInv, WeightsInv
<1>6. PortsInv'
  <2>1. \A s \in Switches : outports[s] = << >>
    BY <1>1 DEF BuildInv, PortsInv
  <2> QED
    BY <1>1, <1>3, <2>1, SameLinks DEF BuildInv, PortsInv
<1>7. MadeInv'
  <2> SUFFICES ASSUME phase' = "make"
               PROVE  /\ step' \in Nat /\ step' < NumSwitches * NumSwitches /\ MadeUpTo(0)'
    BY <1>1, <1>3 DEF MadeInv
  <2>1. NumSwitches \in Nat \ {0} /\ net \in Descriptions
    BY <1>1 DEF TopologyInv, SwitchesInv
  <2>2. NumSwitches * NumSwitches \in Nat \ {0}
    BY <2>1
  <2>3. \A l \in LinkSet : ~(l.src * NumSwitches + l.dst < 0)
    <3> SUFFICES ASSUME NEW l \in LinkSet PROVE ~(l.src * NumSwitches + l.dst < 0)
      OBVIOUS
    <3>1. l.src \in Nat /\ l.dst \in Nat
      BY <2>1, LinksAllAre
    <3>2. l.src * NumSwitches \in Nat
      BY <2>1, <3>1
    <3> QED
      BY <3>1, <3>2
  <2> QED
    BY <1>1, <1>3, <2>2, <2>3, SameLinks DEF MadeUpTo
<1> QED
  BY <1>2, <1>4, <1>5, <1>6, <1>7 DEF BuildInv

(* The tables of a pair stay while links are made.                         *)
LEMMA SameTables ==
    ASSUME UNCHANGED <<net, weights, dist>>
    PROVE  /\ \A i, j : RoutesThrough(i, j)' = RoutesThrough(i, j)
           /\ \A i, j : Real(i, j)' = Real(i, j)
BY DEF RoutesThrough, Real, IsRealLink, LinkIsShortestPathToNode, Nodes, ReceiverOf

(* A new port is one of a link of the pair, and each link of it has one.   *)
PortsAdded(r, q, i, j) ==
    /\ r \in Seq(PortSet)
    /\ \A p \in DOMAIN r : \/ \E k \in DOMAIN q : r[p] = q[k]
                           \/ /\ r[p].link.src = i /\ r[p].link.dst = j
                              /\ r[p].routes = RoutesThrough(i, j)
    /\ \A k \in DOMAIN q : \E p \in DOMAIN r : r[p] = q[k]
    /\ \A l \in LinkSet : l.src = i /\ l.dst = j => \E p \in DOMAIN r : r[p].link = l

LEMMA NewPorts ==
    ASSUME net \in Descriptions, NEW i, NEW j, NEW q \in Seq(PortSet), NEW ports,
           ports = [n \in DOMAIN LinksBetween(i, j) |->
                      [link |-> LinksBetween(i, j)[n], routes |-> RoutesThrough(i, j)]]
    PROVE  PortsAdded(q \o ports, q, i, j)
<1> DEFINE B == LinksBetween(i, j)
           R == RoutesThrough(i, j)
           r == q \o ports
<1>1. /\ B \in Seq(LinkSet) /\ \A p \in DOMAIN B : B[p].src = i /\ B[p].dst = j
      /\ \A l \in LinkSet : l.src = i /\ l.dst = j => \E p \in DOMAIN B : B[p] = l
  BY LinksBetweenHold
<1>2. R \in [net.vnets -> SUBSET Nodes]
  BY DEF RoutesThrough
<1> HIDE DEF R
<1>3. /\ DOMAIN ports = DOMAIN B
      /\ \A n \in DOMAIN B : ports[n] = [link |-> B[n], routes |-> R]
  BY DEF R
<1> HIDE DEF B
<1>4. ports \in Seq(PortSet)
  <2>1. Len(B) \in Nat /\ DOMAIN B = 1 .. Len(B) /\ \A n \in 1 .. Len(B) : B[n] \in LinkSet
    BY <1>1, LengthOf
  <2>2. \A n \in 1 .. Len(B) : [link |-> B[n], routes |-> R] \in PortSet
    BY <1>2, <2>1 DEF PortSet
  <2>3. ports = [n \in 1 .. Len(B) |-> [link |-> B[n], routes |-> R]]
    BY <2>1 DEF B, R
  <2> QED
    BY <2>1, <2>2, <2>3
<1>5. r \in Seq(PortSet) /\ Holds(r, q) /\ Holds(r, ports) /\ FromBoth(r, q, ports)
  BY ONLY <1>4, q \in Seq(PortSet), ConcatHolds
<1> HIDE DEF r
<1>6. \A k \in DOMAIN q : \E p \in DOMAIN r : r[p] = q[k]
  BY <1>5 DEF Holds
<1>7. ASSUME NEW l \in LinkSet, l.src = i, l.dst = j PROVE \E p \in DOMAIN r : r[p].link = l
  <2>1. PICK n \in DOMAIN B : B[n] = l
    BY <1>1, <1>7
  <2>2. ports[n].link = l /\ n \in DOMAIN ports
    BY <1>3, <2>1
  <2> QED
    BY <1>5, <2>2 DEF Holds
<1>8. ASSUME NEW p \in DOMAIN r
      PROVE  \/ \E k \in DOMAIN q : r[p] = q[k]
             \/ r[p].link.src = i /\ r[p].link.dst = j /\ r[p].routes = R
  <2>1. ASSUME NEW n \in DOMAIN ports, r[p] = ports[n]
        PROVE  r[p].link.src = i /\ r[p].link.dst = j /\ r[p].routes = R
    <3>1. n \in DOMAIN B /\ r[p] = [link |-> B[n], routes |-> R]
      BY <1>3, <2>1
    <3>2. r[p].link = B[n] /\ r[p].routes = R
      BY <3>1
    <3> QED
      BY <1>1, <3>1, <3>2
  <2> QED
    BY <1>5, <2>1 DEF FromBoth
<1> QED
  BY <1>5, <1>6, <1>7, <1>8 DEF r, R, PortsAdded

LEMMA BuildMakes == ASSUME BuildInv, MakeLinks PROVE BuildInv'
<1> DEFINE N == NumSwitches
           i == step \div N
           j == step % N
           between == LinksBetween(i, j)
           ports == [n \in DOMAIN between |-> [link |-> between[n], routes |-> RoutesThrough(i, j)]]
<1>1. /\ TopologyInv /\ EndsInv /\ WeightsInv /\ PortsInv /\ MadeInv
      /\ phase = "make" /\ UNCHANGED <<net, weights, dist>>
      /\ \/ /\ ~Real(i, j) /\ NextPass(N * N, "route") /\ UNCHANGED outports
         \/ /\ NextPass(N * N, "route") /\ outports' = [outports EXCEPT ![i] = @ \o ports]
         \/ phase' = "fatal" /\ UNCHANGED <<step, outports>>
  BY DEF MakeLinks, BuildInv, Real
<1>2. /\ net \in Descriptions /\ N \in Nat \ {0} /\ Switches = 0 .. N - 1
      /\ step \in 0 .. N * N - 1
  <2>1. /\ net \in Descriptions /\ N \in Nat \ {0} /\ Switches = 0 .. N - 1
        /\ step \in Nat /\ step < N * N
    BY <1>1 DEF TopologyInv, SwitchesInv, MadeInv
  <2>2. N * N \in Nat
    BY <2>1
  <2> HIDE DEF N
  <2> QED
    BY <2>1, <2>2
<1>3. i \in 0 .. N - 1 /\ j \in 0 .. N - 1 /\ step = i * N + j /\ step \in Nat
  <2>1. step \in Nat /\ N \in Nat \ {0}
    BY <1>2
  <2>2. i \in 0 .. N - 1
    BY <1>2, DivBelow
  <2>3. j \in 0 .. N - 1 /\ step = i * N + j
    BY <2>1, DivAndMod
  <2> QED
    BY <2>1, <2>2, <2>3
<1>4. TopologyInv'
  BY <1>1, InvMakeLinks
<1> HIDE DEF N, i, j
<1>5. outports \in [Switches -> Seq(PortSet)]
  BY <1>1 DEF PortsInv
<1>6. Switches' = Switches /\ N' = N
  <2>1. DOMAIN outports' = DOMAIN outports
    BY <1>1
  <2> QED
    BY <2>1 DEF N, Switches, NumSwitches
<1>7. EndsInv' /\ WeightsInv'
  <2>1. LinkSet' = LinkSet /\ Nodes' = Nodes /\ \A n : ReceiverOf(n)' = ReceiverOf(n)
    BY <1>1, SameLinks
  <2>2. EndsInv'
    BY <1>1, <1>6, <2>1 DEF EndsInv
  <2>3. \A v \in net.vnets : WeightsOfLinks(weights[v], v)
    BY <1>1 DEF WeightsInv
  <2>4. \A v : WeightsOfLinks(weights[v], v)' <=> WeightsOfLinks(weights[v], v)
    BY <1>1, <1>6, <2>1 DEF WeightsOfLinks, Supports
  <2>5. WeightsInv'
    BY <1>1, <2>3, <2>4 DEF WeightsInv
  <2> QED
    BY <2>2, <2>5
<1>8. phase' # "fatal" => phase' \in {"make", "route"} /\ NextPass(N * N, "route")
  BY <1>1 DEF NextPass
<1>9. ASSUME NEW l \in LinkSet, l.src * N + l.dst < step + 1
      PROVE  l.src * N + l.dst < step \/ (l.src = i /\ l.dst = j)
  <2>1. l.src \in Nat /\ l.dst \in 0 .. N - 1
    BY <1>1, <1>2, LinksAllAre DEF EndsInv
  <2>2. l.src * N \in Nat
    BY <1>2, <2>1
  <2>3. CASE l.src * N + l.dst = step
    <3>1. step \div N = l.src /\ step % N = l.dst
      BY <1>2, <1>3, <2>1, <2>3, OnlyDivAndMod
    <3> QED
      BY <3>1 DEF i, j
  <2>4. CASE l.src * N + l.dst # step
    <3> DEFINE a == l.src * N
    <3> HIDE DEF a
    <3>1. a \in Nat /\ l.dst \in Nat /\ a + l.dst # step /\ a + l.dst < step + 1
      BY <1>9, <2>1, <2>2, <2>4 DEF a
    <3>2. a + l.dst < step
      BY <1>3, <3>1
    <3> QED
      BY <3>2 DEF a
  <2> QED
    BY <2>3, <2>4
<1>10. /\ LinkSet' = LinkSet /\ PortSet' = PortSet
       /\ \A a, b : RoutesThrough(a, b)' = RoutesThrough(a, b) /\ Real(a, b)' = Real(a, b)
  BY <1>1, SameLinks, SameTables
<1>11. ASSUME phase' # "fatal",
              \A l \in LinkSet : l.src * N + l.dst < step + 1 /\ Real(l.src, l.dst) =>
                \E p \in DOMAIN outports'[l.src] : outports'[l.src][p].link = l
       PROVE  MadeInv'
  <2>1. CASE step + 1 = N * N
    <3>1. phase' = "route"
      BY <1>8, <1>11, <2>1 DEF NextPass
    <3> QED
      BY <1>6, <1>10, <1>11, <2>1, <3>1 DEF MadeInv, MadeUpTo, N
  <2>2. CASE step + 1 # N * N
    <3>1. phase' = "make" /\ step' = step + 1
      BY <1>1, <1>8, <1>11, <2>2 DEF NextPass
    <3>2. step + 1 \in Nat /\ step + 1 < N * N
      <4>1. N * N \in Nat
        BY <1>2
      <4> DEFINE M == N * N
      <4> HIDE DEF M
      <4>2. M \in Nat /\ step \in 0 .. M - 1 /\ step + 1 # M
        BY <1>2, <2>2, <4>1 DEF M
      <4>3. step + 1 \in Nat /\ step + 1 < M
        BY <4>2
      <4> QED
        BY <4>3 DEF M
    <3> QED
      BY <1>6, <1>10, <1>11, <3>1, <3>2 DEF MadeInv, MadeUpTo, N
  <2> QED
    BY <2>1, <2>2
<1>12. ASSUME NEW l \in LinkSet, l.src * N + l.dst < step, Real(l.src, l.dst)
       PROVE  \E p \in DOMAIN outports[l.src] : outports[l.src][p].link = l
  BY <1>1, <1>12 DEF MadeInv, MadeUpTo, N
<1>13. CASE phase' = "fatal" /\ UNCHANGED outports
  <2>1. PortsInv' /\ MadeInv'
    BY <1>1, <1>6, <1>10, <1>13 DEF PortsInv, MadeInv
  <2> QED
    BY <1>4, <1>7, <2>1 DEF BuildInv
<1>14. CASE ~Real(i, j) /\ NextPass(N * N, "route") /\ UNCHANGED outports
  <2>1. phase' \in {"make", "route"}
    BY <1>1, <1>14 DEF NextPass
  <2>2. PortsInv'
    BY <1>1, <1>6, <1>10, <1>14, <2>1 DEF PortsInv
  <2>3. ASSUME NEW l \in LinkSet, l.src * N + l.dst < step + 1, Real(l.src, l.dst)
        PROVE  \E p \in DOMAIN outports'[l.src] : outports'[l.src][p].link = l
    BY <1>9, <1>12, <1>14, <2>3
  <2>4. MadeInv'
    BY <1>11, <2>1, <2>3
  <2> QED
    BY <1>4, <1>7, <2>2, <2>4 DEF BuildInv
<1>15. CASE NextPass(N * N, "route") /\ outports' = [outports EXCEPT ![i] = @ \o ports]
  <2> DEFINE q == outports[i]
             r == q \o ports
  <2>1. phase' \in {"make", "route"}
    BY <1>1, <1>15 DEF NextPass
  <2>2. i \in Switches /\ q \in Seq(PortSet)
    BY <1>2, <1>3, <1>5
  <2>3. PortsAdded(r, q, i, j)
    BY <1>2, <2>2, NewPorts
  <2>4. outports'[i] = r /\ \A s \in Switches : s # i => outports'[s] = outports[s]
    BY <1>5, <1>15, <2>2
  <2>5. outports' \in [Switches -> Seq(PortSet)]
    <3>1. r \in Seq(PortSet)
      BY <2>3 DEF PortsAdded
    <3> QED
      BY <1>5, <1>15, <2>2, <3>1
  <2> HIDE DEF q, r
  <2>6. ASSUME NEW s \in Switches, NEW p \in DOMAIN outports'[s]
        PROVE  /\ outports'[s][p].link.src = s
               /\ outports'[s][p].routes = RoutesThrough(s, outports'[s][p].link.dst)
    <3>1. \A k \in DOMAIN outports[s] :
             /\ outports[s][k].link.src = s
             /\ outports[s][k].routes = RoutesThrough(s, outports[s][k].link.dst)
      BY <1>1 DEF PortsInv
    <3>2. CASE s # i
      BY <2>4, <2>6, <3>1, <3>2
    <3>3. CASE s = i
      BY <2>3, <2>4, <2>6, <3>1, <3>3 DEF q, PortsAdded
    <3> QED
      BY <3>2, <3>3
  <2>7. PortsInv'
    BY <1>6, <1>10, <2>1, <2>5, <2>6 DEF PortsInv
  <2>8. ASSUME NEW l \in LinkSet, l.src * N + l.dst < step + 1, Real(l.src, l.dst)
        PROVE  \E p \in DOMAIN outports'[l.src] : outports'[l.src][p].link = l
    <3>1. l.src \in Switches
      BY <1>1 DEF EndsInv
    <3>2. CASE l.src = i /\ l.dst = j
      BY <2>3, <2>4, <3>2 DEF PortsAdded
    <3>3. CASE l.src * N + l.dst < step
      <4>1. PICK p \in DOMAIN outports[l.src] : outports[l.src][p].link = l
        BY <1>12, <2>8, <3>3
      <4>2. CASE l.src # i
        BY <2>4, <3>1, <4>1, <4>2
      <4>3. CASE l.src = i
        BY <2>3, <2>4, <4>1, <4>3 DEF q, PortsAdded
      <4> QED
        BY <4>2, <4>3
    <3> QED
      BY <1>9, <2>8, <3>2, <3>3
  <2>9. MadeInv'
    BY <1>11, <2>1, <2>8
  <2> QED
    BY <1>4, <1>7, <2>7, <2>9 DEF BuildInv
<1> QED
  BY <1>1, <1>13, <1>14, <1>15

LEMMA BuildStep == BuildInv /\ [Next]_routingVars => BuildInv'
<1> SUFFICES ASSUME BuildInv, [Next]_routingVars PROVE BuildInv'
  OBVIOUS
<1>1. CASE Construct
  BY <1>1, BuildReads, BuildExtends, BuildMakes DEF Construct, Build
<1>2. ASSUME UNCHANGED vars PROVE BuildInv'
  <2>1. UNCHANGED <<net, phase, step, weights, dist, outports>>
    BY <1>2 DEF vars
  <2>2. TopologyInv'
    BY InvStep DEF BuildInv
  <2>3. /\ Switches' = Switches /\ NumSwitches' = NumSwitches
        /\ LinkSet' = LinkSet /\ PortSet' = PortSet /\ Nodes' = Nodes
        /\ \A n : ReceiverOf(n)' = ReceiverOf(n)
        /\ \A a, b : RoutesThrough(a, b)' = RoutesThrough(a, b) /\ Real(a, b)' = Real(a, b)
    BY <2>1, SameLinks, SameTables DEF Switches, NumSwitches
  <2>4. EndsInv'
    BY <2>3 DEF BuildInv, EndsInv
  <2>5. \A v : WeightsOfLinks(weights[v], v)' <=> WeightsOfLinks(weights[v], v)
    BY <2>1, <2>3 DEF WeightsOfLinks, Supports
  <2>6. WeightsInv'
    BY <2>1, <2>5 DEF BuildInv, WeightsInv
  <2>7. PortsInv'
    BY <2>1, <2>3 DEF BuildInv, PortsInv
  <2>8. MadeInv'
    BY <2>1, <2>3 DEF BuildInv, MadeInv, MadeUpTo
  <2> QED
    BY <2>2, <2>4, <2>6, <2>7, <2>8 DEF BuildInv
<1>3. CASE ~Construct
  <2>1. UNCHANGED vars
    BY <1>3 DEF Next, SendPacket, Hop, Deliver, routingVars
  <2> QED
    BY <1>2, <2>1
<1> QED
  BY <1>1, <1>3

-----------------------------------------------------------------------------
(* Distances and the ports that lead on, once the network is built         *)

AllRoutable == \A d \in Descriptions : Routable(d)

(* Finished tables, and the hypothesis for the network at hand.            *)
Ready == BuildInv /\ phase = "route" /\ Routable(net)

LEMMA ReadyIs ==
    ASSUME Ready, NEW v \in net.vnets
    PROVE  /\ net \in Descriptions /\ weights[v] \in Table(Switches) /\ dist[v] \in Table(Switches)
           /\ WeightsOfLinks(weights[v], v) /\ Direct(Switches, weights[v], dist[v])
           /\ \A i \in Switches : dist[v][i][i] = 0
           /\ \A i, j \in Switches : dist[v][i][j] = Best(Switches, weights[v], dist[v], i, j)
<1>1. /\ SwitchesInv /\ weights[v] \in Table(Switches) /\ dist[v] \in Table(Switches) /\ Finished(v)
      /\ WeightsOfLinks(weights[v], v)
  BY DEF Ready, BuildInv, TopologyInv, TablesInv, MakeInv, WeightsInv
<1>2. /\ Sound(Switches, weights[v], dist[v]) /\ \A m \in Switches : m < NumSwitches
      /\ net \in Descriptions
  BY <1>1 DEF Finished, SwitchesInv
<1>3. \A m \in Switches : Through(Switches, dist[v], m)
  BY <1>1, <1>2 DEF Finished, Closed
<1>4. \A i, j \in Switches : dist[v][i][j] = Best(Switches, weights[v], dist[v], i, j)
  BY <1>1, <1>2, <1>3, SoundIsLeast
<1> QED
  BY <1>1, <1>2, <1>4 DEF Sound, Zeros

(* Whatever is reachable is reached over a first link.                     *)
LEMMA NextHop ==
    ASSUME Ready, NEW v \in net.vnets, NEW i \in Switches, NEW j \in Switches, i # j,
           dist[v][i][j] < Infinite
    PROVE  \E k \in Switches \ {i} : /\ weights[v][i][k] + dist[v][k][j] = dist[v][i][j]
                                     /\ weights[v][i][k] < Infinite
<1> DEFINE W == weights[v]
           D == dist[v]
           R == {Infinite} \cup {W[i][k] + D[k][j] : k \in Switches \ {i}}
<1>1. W \in Table(Switches) /\ D \in Table(Switches) /\ D[i][j] = Best(Switches, W, D, i, j)
  BY ReadyIs
<1>2. D[i][j] = Min(R)
  BY <1>1 DEF Best
<1>3. \A k \in Switches : W[i][k] \in 0 .. Infinite /\ D[k][j] \in 0 .. Infinite
  BY <1>1 DEF Table
<1> HIDE DEF W, D
<1>4. R \in SUBSET Nat /\ R # {}
  BY <1>3, InfiniteAssumption
<1>5. Min(R) \in R
  BY <1>4, MinPicks
<1>6. PICK k \in Switches \ {i} : D[i][j] = W[i][k] + D[k][j]
  <2>1. D[i][j] < Infinite
    BY DEF D
  <2>2. D[i][j] # Infinite
    BY <2>1, InfiniteAssumption
  <2>3. D[i][j] \in R
    BY <1>2, <1>5
  <2> QED
    BY <2>2, <2>3
<1>7. W[i][k] < Infinite
  <2> DEFINE a == W[i][k]
             b == D[k][j]
  <2>1. a \in Nat /\ b \in Nat /\ a + b < Infinite
    BY <1>3, <1>6, InfiniteAssumption DEF D
  <2> HIDE DEF a, b
  <2>2. a < Infinite
    BY <2>1, InfiniteAssumption
  <2> QED
    BY <2>2 DEF a
<1> QED
  BY <1>6, <1>7 DEF W, D

(* Every link weighs something, and one that carries a vnet and is not     *)
(* infinitely far has a port with the routes of its pair.                  *)
LEMMA WeightsArePositive ==
    ASSUME net \in Descriptions, Routable(net), NEW l \in LinkSet
    PROVE  l.weight > 0
<1>1. CASE \E m \in DOMAIN net.ext : l = ExtIn(net.ext[m])
  BY <1>1, ExtLinks DEF Routable, WeightsCount
<1>2. CASE \E m \in DOMAIN net.ext : l = ExtOut(net.ext[m])
  BY <1>2, ExtLinks DEF Routable, WeightsCount
<1>3. CASE \E m \in DOMAIN net.int : l = Internal(net.int[m])
  BY <1>3, IntLinks DEF Routable, WeightsCount
<1> QED
  BY <1>1, <1>2, <1>3 DEF LinkSet

LEMMA LinkHasPort ==
    ASSUME Ready, NEW v \in net.vnets, NEW l \in LinkSet, Supports(l, v), l.weight < Infinite
    PROVE  /\ l.src \in Switches /\ l.dst \in Switches
           /\ weights[v][l.src][l.dst] = l.weight /\ IsRealLink(l.src, l.dst, v)
           /\ \E p \in DOMAIN outports[l.src] :
                /\ outports[l.src][p].link = l
                /\ outports[l.src][p].routes = RoutesThrough(l.src, l.dst)
<1>1. /\ net \in Descriptions /\ weights[v][l.src][l.dst] = l.weight
      /\ NumSwitches \in Nat \ {0} /\ Switches = 0 .. NumSwitches - 1
      /\ l.src \in Switches /\ l.dst \in Switches
  BY ReadyIs DEF WeightsOfLinks, Ready, BuildInv, EndsInv, TopologyInv, SwitchesInv
<1>2. l.weight > 0 /\ l.weight \in 0 .. Infinite
  BY <1>1, WeightsArePositive, LinksAllAre DEF Ready
<1>3. IsRealLink(l.src, l.dst, v) /\ Real(l.src, l.dst)
  BY <1>1, <1>2, InfiniteAssumption DEF IsRealLink, Real
<1>4. l.src * NumSwitches + l.dst < NumSwitches * NumSwitches
  <2>1. NumSwitches \in Nat /\ l.src \in 0 .. NumSwitches - 1 /\ l.dst \in 0 .. NumSwitches - 1
    BY <1>1
  <2>2. l.src * NumSwitches + l.dst \in 0 .. NumSwitches * NumSwitches - 1
    BY <1>1, <2>1, SumBelow
  <2>3. NumSwitches * NumSwitches \in Nat
    BY <1>1
  <2> QED
    BY <2>2, <2>3
<1>5. PICK p \in DOMAIN outports[l.src] : outports[l.src][p].link = l
  BY <1>3, <1>4 DEF Ready, BuildInv, MadeInv, MadeUpTo
<1>6. outports[l.src][p].routes = RoutesThrough(l.src, l.dst)
  BY <1>1, <1>5 DEF Ready, BuildInv, PortsInv
<1> QED
  BY <1>1, <1>3, <1>5, <1>6

(* What a port is.                                                         *)
LEMMA PortIs ==
    ASSUME Ready, NEW i \in Switches, NEW p \in DOMAIN outports[i]
    PROVE  /\ p \in Nat /\ DOMAIN outports[i] = 1 .. Len(outports[i]) /\ Len(outports[i]) \in Nat
           /\ outports[i][p].link \in LinkSet /\ outports[i][p].link.src = i
           /\ outports[i][p].routes = RoutesThrough(i, outports[i][p].link.dst)
           /\ outports[i][p].link.dst \in Switches
<1>1. /\ outports[i] \in Seq(PortSet) /\ outports[i][p].link.src = i
      /\ outports[i][p].routes = RoutesThrough(i, outports[i][p].link.dst)
  BY DEF Ready, BuildInv, PortsInv
<1>2. /\ DOMAIN outports[i] = 1 .. Len(outports[i]) /\ Len(outports[i]) \in Nat
      /\ outports[i][p] \in PortSet
  BY <1>1, LengthOf
<1>3. outports[i][p].link \in LinkSet
  BY <1>2 DEF PortSet
<1> QED
  BY <1>1, <1>2, <1>3 DEF Ready, BuildInv, EndsInv

(* A switch from which a node is reachable has a port that leads there,    *)
(* and every port that leads there brings it closer by a link's weight.    *)
LEMMA PortsLeadOn ==
    ASSUME Ready, NEW v \in net.vnets, NEW d \in Nodes, NEW i \in Switches, i # ReceiverOf(d),
           dist[v][i][ReceiverOf(d)] < Infinite
    PROVE  /\ PortsTo(i, v, d) # {}
           /\ \A p \in PortsTo(i, v, d) :
                LET k == outports[i][p].link.dst
                IN  /\ weights[v][i][k] + dist[v][k][ReceiverOf(d)] = dist[v][i][ReceiverOf(d)]
                    /\ IsRealLink(i, k, v) /\ dist[v][k][ReceiverOf(d)] < Infinite
<1> DEFINE R == ReceiverOf(d)
<1>1. /\ R \in Switches /\ net \in Descriptions /\ weights[v] \in Table(Switches)
      /\ dist[v] \in Table(Switches) /\ WeightsOfLinks(weights[v], v)
  BY ReadyIs DEF Ready, BuildInv, EndsInv
<1>2. PICK k \in Switches \ {i} : /\ weights[v][i][k] + dist[v][k][R] = dist[v][i][R]
                                  /\ weights[v][i][k] < Infinite
  BY <1>1, NextHop
<1>3. PICK l \in LinkSet : /\ l.src = i /\ l.dst = k /\ Supports(l, v)
                           /\ l.weight = weights[v][i][k]
  BY <1>1, <1>2 DEF WeightsOfLinks
<1>4. PICK p \in DOMAIN outports[i] : /\ outports[i][p].link = l
                                      /\ outports[i][p].routes = RoutesThrough(i, k)
                                      /\ IsRealLink(i, k, v)
  BY <1>2, <1>3, LinkHasPort
<1>5. d \in RoutesThrough(i, k)[v]
  BY <1>2, <1>4 DEF RoutesThrough, LinkIsShortestPathToNode
<1>6. p \in PortsTo(i, v, d)
  BY <1>4, <1>5 DEF PortsTo
<1>7. ASSUME NEW q \in PortsTo(i, v, d), NEW n, n = outports[i][q].link.dst
      PROVE  /\ weights[v][i][n] + dist[v][n][R] = dist[v][i][R]
             /\ IsRealLink(i, n, v) /\ dist[v][n][R] < Infinite
  <2>1. /\ q \in DOMAIN outports[i] /\ d \in RoutesThrough(i, n)[v] /\ n \in Switches
    BY <1>7, PortIs DEF PortsTo
  <2>2. IsRealLink(i, n, v) /\ weights[v][i][n] + dist[v][n][R] = dist[v][i][R]
    BY <2>1 DEF RoutesThrough, LinkIsShortestPathToNode
  <2>3. weights[v][i][n] \in 0 .. Infinite /\ dist[v][n][R] \in 0 .. Infinite
    BY <1>1, <2>1 DEF Table
  <2>4. dist[v][n][R] < Infinite
    <3> DEFINE a == weights[v][i][n]
               b == dist[v][n][R]
    <3>1. a \in 0 .. Infinite /\ b \in 0 .. Infinite /\ a + b < Infinite
      BY <2>2, <2>3
    <3> HIDE DEF a, b
    <3>2. b < Infinite
      BY <3>1, InfiniteAssumption
    <3> QED
      BY <3>2 DEF b
  <2> QED
    BY <2>2, <2>4
<1> QED
  BY <1>6, <1>7

(* The lookup finds one of the ports that lead there.                      *)
LEMMA LookupFinds ==
    ASSUME Ready, NEW v \in net.vnets, NEW d \in Nodes, NEW i \in Switches, PortsTo(i, v, d) # {}
    PROVE  LookupRoutingTable(i, v, d) # {} /\ LookupRoutingTable(i, v, d) \subseteq PortsTo(i, v, d)
<1> DEFINE P == PortsTo(i, v, d)
           C == LeastWeight(i, P)
           rank == [p \in P |-> outports[i][p].link.weight]
<1>1. net \in Descriptions /\ P \subseteq DOMAIN outports[i]
  BY ReadyIs DEF PortsTo
<1>2. \A p \in P : p \in Nat /\ outports[i][p].link.weight \in Nat
  <2> SUFFICES ASSUME NEW p \in P PROVE p \in Nat /\ outports[i][p].link.weight \in Nat
    OBVIOUS
  <2>1. p \in Nat /\ outports[i][p].link \in LinkSet
    BY <1>1, PortIs
  <2> QED
    BY <1>1, <2>1, LinksAllAre
<1> HIDE DEF P
<1>3. rank \in [P -> Nat] /\ P # {}
  BY <1>2 DEF P
<1>4. PICK p \in P : \A q \in P : rank[p] <= rank[q]
  <2> HIDE DEF rank
  <2> QED
    BY <1>3, LeastRank
<1>5. p \in C /\ C \subseteq P
  BY <1>4 DEF LeastWeight
<1>6. C \in SUBSET Nat /\ C # {}
  BY <1>2, <1>5
<1>7. PICK m \in C : \A q \in C : m <= q
  BY <1>6, LeastNumber
<1>8. LookupRoutingTable(i, v, d) =
        IF v \in OrderedVnets THEN {x \in C : \A q \in C : x <= q} ELSE C
  BY DEF LookupRoutingTable, P
<1> QED
  BY <1>5, <1>6, <1>7, <1>8 DEF P

-----------------------------------------------------------------------------
(* The ends of a packet's way                                              *)

(* A link out of an interface is one of its external links, and one into   *)
(* an interface too.                                                       *)
LEMMA KindsOfLinks ==
    ASSUME net \in Descriptions, NEW l \in LinkSet
    PROVE  /\ l.src \in Nodes => \E n \in DOMAIN net.ext :
                                    l = ExtIn(net.ext[n]) /\ net.ext[n].node = l.src
           /\ ~IsRouter(l.dst) => \E n \in DOMAIN net.ext :
                                    l = ExtOut(net.ext[n]) /\ ReceiverOf(net.ext[n].node) = l.dst
           /\ IsRouter(l.dst) => \E r \in 0 .. net.routers - 1 : l.dst = RouterSwitch(r)
<1>1. CASE \E n \in DOMAIN net.ext : l = ExtIn(net.ext[n])
  BY <1>1, ExtLinks, Numbers
<1>2. CASE \E n \in DOMAIN net.ext : l = ExtOut(net.ext[n])
  BY <1>2, ExtLinks, Numbers
<1>3. CASE \E n \in DOMAIN net.int : l = Internal(net.int[n])
  BY <1>3, IntLinks, Numbers
<1> QED
  BY <1>1, <1>2, <1>3 DEF LinkSet

(* The external link m of node d is the last one of every way there.       *)
LastLink(m, v, d) ==
    LET e == net.ext[m]
    IN  /\ e.node = d /\ Supports(e, v) /\ e.weight < Infinite
        /\ \A k \in Switches \ {ReceiverOf(d)} : e.weight <= dist[v][k][ReceiverOf(d)]

LEMMA LastLinkExists ==
    ASSUME Ready, NEW v \in net.vnets, NEW d \in Nodes, NEW s \in Switches \ {ReceiverOf(d)},
           dist[v][s][ReceiverOf(d)] < Infinite
    PROVE  \E m \in DOMAIN net.ext : LastLink(m, v, d)
<1> DEFINE R == ReceiverOf(d)
           S == {k \in Switches \ {R} : dist[v][k][R] < Infinite}
           rank == [k \in S |-> dist[v][k][R]]
<1>1. /\ net \in Descriptions /\ R \in Switches /\ WeightsOfLinks(weights[v], v)
      /\ \A k \in Switches : dist[v][k][R] \in 0 .. Infinite
      /\ \A k \in Switches : dist[v][k][k] = 0
      /\ \A i, k \in Switches : weights[v][i][k] \in 0 .. Infinite
  BY ReadyIs DEF Ready, BuildInv, EndsInv, Table
<1>2. rank \in [S -> Nat] /\ S # {}
  BY <1>1
<1>3. PICK a \in S : \A b \in S : dist[v][a][R] <= dist[v][b][R]
  <2> HIDE DEF S
  <2>1. \E a \in S : \A b \in S : rank[a] <= rank[b]
    <3> HIDE DEF rank
    <3> QED
      BY <1>2, LeastRank
  <2> QED
    BY <2>1
<1>4. PICK k \in Switches \ {a} : /\ weights[v][a][k] + dist[v][k][R] = dist[v][a][R]
                                  /\ weights[v][a][k] < Infinite
  BY <1>1, <1>3, NextHop
<1>5. PICK l \in LinkSet : /\ l.src = a /\ l.dst = k /\ Supports(l, v)
                           /\ l.weight = weights[v][a][k]
  BY <1>1, <1>3, <1>4 DEF WeightsOfLinks
<1>6. weights[v][a][k] > 0
  BY <1>1, <1>5, WeightsArePositive DEF Ready
<1>7. k = R
  <2> SUFFICES ASSUME k # R PROVE FALSE
    OBVIOUS
  <2> DEFINE x == weights[v][a][k]
             y == dist[v][k][R]
             z == dist[v][a][R]
  <2>1. x \in Nat /\ y \in Nat /\ z \in Nat /\ x > 0 /\ x + y = z /\ z < Infinite
    BY <1>1, <1>3, <1>4, <1>6
  <2>2. y < Infinite => z <= y
    BY <1>3, <1>4
  <2> HIDE DEF x, y, z
  <2> QED
    BY <2>1, <2>2, InfiniteAssumption
<1>8. PICK m \in DOMAIN net.ext : l = ExtOut(net.ext[m]) /\ ReceiverOf(net.ext[m].node) = R
  BY <1>1, <1>5, <1>7, KindsOfLinks, Numbers
<1>9. /\ net.ext[m].node = d /\ Supports(net.ext[m], v) /\ net.ext[m].weight = dist[v][a][R]
  <2>1. /\ net.ext[m].node \in Nodes /\ l.vnets = net.ext[m].vnets
        /\ l.weight = net.ext[m].weight
    BY <1>1, <1>8, ExtLinks
  <2>2. net.ext[m].node = d
    BY <1>1, <1>8, <2>1, Numbers
  <2>3. dist[v][R][R] = 0 /\ weights[v][a][R] \in 0 .. Infinite
    BY <1>1, <1>3
  <2>4. weights[v][a][R] = dist[v][a][R]
    BY <1>4, <1>7, <2>3
  <2> QED
    BY <1>5, <1>7, <2>1, <2>2, <2>4 DEF Supports
<1>10. ASSUME NEW b \in Switches \ {R} PROVE dist[v][a][R] <= dist[v][b][R]
  <2>1. CASE b \in S
    BY <1>3, <2>1
  <2>2. CASE b \notin S
    BY <1>1, <1>3, <2>2, InfiniteAssumption
  <2> QED
    BY <2>1, <2>2
<1>11. dist[v][a][R] < Infinite
  BY <1>3
<1> QED
  BY <1>9, <1>10, <1>11 DEF LastLink

(* The port an interface takes for a vnet leads over its one link for it.  *)
LEMMA InterfacePort ==
    ASSUME Ready, NEW v \in net.vnets, NEW m \in DOMAIN net.ext,
           Supports(net.ext[m], v), net.ext[m].weight < Infinite
    PROVE  LET e == net.ext[m]
               p == OutportForVnet(e.node, v)
           IN  /\ p \in DOMAIN outports[e.node] /\ outports[e.node][p].link = ExtIn(e)
               /\ RouterOf(e.node, v) = RouterSwitch(e.router)
<1> DEFINE e == net.ext[m]
           n == e.node
           P == {p \in DOMAIN outports[n] : Supports(outports[n][p].link, v)}
<1>1. /\ net \in Descriptions /\ n \in Nodes /\ n \in Switches /\ ExtIn(e) \in LinkSet
      /\ ExtIn(e).src = n /\ ExtIn(e).weight = e.weight /\ ExtIn(e).vnets = e.vnets
      /\ ExtIn(e).dst = RouterSwitch(e.router)
  BY ReadyIs, ExtLinks DEF Ready, BuildInv, EndsInv
<1>2. Supports(ExtIn(e), v)
  BY <1>1 DEF Supports
<1>3. PICK q \in DOMAIN outports[n] : outports[n][q].link = ExtIn(e)
  BY <1>1, <1>2, LinkHasPort
<1>4. P \in SUBSET Nat /\ P # {}
  BY <1>1, <1>2, <1>3, PortIs
<1>5. OutportForVnet(n, v) \in P
  BY <1>4, MinPicks DEF OutportForVnet
<1>6. ASSUME NEW p \in P PROVE outports[n][p].link = ExtIn(e)
  <2>1. outports[n][p].link \in LinkSet /\ outports[n][p].link.src = n
    BY <1>1, PortIs
  <2>2. PICK k \in DOMAIN net.ext : outports[n][p].link = ExtIn(net.ext[k]) /\ net.ext[k].node = n
    BY <1>1, <2>1, KindsOfLinks
  <2>3. ExtIn(net.ext[k]).vnets = net.ext[k].vnets
    BY <1>1, ExtLinks
  <2>4. Supports(net.ext[k], v)
    BY <1>6, <2>2, <2>3 DEF Supports
  <2>5. k = m
    BY <2>2, <2>4 DEF Ready, Routable, OneLinkPerVnet
  <2> QED
    BY <2>2, <2>5
<1>7. RouterOf(n, v) = RouterSwitch(e.router)
  BY <1>1, <1>5, <1>6 DEF RouterOf
<1> QED
  BY <1>5, <1>6, <1>7

(* At the router of a node, the tables lead to the node at once.           *)
AllLeadHome(r, v, d) == \A p \in PortsTo(r, v, d) : outports[r][p].link.dst = ReceiverOf(d)

LEMMA HomeLeadsThere ==
    ASSUME Ready, NEW v \in net.vnets, NEW d \in Nodes, NEW m \in DOMAIN net.ext,
           LastLink(m, v, d), NEW r, r = RouterSwitch(net.ext[m].router)
    PROVE  /\ r \in Switches /\ r # ReceiverOf(d) /\ dist[v][r][ReceiverOf(d)] < Infinite
           /\ AllLeadHome(r, v, d)
<1> DEFINE R == ReceiverOf(d)
           e == net.ext[m]
           w == e.weight
<1>1. /\ net \in Descriptions /\ dist[v] \in Table(Switches) /\ weights[v] \in Table(Switches)
      /\ Direct(Switches, weights[v], dist[v])
  BY ReadyIs
<1>2. /\ e.node = d /\ Supports(e, v) /\ w < Infinite
      /\ \A k \in Switches \ {R} : w <= dist[v][k][R]
  BY DEF LastLink
<1>3. /\ ExtOut(e) \in LinkSet /\ ExtOut(e).src = r /\ ExtOut(e).dst = R /\ ExtOut(e).weight = w
      /\ ExtOut(e).vnets = e.vnets /\ w \in 0 .. Infinite /\ e.router \in 0 .. net.routers - 1
  BY <1>1, <1>2, ExtLinks
<1>4. Supports(ExtOut(e), v)
  BY <1>2, <1>3 DEF Supports
<1>5. r \in Switches /\ R \in Switches /\ weights[v][r][R] = w
  BY <1>2, <1>3, <1>4, LinkHasPort
<1>6. r # R
  BY <1>1, <1>3, Numbers
<1>7. dist[v][r][R] = w
  <2>1. dist[v][r][R] <= w /\ w <= dist[v][r][R] /\ dist[v][r][R] \in 0 .. Infinite
    BY <1>1, <1>2, <1>5, <1>6 DEF Direct, Table
  <2> QED
    BY <1>3, <2>1, InfiniteAssumption
<1>8. ASSUME NEW p \in PortsTo(r, v, d), NEW k, k = outports[r][p].link.dst, k # R PROVE FALSE
  <2>1. weights[v][r][k] + dist[v][k][R] = w /\ IsRealLink(r, k, v)
    BY <1>2, <1>5, <1>6, <1>7, <1>8, PortsLeadOn
  <2>2. k \in Switches
    BY <1>5, <1>8, PortIs DEF PortsTo
  <2> DEFINE x == weights[v][r][k]
             y == dist[v][k][R]
  <2>3. x \in Nat /\ y \in Nat /\ x > 0 /\ w <= y /\ x + y = w
    <3>1. x \in 0 .. Infinite /\ y \in 0 .. Infinite
      BY <1>1, <1>5, <2>2 DEF Table
    <3>2. x > 0 /\ x + y = w
      BY <2>1 DEF IsRealLink
    <3>3. w <= y
      BY <1>2, <1>8, <2>2
    <3> HIDE DEF x, y
    <3> QED
      BY <3>1, <3>2, <3>3, InfiniteAssumption
  <2> HIDE DEF x, y, w
  <2>4. w \in Nat
    BY <1>3, InfiniteAssumption
  <2> QED
    BY <2>3, <2>4
<1>9. AllLeadHome(r, v, d)
  BY <1>8 DEF AllLeadHome
<1> QED
  BY <1>2, <1>5, <1>6, <1>7, <1>9

-----------------------------------------------------------------------------
(* Steps in a mesh                                                         *)

(* A router in every column and row.                                       *)
HasRouterAt(c, rows, x, y) == \E s \in 0 .. rows * c - 1 : s % c = x /\ s \div c = y

LEMMA RouterAt ==
    ASSUME NEW c \in Nat \ {0}, NEW rows \in Nat, NEW x \in 0 .. c - 1, NEW y \in 0 .. rows - 1
    PROVE  HasRouterAt(c, rows, x, y)
<1> DEFINE s == y * c + x
<1>1. s \in 0 .. rows * c - 1
  BY SumBelow
<1>2. s \in Nat /\ y \in Nat
  BY <1>1
<1>3. s \div c = y /\ s % c = x
  <2> HIDE DEF s
  <2>1. s = y * c + x
    BY DEF s
  <2> QED
    BY <1>2, <2>1, OnlyDivAndMod
<1> HIDE DEF s
<1> QED
  BY <1>1, <1>3 DEF HasRouterAt

(* The direction that XY routing takes is one of a neighbour, and towards  *)
(* the column and then the row of the destination.                         *)
Towards(dirn, me, home) ==
    LET x == me % net.cols      y == me \div net.cols
        a == home % net.cols    b == home \div net.cols
    IN  \/ dirn = "East" /\ x < a
        \/ dirn = "West" /\ a < x
        \/ dirn = "North" /\ x = a /\ y < b
        \/ dirn = "South" /\ x = a /\ b < y

LEMMA DirectionTowards ==
    ASSUME net \in Descriptions, IsMesh(net), NEW me \in 0 .. net.routers - 1,
           NEW home \in 0 .. net.routers - 1, me # home, NEW dirn, dirn = DirectionXY(me, home)
    PROVE  /\ Towards(dirn, me, home) /\ dirn \in DOMAIN Offset
           /\ \E s \in 0 .. net.routers - 1 : NextTo(net, me, dirn, s)
<1> DEFINE c == net.cols
           rows == net.routers \div c
           x == me % c
           y == me \div c
           a == home % c
           b == home \div c
<1>1. /\ c \in Nat \ {0} /\ net.routers \in Nat /\ net.routers % c = 0
      /\ me \in Nat /\ home \in Nat
  <2>1. c \in Nat \ {0} /\ net.routers % c = 0
    BY DEF IsMesh
  <2>2. net.routers \in Nat
    BY DescriptionsAssumption
  <2> QED
    BY <2>1, <2>2
<1>2. rows \in Nat /\ net.routers = rows * c
  <2> HIDE DEF c
  <2>1. rows \in Nat /\ net.routers = rows * c + (net.routers % c)
    BY <1>1, DivAndMod
  <2>2. rows * c \in Nat
    BY <1>1, <2>1
  <2> QED
    BY <1>1, <2>1, <2>2
<1> HIDE DEF c, rows
<1>3. x \in 0 .. c - 1 /\ y \in 0 .. rows - 1 /\ me = y * c + x
  <2>1. me \in 0 .. rows * c - 1
    BY <1>2
  <2> QED
    BY <1>1, <1>2, <2>1, DivAndMod, DivBelow
<1>4. a \in 0 .. c - 1 /\ b \in 0 .. rows - 1 /\ home = b * c + a
  <2>1. home \in 0 .. rows * c - 1
    BY <1>2
  <2> QED
    BY <1>1, <1>2, <2>1, DivAndMod, DivBelow
<1>5. dirn = IF a - x # 0 THEN (IF a - x >= 0 THEN "East" ELSE "West")
             ELSE IF b - y >= 0 THEN "North" ELSE "South"
  BY DEF DirectionXY, c
<1> HIDE DEF x, y, a, b
<1>6. ~(x = a /\ y = b)
  BY <1>3, <1>4
<1>7. /\ x \in Int /\ y \in Int /\ a \in Int /\ b \in Int
  BY <1>3, <1>4
<1>8. \/ dirn = "East" /\ x < a
      \/ dirn = "West" /\ a < x
      \/ dirn = "North" /\ x = a /\ y < b
      \/ dirn = "South" /\ x = a /\ b < y
  BY <1>5, <1>6, <1>7
<1>9. Towards(dirn, me, home)
  BY <1>8 DEF Towards, x, y, a, b, c
<1>10. ASSUME NEW i \in 0 .. c - 1, NEW j \in 0 .. rows - 1, <<i - x, j - y>> = Offset[dirn]
       PROVE  \E s \in 0 .. net.routers - 1 : NextTo(net, me, dirn, s)
  <2>1. PICK s \in 0 .. rows * c - 1 : s % c = i /\ s \div c = j
    <3>1. c \in Nat \ {0} /\ rows \in Nat /\ i \in 0 .. c - 1 /\ j \in 0 .. rows - 1
      BY <1>1, <1>2
    <3>2. HasRouterAt(c, rows, i, j)
      BY <3>1, RouterAt
    <3> QED
      BY <3>2 DEF HasRouterAt
  <2>2. NextTo(net, me, dirn, s)
    BY <1>10, <2>1 DEF NextTo, x, y, c
  <2> QED
    BY <1>2, <2>1, <2>2
<1>11. DOMAIN Offset = {"East", "West", "North", "South"}
       /\ Offset["East"] = <<1, 0>> /\ Offset["West"] = <<-1, 0>>
       /\ Offset["North"] = <<0, 1>> /\ Offset["South"] = <<0, -1>>
  BY DEF Offset
<1>12. CASE dirn = "East" /\ x < a
  <2>1. x + 1 \in 0 .. c - 1 /\ <<(x + 1) - x, y - y>> = <<1, 0>>
    BY <1>1, <1>3, <1>4, <1>7, <1>12
  <2> QED
    BY <1>3, <1>9, <1>10, <1>11, <1>12, <2>1
<1>13. CASE dirn = "West" /\ a < x
  <2>1. x - 1 \in 0 .. c - 1 /\ <<(x - 1) - x, y - y>> = <<-1, 0>>
    BY <1>1, <1>3, <1>4, <1>7, <1>13
  <2> QED
    BY <1>3, <1>9, <1>10, <1>11, <1>13, <2>1
<1>14. CASE dirn = "North" /\ x = a /\ y < b
  <2>1. y + 1 \in 0 .. rows - 1 /\ <<x - x, (y + 1) - y>> = <<0, 1>>
    BY <1>2, <1>3, <1>4, <1>7, <1>14
  <2> QED
    BY <1>3, <1>9, <1>10, <1>11, <1>14, <2>1
<1>15. CASE dirn = "South" /\ x = a /\ b < y
  <2>1. y - 1 \in 0 .. rows - 1 /\ <<x - x, (y - 1) - y>> = <<0, -1>>
    BY <1>2, <1>3, <1>4, <1>7, <1>15
  <2> QED
    BY <1>3, <1>9, <1>10, <1>11, <1>15, <2>1
<1> QED
  BY <1>8, <1>12, <1>13, <1>14, <1>15

(* Where a packet that came in from direction dirn can still have to go.   *)
Turned(dirn, me, home) ==
    LET x == me % net.cols      y == me \div net.cols
        a == home % net.cols    b == home \div net.cols
    IN  /\ dirn \in {"Local", "East", "West", "North", "South"}
        /\ dirn = "West"  => x <= a
        /\ dirn = "East"  => a <= x
        /\ dirn = "South" => x = a /\ y <= b
        /\ dirn = "North" => x = a /\ b <= y

(* A step in the direction of the destination leaves nothing to go back.   *)
LEMMA StepTurns ==
    ASSUME net \in Descriptions, IsMesh(net), NEW me \in 0 .. net.routers - 1,
           NEW home \in 0 .. net.routers - 1, NEW out \in DOMAIN Offset, Towards(out, me, home),
           NEW s \in 0 .. net.routers - 1, NextTo(net, me, out, s),
           NEW in \in DOMAIN Offset, NextTo(net, s, in, me)
    PROVE  Turned(in, s, home)
<1> DEFINE c == net.cols
           x == me % c
           y == me \div c
           a == home % c
           b == home \div c
           i == s % c
           j == s \div c
<1>1. c \in Nat \ {0} /\ me \in Nat /\ home \in Nat /\ s \in Nat
  BY DEF IsMesh
<1> HIDE DEF c
<1>2. x \in Int /\ y \in Int /\ a \in Int /\ b \in Int /\ i \in Int /\ j \in Int
  BY <1>1, DivAndMod
<1>3. Offset[out] = <<i - x, j - y>> /\ Offset[in] = <<x - i, y - j>>
  BY DEF NextTo, c
<1>4. \/ out = "East" /\ x < a
      \/ out = "West" /\ a < x
      \/ out = "North" /\ x = a /\ y < b
      \/ out = "South" /\ x = a /\ b < y
  BY DEF Towards, c
<1> HIDE DEF x, y, a, b, i, j
<1>5. /\ out = "East" => i - x = 1 /\ j - y = 0
      /\ out = "West" => i - x = -1 /\ j - y = 0
      /\ out = "North" => i - x = 0 /\ j - y = 1
      /\ out = "South" => i - x = 0 /\ j - y = -1
      /\ in = "East" => x - i = 1 /\ y - j = 0
      /\ in = "West" => x - i = -1 /\ y - j = 0
      /\ in = "North" => x - i = 0 /\ y - j = 1
      /\ in = "South" => x - i = 0 /\ y - j = -1
      /\ in \in {"East", "West", "North", "South"}
  BY <1>3 DEF Offset
<1>6. /\ in = "West"  => i <= a
      /\ in = "East"  => a <= i
      /\ in = "South" => i = a /\ j <= b
      /\ in = "North" => i = a /\ b <= j
  BY <1>2, <1>4, <1>5
<1> QED
  BY <1>5, <1>6 DEF Turned, a, b, i, j, c

(* The ports of a router in the direction of a neighbour.                  *)
LEMMA PortTowards ==
    ASSUME Ready, IsMesh(net), NEW v \in net.vnets, NEW me \in 0 .. net.routers - 1,
           NEW dirn \in DOMAIN Offset, \E s \in 0 .. net.routers - 1 : NextTo(net, me, dirn, s),
           NEW r, r = RouterSwitch(me)
    PROVE  /\ r \in Switches
           /\ PortOfDirection(r, dirn) \in DOMAIN outports[r]
           /\ outports[r][PortOfDirection(r, dirn)].link.outDirn = dirn
           /\ \A p \in DOMAIN outports[r] : outports[r][p].link.outDirn = dirn =>
                \E s \in 0 .. net.routers - 1 :
                   /\ outports[r][p].link.dst = RouterSwitch(s) /\ NextTo(net, me, dirn, s)
                   /\ outports[r][p].link.inDirn \in DOMAIN Offset
                   /\ NextTo(net, s, outports[r][p].link.inDirn, me)
<1> DEFINE P == {p \in DOMAIN outports[r] : outports[r][p].link.outDirn = dirn}
<1>1. net \in Descriptions
  BY ReadyIs
<1>2. PICK n \in DOMAIN net.int : net.int[n].src = me /\ net.int[n].outDirn = dirn
  BY DEF IsMesh
<1> DEFINE l == Internal(net.int[n])
<1>3. /\ l \in LinkSet /\ l.src = r /\ l.outDirn = dirn /\ Supports(l, v) /\ l.weight < Infinite
  BY <1>1, <1>2, IntLinks DEF IsMesh, Supports
<1> HIDE DEF l
<1>4. r \in Switches /\ \E p \in DOMAIN outports[r] : outports[r][p].link = l
  BY <1>3, LinkHasPort
<1>5. P # {} /\ P \in SUBSET Nat /\ Len(outports[r]) \in Nat /\ \A p \in P : p <= Len(outports[r])
  <2>1. \A p \in DOMAIN outports[r] : /\ p \in Nat /\ DOMAIN outports[r] = 1 .. Len(outports[r])
                                      /\ Len(outports[r]) \in Nat
    BY <1>4, PortIs
  <2>2. P # {}
    BY <1>3, <1>4
  <2>3. Len(outports[r]) \in Nat /\ DOMAIN outports[r] = 1 .. Len(outports[r])
    BY <1>4, <2>1
  <2> QED
    BY <2>2, <2>3
<1>6. PortOfDirection(r, dirn) \in P
  <2>1. Max(P) \in P
    BY <1>5, MaxPicks
  <2> QED
    BY <1>5, <2>1 DEF PortOfDirection
<1>7. ASSUME NEW p \in DOMAIN outports[r], outports[r][p].link.outDirn = dirn
      PROVE  \E s \in 0 .. net.routers - 1 :
                /\ outports[r][p].link.dst = RouterSwitch(s) /\ NextTo(net, me, dirn, s)
                /\ outports[r][p].link.inDirn \in DOMAIN Offset
                /\ NextTo(net, s, outports[r][p].link.inDirn, me)
  <2> DEFINE k == outports[r][p].link
  <2>1. k \in LinkSet /\ k.src = r /\ k.outDirn = dirn
    BY <1>4, <1>7, PortIs
  <2> HIDE DEF k
  <2>2. dirn # "Local"
    BY DEF Offset
  <2>3. PICK q \in DOMAIN net.int : k = Internal(net.int[q])
    BY <1>1, <2>1, <2>2, ExtLinks DEF LinkSet
  <2> DEFINE e == net.int[q]
  <2>4. /\ e.src \in 0 .. net.routers - 1 /\ e.dst \in 0 .. net.routers - 1
        /\ k.src = RouterSwitch(e.src) /\ k.dst = RouterSwitch(e.dst)
        /\ k.outDirn = e.outDirn /\ k.inDirn = e.inDirn
    BY <1>1, <2>3, IntLinks
  <2>5. NextTo(net, e.src, e.outDirn, e.dst) /\ e.inDirn \in DOMAIN Offset
        /\ NextTo(net, e.dst, e.inDirn, e.src)
    BY DEF IsMesh
  <2> HIDE DEF e
  <2>6. e.src = me
    <3>1. e.src = RouterSwitch(e.src) - 2 * net.nodes /\ me = RouterSwitch(me) - 2 * net.nodes
      BY <1>1, <2>4, Numbers
    <3>2. RouterSwitch(e.src) = RouterSwitch(me)
      BY <2>1, <2>4
    <3> QED
      BY <3>1, <3>2
  <2>7. /\ k.dst = RouterSwitch(e.dst) /\ NextTo(net, me, dirn, e.dst)
        /\ k.inDirn \in DOMAIN Offset /\ NextTo(net, e.dst, k.inDirn, me)
    BY <2>1, <2>4, <2>5, <2>6
  <2> QED
    BY <2>4, <2>7 DEF k
<1> QED
  BY <1>4, <1>6, <1>7

-----------------------------------------------------------------------------
(* The packet under way                                                    *)

(* A packet on link l is at a switch from which the tables lead on, or has *)
(* turned as XY routing may, or is there.                                  *)
OnTheWay(l, v, d) ==
    /\ algorithm = "TABLE_" => dist[v][l.dst][ReceiverOf(d)] < Infinite
    /\ algorithm = "XY_" =>
         \/ l.dst = ReceiverOf(d)
         \/ /\ IsRouter(l.dst)
            /\ Turned(l.inDirn, l.dst - 2 * net.nodes, RouterOf(d, v) - 2 * net.nodes)

AlgorithmInv ==
    algorithm \in {"TABLE_", "XY_"} /\ (algorithm = "XY_" => net.cols > 0)
PacketInv ==
    pkt # NoPacket =>
        /\ phase = "route" /\ pkt \in [vnet : net.vnets, dest : Nodes, link : LinkSet]
        /\ \E m \in DOMAIN net.ext : LastLink(m, pkt.vnet, pkt.dest)
        /\ OnTheWay(pkt.link, pkt.vnet, pkt.dest)
RouteInv == BuildInv /\ AlgorithmInv /\ PacketInv

(* Away from the router of its destination, a packet routed by XY goes     *)
(* towards it over a port that is there.                                   *)
LEMMA XYLeadsOn ==
    ASSUME Ready, AlgorithmInv, algorithm = "XY_", NEW v \in net.vnets,
           NEW me \in 0 .. net.routers - 1, NEW home \in 0 .. net.routers - 1, me # home,
           NEW dirn, dirn = DirectionXY(me, home), NEW r, r = RouterSwitch(me)
    PROVE  /\ Towards(dirn, me, home)
           /\ PortOfDirection(r, dirn) \in DOMAIN outports[r]
           /\ outports[r][PortOfDirection(r, dirn)].link.outDirn = dirn
           /\ \A p \in DOMAIN outports[r] : outports[r][p].link.outDirn = dirn =>
                LET l == outports[r][p].link
                IN  IsRouter(l.dst) /\ Turned(l.inDirn, l.dst - 2 * net.nodes, home)
<1>1. net \in Descriptions /\ IsMesh(net)
  BY ReadyIs DEF Ready, AlgorithmInv, Routable
<1>2. /\ Towards(dirn, me, home) /\ dirn \in DOMAIN Offset
      /\ \E s \in 0 .. net.routers - 1 : NextTo(net, me, dirn, s)
  BY <1>1, DirectionTowards
<1>3. /\ PortOfDirection(r, dirn) \in DOMAIN outports[r]
      /\ outports[r][PortOfDirection(r, dirn)].link.outDirn = dirn
  BY <1>1, <1>2, PortTowards
<1>4. ASSUME NEW p \in DOMAIN outports[r], outports[r][p].link.outDirn = dirn,
             NEW l, l = outports[r][p].link
      PROVE  IsRouter(l.dst) /\ Turned(l.inDirn, l.dst - 2 * net.nodes, home)
  <2>1. PICK s \in 0 .. net.routers - 1 :
           /\ l.dst = RouterSwitch(s) /\ NextTo(net, me, dirn, s)
           /\ l.inDirn \in DOMAIN Offset /\ NextTo(net, s, l.inDirn, me)
    BY <1>1, <1>2, <1>4, PortTowards
  <2>2. IsRouter(l.dst) /\ l.dst - 2 * net.nodes = s
    BY <1>1, <2>1, Numbers
  <2>3. Turned(l.inDirn, s, home)
    BY <1>1, <1>2, <2>1, StepTurns
  <2> QED
    BY <2>2, <2>3
<1> QED
  BY <1>2, <1>3, <1>4

(* At every router on the way there is an outport, and whichever is taken  *)
(* the packet stays on its way.                                            *)
LEMMA HopLeadsOn ==
    ASSUME Ready, AlgorithmInv, NEW v \in net.vnets, NEW d \in Nodes,
           NEW m \in DOMAIN net.ext, LastLink(m, v, d),
           NEW l \in LinkSet, IsRouter(l.dst), OnTheWay(l, v, d), NEW r, r = l.dst
    PROVE  /\ OutportCompute(r, v, d) # {}
           /\ \A p \in OutportCompute(r, v, d) :
                outports[r][p].link \in LinkSet /\ OnTheWay(outports[r][p].link, v, d)
<1> DEFINE R == ReceiverOf(d)
           H == RouterSwitch(net.ext[m].router)
<1>1. net \in Descriptions /\ r \in Switches
  BY ReadyIs DEF Ready, BuildInv, EndsInv
<1>2. PICK me \in 0 .. net.routers - 1 : r = RouterSwitch(me)
  BY <1>1, KindsOfLinks
<1>3. r # R /\ r - 2 * net.nodes = me
  BY <1>1, <1>2, Numbers
<1>4. RouterOf(d, v) = H
  BY InterfacePort DEF LastLink
<1>5. net.ext[m].router \in 0 .. net.routers - 1 /\ H - 2 * net.nodes = net.ext[m].router
  BY <1>1, ExtLinks, Numbers
<1>6. ASSUME dist[v][r][R] < Infinite
      PROVE  /\ LookupRoutingTable(r, v, d) # {}
             /\ \A p \in LookupRoutingTable(r, v, d) :
                  /\ p \in PortsTo(r, v, d) /\ outports[r][p].link \in LinkSet
                  /\ dist[v][outports[r][p].link.dst][R] < Infinite
  <2>1. /\ PortsTo(r, v, d) # {}
        /\ \A p \in PortsTo(r, v, d) : dist[v][outports[r][p].link.dst][R] < Infinite
    BY <1>1, <1>3, <1>6, PortsLeadOn
  <2>2. LookupRoutingTable(r, v, d) # {} /\ LookupRoutingTable(r, v, d) \subseteq PortsTo(r, v, d)
    BY <1>1, <2>1, LookupFinds
  <2>3. \A p \in PortsTo(r, v, d) : outports[r][p].link \in LinkSet
    BY <1>1, PortIs DEF PortsTo
  <2> QED
    BY <2>1, <2>2, <2>3
<1>7. CASE algorithm = "TABLE_"
  <2>1. dist[v][r][R] < Infinite /\ OutportCompute(r, v, d) = LookupRoutingTable(r, v, d)
    BY <1>7 DEF OnTheWay, OutportCompute
  <2>2. algorithm # "XY_"
    BY <1>7
  <2> QED
    BY <1>6, <2>1, <2>2 DEF OnTheWay
<1>8. CASE algorithm = "XY_" /\ r = H
  <2>1. OutportCompute(r, v, d) = LookupRoutingTable(r, v, d) /\ algorithm # "TABLE_"
    BY <1>4, <1>8 DEF OutportCompute
  <2>2. r = RouterSwitch(net.ext[m].router)
    BY <1>8
  <2>3. dist[v][r][R] < Infinite
    BY <2>2, HomeLeadsThere
  <2>4. \A p \in PortsTo(r, v, d) : outports[r][p].link.dst = R
    <3>1. AllLeadHome(r, v, d)
      BY <2>2, HomeLeadsThere
    <3> QED
      BY <3>1 DEF AllLeadHome
  <2> QED
    BY <1>6, <2>1, <2>3, <2>4 DEF OnTheWay
<1>9. CASE algorithm = "XY_" /\ r # H
  <2> DEFINE home == net.ext[m].router
             dirn == DirectionXY(me, home)
             p == PortOfDirection(r, dirn)
  <2>1. me # home /\ algorithm # "TABLE_"
    BY <1>2, <1>9
  <2>2. OutportCompute(r, v, d) = {p}
    BY <1>3, <1>4, <1>5, <1>9, <2>1 DEF OutportCompute
  <2>3. /\ p \in DOMAIN outports[r] /\ outports[r][p].link.outDirn = dirn
        /\ IsRouter(outports[r][p].link.dst)
        /\ Turned(outports[r][p].link.inDirn, outports[r][p].link.dst - 2 * net.nodes, home)
    BY <1>2, <1>5, <1>9, <2>1, XYLeadsOn
  <2>4. outports[r][p].link \in LinkSet
    BY <1>1, <2>3, PortIs
  <2>5. OnTheWay(outports[r][p].link, v, d)
    BY <1>4, <1>5, <2>1, <2>3 DEF OnTheWay
  <2> QED
    BY <2>2, <2>4, <2>5
<1> QED
  BY <1>7, <1>8, <1>9 DEF AlgorithmInv

(* A packet that is sent begins on its way.                                *)
LEMMA SendBegins ==
    ASSUME Ready, AlgorithmInv, NEW v \in net.vnets, NEW d \in Nodes, NEW n \in Nodes,
           dist[v][n][ReceiverOf(d)] < Infinite, NEW l, l = outports[n][OutportForVnet(n, v)].link
    PROVE  /\ l \in LinkSet /\ OnTheWay(l, v, d) /\ \E m \in DOMAIN net.ext : LastLink(m, v, d)
<1> DEFINE R == ReceiverOf(d)
<1>1. /\ net \in Descriptions /\ n \in Switches /\ R \in Switches /\ n # R
      /\ weights[v] \in Table(Switches) /\ dist[v] \in Table(Switches)
      /\ WeightsOfLinks(weights[v], v)
  BY ReadyIs, Numbers DEF Ready, BuildInv, EndsInv
<1>2. \E m \in DOMAIN net.ext : LastLink(m, v, d)
  BY <1>1, LastLinkExists
<1>3. PICK k \in Switches \ {n} : /\ weights[v][n][k] + dist[v][k][R] = dist[v][n][R]
                                  /\ weights[v][n][k] < Infinite
  BY <1>1, NextHop
<1>4. PICK f \in LinkSet : /\ f.src = n /\ f.dst = k /\ Supports(f, v)
                           /\ f.weight = weights[v][n][k]
  BY <1>1, <1>3 DEF WeightsOfLinks
<1>5. PICK m \in DOMAIN net.ext : f = ExtIn(net.ext[m]) /\ net.ext[m].node = n
  BY <1>1, <1>4, KindsOfLinks
<1>6. /\ Supports(net.ext[m], v) /\ net.ext[m].weight < Infinite
      /\ f.inDirn = "Local" /\ IsRouter(f.dst)
  <2>1. /\ f.vnets = net.ext[m].vnets /\ f.weight = net.ext[m].weight /\ f.inDirn = "Local"
        /\ f.dst = RouterSwitch(net.ext[m].router) /\ net.ext[m].router \in 0 .. net.routers - 1
    BY <1>1, <1>5, ExtLinks
  <2> QED
    BY <1>1, <1>3, <1>4, <2>1, Numbers DEF Supports
<1>7. l = f
  BY <1>5, <1>6, InterfacePort
<1>8. dist[v][f.dst][R] < Infinite
  <2> DEFINE a == weights[v][n][k]
             b == dist[v][k][R]
  <2>1. a \in 0 .. Infinite /\ b \in 0 .. Infinite /\ a + b < Infinite
    BY <1>1, <1>3 DEF Table
  <2> HIDE DEF a, b
  <2>2. b < Infinite
    BY <2>1, InfiniteAssumption
  <2> QED
    BY <1>4, <2>2 DEF b
<1>9. OnTheWay(f, v, d)
  BY <1>6, <1>8 DEF OnTheWay, Turned
<1> QED
  BY <1>2, <1>7, <1>9

-----------------------------------------------------------------------------
(* Every packet                                                            *)

(* While the network stays, the ways through it do.                        *)
LEMMA SameWays ==
    ASSUME UNCHANGED <<vars, algorithm>>, NEW v, NEW d
    PROVE  /\ phase' = phase /\ Nodes' = Nodes /\ LinkSet' = LinkSet /\ net' = net
           /\ \A l : OnTheWay(l, v, d)' <=> OnTheWay(l, v, d)
           /\ \A m : LastLink(m, v, d)' <=> LastLink(m, v, d)
<1>1. UNCHANGED <<net, phase, step, weights, dist, outports, algorithm>>
  BY DEF vars
<1>2. LinkSet' = LinkSet /\ Nodes' = Nodes
  BY <1>1, SameLinks
<1>3. Switches' = Switches /\ ReceiverOf(d)' = ReceiverOf(d) /\ RouterOf(d, v)' = RouterOf(d, v)
  BY <1>1 DEF Switches, ReceiverOf, RouterOf, OutportForVnet, Supports
<1>4. ASSUME NEW l PROVE OnTheWay(l, v, d)' <=> OnTheWay(l, v, d)
  BY <1>1, <1>3 DEF OnTheWay, IsRouter, Turned
<1>5. ASSUME NEW m PROVE LastLink(m, v, d)' <=> LastLink(m, v, d)
  BY <1>1, <1>3 DEF LastLink, Supports
<1> QED
  BY <1>1, <1>2, <1>4, <1>5

LEMMA RouteInit == InitRouting => RouteInv
<1> SUFFICES ASSUME InitRouting PROVE RouteInv
  OBVIOUS
<1>1. AlgorithmInv
  BY DEF InitRouting, AlgorithmInv
<1>2. PacketInv
  BY DEF InitRouting, PacketInv
<1> QED
  BY <1>1, <1>2, BuildInit DEF RouteInv

(* The network is finished as long as a packet is under way.               *)
LEMMA PacketMeansReady ==
    ASSUME AllRoutable, RouteInv, phase = "route"
    PROVE  Ready
BY DEF AllRoutable, RouteInv, BuildInv, TopologyInv, SwitchesInv, Ready

(* A packet on a link on its way is one of PacketInv.                      *)
LEMMA OnwardIs ==
    ASSUME UNCHANGED <<vars, algorithm>>, phase = "route", NEW v \in net.vnets, NEW d \in Nodes,
           NEW l \in LinkSet, OnTheWay(l, v, d), \E m \in DOMAIN net.ext : LastLink(m, v, d),
           pkt' = [vnet |-> v, dest |-> d, link |-> l]
    PROVE  PacketInv'
<1>1. /\ pkt' \in [vnet : net.vnets, dest : Nodes, link : LinkSet]
      /\ pkt'.vnet = v /\ pkt'.dest = d /\ pkt'.link = l
  OBVIOUS
<1>2. /\ phase' = phase /\ Nodes' = Nodes /\ LinkSet' = LinkSet /\ net' = net
      /\ OnTheWay(l, v, d)' /\ \E m \in DOMAIN net.ext : LastLink(m, v, d)'
  BY SameWays
<1>3. OnTheWay(pkt.link, pkt.vnet, pkt.dest)' <=> OnTheWay(l, v, d)'
  BY <1>1 DEF OnTheWay, RouterOf, OutportForVnet
<1>4. \A m : LastLink(m, pkt.vnet, pkt.dest)' <=> LastLink(m, v, d)'
  BY <1>1 DEF LastLink
<1> QED
  BY <1>1, <1>2, <1>3, <1>4 DEF PacketInv

LEMMA RouteStep == AllRoutable /\ RouteInv /\ [Next]_routingVars => RouteInv'
<1> SUFFICES ASSUME AllRoutable, RouteInv, [Next]_routingVars PROVE RouteInv'
  OBVIOUS
<1>1. BuildInv'
  BY BuildStep DEF RouteInv
<1>2. AlgorithmInv' /\ net' = net
  <2>1. UNCHANGED <<net, algorithm>>
    BY DEF Next, Construct, Build, ReadWeights, ExtendRow, MakeLinks, SendPacket, Hop, Deliver,
           routingVars, vars
  <2> QED
    BY <2>1 DEF RouteInv, AlgorithmInv
<1>3. CASE Construct
  <2>1. phase # "route" /\ pkt' = pkt
    BY <1>3 DEF Construct, Build, ReadWeights, ExtendRow, MakeLinks
  <2>2. pkt' = NoPacket
    BY <2>1 DEF RouteInv, PacketInv
  <2> QED
    BY <1>1, <1>2, <2>2 DEF RouteInv, PacketInv, NoPacket
<1>4. ASSUME NEW n \in Nodes, NEW d \in Nodes, NEW v \in net.vnets, SendPacket(n, v, d)
      PROVE  RouteInv'
  <2> DEFINE l == outports[n][OutportForVnet(n, v)].link
  <2>1. /\ UNCHANGED <<vars, algorithm>> /\ phase = "route"
        /\ dist[v][n][ReceiverOf(d)] < Infinite /\ pkt' = [vnet |-> v, dest |-> d, link |-> l]
    BY <1>4 DEF SendPacket
  <2>2. Ready /\ AlgorithmInv
    BY <2>1, PacketMeansReady DEF RouteInv
  <2>3. l \in LinkSet /\ OnTheWay(l, v, d) /\ \E m \in DOMAIN net.ext : LastLink(m, v, d)
    BY <2>1, <2>2, SendBegins
  <2>4. PacketInv'
    BY <2>1, <2>3, OnwardIs
  <2> QED
    BY <1>1, <1>2, <2>4 DEF RouteInv
<1>5. CASE Hop
  <2>1. /\ UNCHANGED <<vars, algorithm>> /\ pkt # NoPacket /\ IsRouter(pkt.link.dst)
    BY <1>5 DEF Hop, AtRouter
  <2>2. /\ phase = "route" /\ pkt \in [vnet : net.vnets, dest : Nodes, link : LinkSet]
        /\ \E m \in DOMAIN net.ext : LastLink(m, pkt.vnet, pkt.dest)
        /\ OnTheWay(pkt.link, pkt.vnet, pkt.dest)
    BY <2>1 DEF RouteInv, PacketInv
  <2>3. PICK p \in OutportCompute(pkt.link.dst, pkt.vnet, pkt.dest) :
           pkt' = [pkt EXCEPT !.link = outports[pkt.link.dst][p].link]
    BY <1>5 DEF Hop
  <2>4. Ready /\ AlgorithmInv
    BY <2>2, PacketMeansReady DEF RouteInv
  <2> DEFINE l == outports[pkt.link.dst][p].link
             v == pkt.vnet
             d == pkt.dest
  <2>5. l \in LinkSet /\ OnTheWay(l, v, d)
    BY <2>1, <2>2, <2>3, <2>4, HopLeadsOn
  <2>6. pkt' = [vnet |-> v, dest |-> d, link |-> l]
    BY <2>2, <2>3
  <2>7. PacketInv'
    <3>1. v \in net.vnets /\ d \in Nodes /\ \E m \in DOMAIN net.ext : LastLink(m, v, d)
      BY <2>2
    <3> QED
      BY <2>1, <2>2, <2>5, <2>6, <3>1, OnwardIs
  <2> QED
    BY <1>1, <1>2, <2>7 DEF RouteInv
<1>6. CASE Deliver
  <2>1. pkt' = NoPacket
    BY <1>6 DEF Deliver
  <2> QED
    BY <1>1, <1>2, <2>1 DEF RouteInv, PacketInv, NoPacket
<1>7. CASE UNCHANGED routingVars
  <2>1. UNCHANGED <<vars, algorithm>> /\ pkt' = pkt
    BY <1>7 DEF routingVars
  <2>2. PacketInv
    BY DEF RouteInv
  <2>3. PacketInv'
    BY <2>1, <2>2, SameWays DEF PacketInv, NoPacket
  <2> QED
    BY <1>1, <1>2, <2>3 DEF RouteInv
<1> QED
  BY <1>3, <1>4, <1>5, <1>6, <1>7 DEF Next

LEMMA RouteAlways == ASSUME AllRoutable PROVE Spec => []RouteInv
BY RouteInit, RouteStep, PTL DEF Spec

(* Along a way there is a router of the destination, and no link ends at   *)
(* the interface of another node.                                          *)
LEMMA EndsAreRight ==
    ASSUME Ready, AlgorithmInv, NEW v \in net.vnets, NEW d \in Nodes, NEW l \in LinkSet,
           OnTheWay(l, v, d), ~IsRouter(l.dst)
    PROVE  l.dst = ReceiverOf(d)
<1> DEFINE R == ReceiverOf(d)
<1>1. /\ net \in Descriptions /\ l.dst \in Switches /\ R \in Switches
      /\ WeightsOfLinks(weights[v], v)
  BY ReadyIs DEF Ready, BuildInv, EndsInv
<1>2. CASE algorithm = "XY_"
  BY <1>2 DEF OnTheWay
<1>3. CASE algorithm = "TABLE_"
  <2> SUFFICES ASSUME l.dst # R PROVE FALSE
    OBVIOUS
  <2>1. dist[v][l.dst][R] < Infinite
    BY <1>3 DEF OnTheWay
  <2>2. PICK k \in Switches \ {l.dst} : weights[v][l.dst][k] < Infinite
    BY <1>1, <2>1, NextHop
  <2>3. PICK f \in LinkSet : f.src = l.dst
    BY <1>1, <2>2 DEF WeightsOfLinks
  <2>4. \E n \in Nodes : l.dst = ReceiverOf(n)
    BY <1>1, LinksAllAre
  <2>5. f.src \in Nodes \/ IsRouter(f.src)
    BY <1>1, LinksAllAre
  <2> QED
    BY <1>1, <2>3, <2>4, <2>5, Numbers
<1> QED
  BY <1>2, <1>3 DEF AlgorithmInv

(* In every network whose links all weigh something and whose interfaces   *)
(* have one link per vnet, a packet that entered because its node is       *)
(* reachable finds an outport at every router, by the tables and in a mesh *)
(* by XY routing too, whichever outports are taken, and comes out at the   *)
(* node it is for (RouteExists): lookupRoutingTable never gives up with    *)
(* "No Route exists".                                                      *)
THEOREM PacketsFindTheirWay == ASSUME AllRoutable PROVE Spec => []RouteExists
<1>1. RouteInv => RouteExists
  <2> SUFFICES ASSUME RouteInv, pkt # NoPacket PROVE RouteExists
    BY DEF RouteExists, AtRouter
  <2>1. /\ phase = "route" /\ pkt \in [vnet : net.vnets, dest : Nodes, link : LinkSet]
        /\ \E m \in DOMAIN net.ext : LastLink(m, pkt.vnet, pkt.dest)
        /\ OnTheWay(pkt.link, pkt.vnet, pkt.dest)
    BY DEF RouteInv, PacketInv
  <2>2. Ready /\ AlgorithmInv
    BY <2>1, PacketMeansReady DEF RouteInv
  <2>3. ASSUME IsRouter(pkt.link.dst)
        PROVE  OutportCompute(pkt.link.dst, pkt.vnet, pkt.dest) # {}
    BY <2>1, <2>2, <2>3, HopLeadsOn
  <2>4. ASSUME ~IsRouter(pkt.link.dst) PROVE pkt.link.dst = ReceiverOf(pkt.dest)
    BY <2>1, <2>2, <2>4, EndsAreRight
  <2> QED
    BY <2>3, <2>4 DEF RouteExists, AtRouter
<1> QED
  BY <1>1, RouteAlways, PTL

(* Towards the destination is never back where the packet came from.       *)
LEMMA NeverBack ==
    ASSUME net \in Descriptions, net.cols \in Nat \ {0},
           NEW me \in 0 .. net.routers - 1, NEW home \in 0 .. net.routers - 1,
           NEW dirn, NEW from, Towards(dirn, me, home), Turned(from, me, home)
    PROVE  XYAllows(dirn, from)
<1> DEFINE c == net.cols
           x == me % c
           y == me \div c
           a == home % c
           b == home \div c
<1>1. c \in Nat \ {0} /\ me \in Nat /\ home \in Nat
  OBVIOUS
<1> HIDE DEF c
<1>2. x \in Int /\ y \in Int /\ a \in Int /\ b \in Int
  BY <1>1, DivAndMod
<1>3. \/ dirn = "East" /\ x < a
      \/ dirn = "West" /\ a < x
      \/ dirn = "North" /\ x = a /\ y < b
      \/ dirn = "South" /\ x = a /\ b < y
  BY DEF Towards, c
<1>4. /\ from \in {"Local", "East", "West", "North", "South"}
      /\ from = "West"  => x <= a
      /\ from = "East"  => a <= x
      /\ from = "South" => x = a /\ y <= b
      /\ from = "North" => x = a /\ b <= y
  BY DEF Turned, c
<1> HIDE DEF x, y, a, b
<1>5. /\ dirn = "East" => from \in {"Local", "West"}
      /\ dirn = "West" => from \in {"Local", "East"}
      /\ dirn = "North" => from # "North"
      /\ dirn = "South" => from # "South"
      /\ dirn \in {"East", "West", "North", "South"}
  BY <1>2, <1>3, <1>4
<1> QED
  BY <1>5 DEF XYAllows

(* In every mesh the assertions of outportComputeXY hold at every router a *)
(* packet passes, and the direction it computes is one the router has an   *)
(* outport for (XYAssertsHold).                                            *)
THEOREM XYNeverTurnsBack == ASSUME AllRoutable PROVE Spec => []XYAssertsHold
<1>1. RouteInv => XYAssertsHold
  <2> SUFFICES ASSUME RouteInv, AtRouter, algorithm = "XY_",
                      pkt.link.dst # RouterOf(pkt.dest, pkt.vnet)
               PROVE  XYAssertsHold
    BY DEF XYAssertsHold
  <2> DEFINE l == pkt.link
             v == pkt.vnet
             d == pkt.dest
             r == l.dst
  <2>1. pkt # NoPacket /\ IsRouter(r)
    BY DEF AtRouter
  <2>2. /\ phase = "route" /\ v \in net.vnets /\ d \in Nodes /\ l \in LinkSet
        /\ \E m \in DOMAIN net.ext : LastLink(m, v, d)
        /\ OnTheWay(l, v, d)
    BY <2>1 DEF RouteInv, PacketInv
  <2>3. Ready /\ AlgorithmInv /\ net \in Descriptions /\ net.cols \in Nat \ {0}
    <3>1. Ready /\ AlgorithmInv
      BY <2>2, PacketMeansReady DEF RouteInv
    <3>2. net \in Descriptions
      BY <2>2, <3>1, ReadyIs
    <3> QED
      BY <3>1, <3>2 DEF AlgorithmInv, Ready, Routable, IsMesh
  <2>4. PICK m \in DOMAIN net.ext : LastLink(m, v, d)
    BY <2>2
  <2>5. PICK home \in 0 .. net.routers - 1 :
           /\ RouterOf(d, v) = RouterSwitch(home) /\ RouterSwitch(home) - 2 * net.nodes = home
    <3>1. RouterOf(d, v) = RouterSwitch(net.ext[m].router)
      BY <2>2, <2>3, <2>4, InterfacePort DEF LastLink
    <3> QED
      BY <2>3, <3>1, ExtLinks, Numbers
  <2>6. PICK me \in 0 .. net.routers - 1 : r = RouterSwitch(me) /\ r - 2 * net.nodes = me
    BY <2>1, <2>2, <2>3, KindsOfLinks, Numbers
  <2>7. Turned(l.inDirn, me, home)
    <3>1. l.dst # ReceiverOf(d)
      BY <2>1, <2>2, <2>3, Numbers
    <3> QED
      BY <2>2, <2>5, <2>6, <3>1 DEF OnTheWay
  <2> DEFINE dirn == DirectionXY(me, home)
  <2>8. me # home
    BY <2>5, <2>6
  <2>9. /\ Towards(dirn, me, home) /\ PortOfDirection(r, dirn) \in DOMAIN outports[r]
        /\ outports[r][PortOfDirection(r, dirn)].link.outDirn = dirn
    BY <2>2, <2>3, <2>6, <2>8, XYLeadsOn
  <2>10. XYAllows(dirn, l.inDirn)
    BY <2>3, <2>7, <2>9, NeverBack
  <2> QED
    BY <2>5, <2>6, <2>9, <2>10 DEF XYAssertsHold
<1> QED
  BY <1>1, RouteAlways, PTL

-----------------------------------------------------------------------------
(* The tables of a mesh                                                    *)

(* Meshes have the weights Mesh_XY gives them.                             *)
AllMeshXY == \A d \in Descriptions : d.cols > 0 => MeshXY(d)

(* The length of the ways from router me to router home, where a column    *)
(* weighs 1 and a row 2.                                                   *)
Apart(i, j) == IF i <= j THEN j - i ELSE i - j
Length(me, home) ==
    Apart(me % net.cols, home % net.cols) + 2 * Apart(me \div net.cols, home \div net.cols)

(* A step in direction dirn brings me closer to home.                      *)
Closer(dirn, me, home) ==
    LET x == me % net.cols      y == me \div net.cols
        a == home % net.cols    b == home \div net.cols
    IN  \/ dirn = "East" /\ x < a
        \/ dirn = "West" /\ a < x
        \/ dirn = "North" /\ y < b
        \/ dirn = "South" /\ b < y

LEMMA PlaceIs ==
    ASSUME NEW s \in Nat, NEW c \in Nat \ {0}
    PROVE  s % c \in Nat /\ s \div c \in Nat
<1>1. s \div c \in Nat /\ s % c \in 0 .. c - 1
  BY DivAndMod
<1> QED
  BY <1>1

LEMMA LengthIs ==
    ASSUME net \in Descriptions, MeshXY(net), NEW me \in 0 .. net.routers - 1,
           NEW home \in 0 .. net.routers - 1
    PROVE  /\ Length(me, home) \in Nat
           /\ Length(home, home) = 0
<1> DEFINE c == net.cols
           x == me % c
           y == me \div c
           a == home % c
           b == home \div c
<1>1. c \in Nat \ {0} /\ me \in Nat /\ home \in Nat
  BY DEF MeshXY, IsMesh
<1> HIDE DEF c
<1>2. x \in Nat /\ y \in Nat /\ a \in Nat /\ b \in Nat
  BY <1>1, PlaceIs
<1>3. Length(me, home) = Apart(x, a) + 2 * Apart(y, b) /\ Length(home, home) = Apart(a, a) + 2 * Apart(b, b)
  BY DEF Length, c
<1> HIDE DEF x, y, a, b
<1> QED
  BY <1>2, <1>3 DEF Apart

(* No link of the mesh brings a packet closer by more than it weighs, and  *)
(* those that do by just as much lead in a direction of its home.          *)
LEMMA StepIsShort ==
    ASSUME net \in Descriptions, MeshXY(net), NEW n \in DOMAIN net.int,
           NEW home \in 0 .. net.routers - 1
    PROVE  LET e == net.int[n]
           IN  /\ e.weight \in {1, 2}
               /\ Length(e.src, home) <= e.weight + Length(e.dst, home)
               /\ Length(e.src, home) = e.weight + Length(e.dst, home)
                    <=> Closer(e.outDirn, e.src, home)
<1> DEFINE e == net.int[n]
           c == net.cols
           x == e.src % c
           y == e.src \div c
           i == e.dst % c
           j == e.dst \div c
           a == home % c
           b == home \div c
           dirn == e.outDirn
<1>1. /\ c \in Nat \ {0} /\ e.src \in Nat /\ e.dst \in Nat /\ home \in Nat
  BY DescriptionsAssumption DEF MeshXY, IsMesh
<1>2. /\ dirn \in DOMAIN Offset /\ Offset[dirn] = <<i - x, j - y>>
      /\ e.weight = IF dirn \in {"East", "West"} THEN 1 ELSE 2
  BY DEF MeshXY, IsMesh, NextTo
<1>3. /\ Length(e.src, home) = Apart(x, a) + 2 * Apart(y, b)
      /\ Length(e.dst, home) = Apart(i, a) + 2 * Apart(j, b)
  BY DEF Length
<1>4. Closer(dirn, e.src, home) <=> \/ dirn = "East" /\ x < a
                                    \/ dirn = "West" /\ a < x
                                    \/ dirn = "North" /\ y < b
                                    \/ dirn = "South" /\ b < y
  BY DEF Closer
<1> HIDE DEF c, e
<1>5. x \in Nat /\ y \in Nat /\ a \in Nat /\ b \in Nat /\ i \in Nat /\ j \in Nat
  BY <1>1, PlaceIs
<1> DEFINE w == e.weight
           m == Length(e.src, home)
           k == Length(e.dst, home)
<1> HIDE DEF x, y, i, j, a, b, dirn, e
<1>6. /\ dirn \in {"East", "West", "North", "South"}
      /\ dirn = "East" => i = x + 1 /\ j = y /\ w = 1
      /\ dirn = "West" => x = i + 1 /\ j = y /\ w = 1
      /\ dirn = "North" => i = x /\ j = y + 1 /\ w = 2
      /\ dirn = "South" => i = x /\ y = j + 1 /\ w = 2
  BY <1>2, <1>5 DEF Offset
<1> HIDE DEF w, m, k
<1>7. m = Apart(x, a) + 2 * Apart(y, b) /\ k = Apart(i, a) + 2 * Apart(j, b)
  BY <1>3 DEF m, k
<1> DEFINE p == \/ dirn = "East" /\ x < a
                \/ dirn = "West" /\ a < x
                \/ dirn = "North" /\ y < b
                \/ dirn = "South" /\ b < y
<1>8. w \in {1, 2} /\ m <= w + k /\ (m = w + k <=> p)
  <2>1. CASE dirn = "East"
    BY <1>5, <1>6, <1>7, <2>1 DEF Apart
  <2>2. CASE dirn = "West"
    BY <1>5, <1>6, <1>7, <2>2 DEF Apart
  <2>3. CASE dirn = "North"
    BY <1>5, <1>6, <1>7, <2>3 DEF Apart
  <2>4. CASE dirn = "South"
    BY <1>5, <1>6, <1>7, <2>4 DEF Apart
  <2> QED
    BY <1>6, <2>1, <2>2, <2>3, <2>4
<1> HIDE DEF p
<1>9. p <=> Closer(dirn, e.src, home)
  BY <1>4 DEF p
<1> QED
  BY <1>8, <1>9 DEF w, m, k, e, dirn

(* Away from home a link leads closer, in the direction XY routing takes.  *)
LEMMA LinkTowards ==
    ASSUME net \in Descriptions, MeshXY(net), NEW me \in 0 .. net.routers - 1,
           NEW home \in 0 .. net.routers - 1, me # home
    PROVE  \E n \in DOMAIN net.int :
              /\ net.int[n].src = me /\ Towards(net.int[n].outDirn, me, home)
              /\ Closer(net.int[n].outDirn, me, home)
<1> DEFINE dirn == DirectionXY(me, home)
<1>1. IsMesh(net)
  BY DEF MeshXY
<1>2. /\ Towards(dirn, me, home) /\ dirn \in DOMAIN Offset
      /\ \E s \in 0 .. net.routers - 1 : NextTo(net, me, dirn, s)
  BY <1>1, DirectionTowards
<1> HIDE DEF dirn
<1>3. PICK n \in DOMAIN net.int : net.int[n].src = me /\ net.int[n].outDirn = dirn
  BY <1>1, <1>2 DEF IsMesh
<1>4. Closer(dirn, me, home)
  BY <1>2 DEF Towards, Closer
<1> QED
  BY <1>2, <1>3, <1>4

(* A mesh that is built, and the node d for whose one link for vnet v the  *)
(* router home is there.                                                   *)
HomeIs(v, d, home) ==
    /\ Ready /\ MeshXY(net) /\ v \in net.vnets /\ d \in Nodes
    /\ \E m \in DOMAIN net.ext : LastLink(m, v, d) /\ net.ext[m].router = home

(* Every node of a mesh has a home.                                        *)
LEMMA EveryNodeHasHome ==
    ASSUME Ready, MeshXY(net), NEW v \in net.vnets, NEW d \in Nodes
    PROVE  \E home \in 0 .. net.routers - 1 :
              HomeIs(v, d, home) /\ RouterOf(d, v) = RouterSwitch(home)
<1> DEFINE R == ReceiverOf(d)
<1>1. /\ net \in Descriptions /\ Direct(Switches, weights[v], dist[v])
      /\ weights[v] \in Table(Switches) /\ dist[v] \in Table(Switches) /\ R \in Switches
  BY ReadyIs DEF Ready, BuildInv, EndsInv
<1>2. PICK n \in DOMAIN net.ext :
         net.ext[n].node = d /\ Supports(net.ext[n], v) /\ net.ext[n].weight < Infinite
  BY DEF MeshXY, Nodes
<1> DEFINE l == ExtOut(net.ext[n])
<1>3. /\ l \in LinkSet /\ l.dst = R /\ Supports(l, v) /\ l.weight < Infinite
      /\ l.weight \in 0 .. Infinite
  BY <1>1, <1>2, ExtLinks DEF Supports
<1> HIDE DEF l
<1>4. l.src \in Switches /\ weights[v][l.src][R] = l.weight /\ l.src # R
  BY <1>1, <1>3, LinkHasPort, LinksAllAre
<1>5. dist[v][l.src][R] < Infinite
  <2>1. dist[v][l.src][R] <= l.weight /\ dist[v][l.src][R] \in 0 .. Infinite
    BY <1>1, <1>4 DEF Direct, Table
  <2> QED
    BY <1>3, <2>1, InfiniteAssumption
<1>6. PICK m \in DOMAIN net.ext : LastLink(m, v, d)
  BY <1>1, <1>4, <1>5, LastLinkExists
<1>7. net.ext[m].router \in 0 .. net.routers - 1
  BY <1>1, ExtLinks
<1>8. RouterOf(d, v) = RouterSwitch(net.ext[m].router)
  BY <1>6, InterfacePort DEF LastLink
<1> QED
  BY <1>6, <1>7, <1>8 DEF HomeIs

(* What a home is: a router from which the link weighs some w, from which  *)
(* all ports that lead to the node do so at once.                          *)
LEMMA HomeOf ==
    ASSUME NEW v, NEW d, NEW home, HomeIs(v, d, home)
    PROVE  /\ net \in Descriptions /\ home \in 0 .. net.routers - 1
           /\ RouterSwitch(home) \in Switches /\ RouterOf(d, v) = RouterSwitch(home)
           /\ AllLeadHome(RouterSwitch(home), v, d)
           /\ dist[v][RouterSwitch(home)][ReceiverOf(d)] \in Nat
           /\ dist[v][RouterSwitch(home)][ReceiverOf(d)] < Infinite
           /\ \A k \in Switches \ {ReceiverOf(d)} :
                 dist[v][RouterSwitch(home)][ReceiverOf(d)] <= dist[v][k][ReceiverOf(d)]
<1> DEFINE R == ReceiverOf(d)
           H == RouterSwitch(home)
<1>1. /\ Ready /\ v \in net.vnets /\ d \in Nodes
  BY DEF HomeIs
<1>2. PICK m \in DOMAIN net.ext : LastLink(m, v, d) /\ net.ext[m].router = home
  BY DEF HomeIs
<1> DEFINE w == net.ext[m].weight
<1>3. /\ net \in Descriptions /\ dist[v] \in Table(Switches) /\ R \in Switches
      /\ Direct(Switches, weights[v], dist[v])
  BY <1>1, ReadyIs DEF Ready, BuildInv, EndsInv
<1>4. home \in 0 .. net.routers - 1 /\ w \in 0 .. Infinite
  BY <1>2, <1>3, ExtLinks
<1>5. H \in Switches /\ H # R /\ dist[v][H][R] < Infinite /\ AllLeadHome(H, v, d)
  BY <1>1, <1>2, HomeLeadsThere
<1>6. RouterOf(d, v) = H
  BY <1>1, <1>2, InterfacePort DEF LastLink
<1> DEFINE l == ExtOut(net.ext[m])
<1>7. /\ l \in LinkSet /\ l.src = H /\ l.dst = R /\ l.weight = w /\ Supports(l, v)
  BY <1>2, <1>3, ExtLinks DEF LastLink, Supports
<1> HIDE DEF l
<1>8. weights[v][H][R] = w
  BY <1>1, <1>2, <1>7, LinkHasPort DEF LastLink
<1>9. dist[v][H][R] <= w /\ w <= dist[v][H][R] /\ dist[v][H][R] \in 0 .. Infinite
  BY <1>2, <1>3, <1>5, <1>8 DEF LastLink, Direct, Table
<1>10. dist[v][H][R] = w /\ dist[v][H][R] \in Nat
  BY <1>4, <1>9, InfiniteAssumption
<1>11. \A k \in Switches \ {R} : dist[v][H][R] <= dist[v][k][R]
  BY <1>2, <1>10 DEF LastLink
<1> QED
  BY <1>3, <1>4, <1>5, <1>6, <1>10, <1>11

(* The links between routers are those of the description.                 *)
LEMMA InnerLink ==
    ASSUME net \in Descriptions, NEW l \in LinkSet, IsRouter(l.src), IsRouter(l.dst)
    PROVE  \E n \in DOMAIN net.int :
              /\ l = Internal(net.int[n]) /\ l.outDirn = net.int[n].outDirn
              /\ l.src = RouterSwitch(net.int[n].src) /\ l.dst = RouterSwitch(net.int[n].dst)
              /\ net.int[n].src \in 0 .. net.routers - 1
              /\ net.int[n].dst \in 0 .. net.routers - 1
              /\ l.weight = net.int[n].weight
<1>1. ~(\E n \in DOMAIN net.ext : l = ExtIn(net.ext[n]))
  BY ExtLinks, Numbers
<1>2. ~(\E n \in DOMAIN net.ext : l = ExtOut(net.ext[n]))
  BY ExtLinks, Numbers
<1>3. PICK n \in DOMAIN net.int : l = Internal(net.int[n])
  BY <1>1, <1>2 DEF LinkSet
<1> QED
  BY <1>3, IntLinks

LEMMA SameRouter ==
    ASSUME net \in Descriptions, NEW r \in 0 .. net.routers - 1, NEW s \in 0 .. net.routers - 1,
           RouterSwitch(r) = RouterSwitch(s)
    PROVE  r = s
<1>1. RouterSwitch(r) - 2 * net.nodes = r /\ RouterSwitch(s) - 2 * net.nodes = s
  BY Numbers
<1> QED
  BY <1>1

(* The way from router s to the node by the length of the mesh, and by the *)
(* tables.                                                                 *)
Far(v, d, home, s) == dist[v][RouterSwitch(home)][ReceiverOf(d)] + Length(s, home)
FromRouter(v, d, s) == dist[v][RouterSwitch(s)][ReceiverOf(d)]

LEMMA FarIs ==
    ASSUME NEW v, NEW d, NEW home, HomeIs(v, d, home), NEW s \in 0 .. net.routers - 1
    PROVE  /\ Far(v, d, home, s) \in Nat
           /\ RouterSwitch(s) \in Switches => FromRouter(v, d, s) \in 0 .. Infinite
           /\ Far(v, d, home, home) = FromRouter(v, d, home)
<1>1. /\ net \in Descriptions /\ MeshXY(net) /\ home \in 0 .. net.routers - 1
      /\ dist[v][RouterSwitch(home)][ReceiverOf(d)] \in Nat
      /\ dist[v] \in Table(Switches) /\ ReceiverOf(d) \in Switches
  BY HomeOf, ReadyIs DEF HomeIs, Ready, BuildInv, EndsInv
<1>2. Length(s, home) \in Nat /\ Length(home, home) = 0
  BY <1>1, LengthIs
<1>3. RouterSwitch(s) \in Switches => FromRouter(v, d, s) \in 0 .. Infinite
  BY <1>1 DEF FromRouter, Table
<1> QED
  BY <1>1, <1>2, <1>3 DEF Far, FromRouter

(* No distance is more than the length of the mesh.                        *)
LEMMA NeverFarther ==
    ASSUME NEW v, NEW d, NEW home, HomeIs(v, d, home)
    PROVE  \A s \in 0 .. net.routers - 1 :
              RouterSwitch(s) \in Switches /\ FromRouter(v, d, s) <= Far(v, d, home, s)
<1> DEFINE All == 0 .. net.routers - 1
           Bad == {s \in All : ~(RouterSwitch(s) \in Switches /\ FromRouter(v, d, s) <= Far(v, d, home, s))}
           rank == [s \in Bad |-> Far(v, d, home, s)]
           R == ReceiverOf(d)
<1>1. /\ net \in Descriptions /\ MeshXY(net) /\ home \in All /\ Ready
      /\ v \in net.vnets /\ d \in Nodes /\ RouterSwitch(home) \in Switches
  BY HomeOf DEF HomeIs
<1>2. /\ weights[v] \in Table(Switches) /\ dist[v] \in Table(Switches) /\ R \in Switches
      /\ \A i, j \in Switches : dist[v][i][j] = Best(Switches, weights[v], dist[v], i, j)
  BY <1>1, ReadyIs DEF Ready, BuildInv, EndsInv
<1> SUFFICES ASSUME Bad # {} PROVE FALSE
  OBVIOUS
<1>3. rank \in [Bad -> Nat]
  BY FarIs
<1>4. PICK s \in Bad : \A k \in Bad : rank[s] <= rank[k]
  <2> HIDE DEF Bad, rank
  <2> QED
    BY <1>3, LeastRank
<1>5. s \in All /\ \A k \in Bad : Far(v, d, home, s) <= Far(v, d, home, k)
  BY <1>4
<1> HIDE DEF rank
<1>6. s # home
  <2>1. home \notin Bad
    <3>1. Far(v, d, home, home) = FromRouter(v, d, home) /\ Far(v, d, home, home) \in Nat
      BY <1>1, FarIs
    <3>2. FromRouter(v, d, home) <= Far(v, d, home, home)
      BY <3>1
    <3> QED
      BY <1>1, <3>2
  <2> QED
    BY <1>4, <2>1
<1>7. PICK n \in DOMAIN net.int : net.int[n].src = s /\ Closer(net.int[n].outDirn, s, home)
  BY <1>1, <1>5, <1>6, LinkTowards
<1> DEFINE e == net.int[n]
           t == e.dst
           l == Internal(e)
<1>8. /\ t \in All /\ l \in LinkSet /\ l.src = RouterSwitch(s) /\ l.dst = RouterSwitch(t)
      /\ l.weight = e.weight /\ Supports(l, v) /\ e.weight < Infinite
  <2>1. e.vnets = {} /\ e.weight < Infinite
    BY <1>1 DEF MeshXY, IsMesh
  <2> QED
    BY <1>1, <1>7, <2>1, IntLinks DEF Supports
<1>9. e.weight \in {1, 2} /\ Length(s, home) = e.weight + Length(t, home)
  BY <1>1, <1>7, StepIsShort
<1> HIDE DEF e, t, l
<1>10. /\ RouterSwitch(s) \in Switches /\ RouterSwitch(t) \in Switches
       /\ weights[v][RouterSwitch(s)][RouterSwitch(t)] = e.weight
  BY <1>1, <1>8, LinkHasPort
<1>11. Far(v, d, home, s) = e.weight + Far(v, d, home, t)
  <2>1. Length(t, home) \in Nat /\ dist[v][RouterSwitch(home)][R] \in Nat
    BY <1>1, <1>8, LengthIs, HomeOf
  <2> QED
    BY <1>9, <2>1 DEF Far
<1>12. t \notin Bad
  <2>1. Far(v, d, home, t) \in Nat
    BY <1>8, FarIs
  <2>2. ~(Far(v, d, home, s) <= Far(v, d, home, t))
    BY <1>9, <1>11, <2>1
  <2> QED
    BY <1>5, <2>2
<1>13. FromRouter(v, d, t) <= Far(v, d, home, t)
  BY <1>8, <1>12
<1>14. FromRouter(v, d, s) <= e.weight + FromRouter(v, d, t)
  <2> DEFINE W == weights[v]
             D == dist[v]
             i == RouterSwitch(s)
             k == RouterSwitch(t)
             Ways == {Infinite} \cup {W[i][j] + D[j][R] : j \in Switches \ {i}}
  <2>1. i # R /\ i # k
    <3>1. l.src # l.dst
      BY <1>1, <1>8, LinksAllAre
    <3> QED
      BY <1>1, <1>5, <1>8, <3>1, Numbers
  <2>2. D[i][R] = Min(Ways)
    BY <1>2, <1>10, <2>1 DEF Best
  <2>3. \A j \in Switches : W[i][j] \in 0 .. Infinite /\ D[j][R] \in 0 .. Infinite
    BY <1>2, <1>10 DEF Table
  <2>4. Ways \in SUBSET Nat /\ e.weight + D[k][R] \in Ways
    <3>1. W[i][k] = e.weight
      BY <1>10
    <3>2. \A j \in Switches : W[i][j] + D[j][R] \in Nat
      <4> HIDE DEF W, D
      <4> QED
        BY <2>3, InfiniteAssumption
    <3> QED
      BY <1>10, <2>1, <3>1, <3>2, InfiniteAssumption
  <2> HIDE DEF Ways
  <2>5. \A x \in Ways : Min(Ways) <= x
    BY <2>4, LeastNumber DEF Min
  <2> QED
    BY <2>2, <2>4, <2>5 DEF FromRouter
<1>15. FromRouter(v, d, s) <= Far(v, d, home, s)
  <2> DEFINE a == FromRouter(v, d, s)
             b == FromRouter(v, d, t)
             f == Far(v, d, home, s)
             g == Far(v, d, home, t)
             w == e.weight
  <2>1. a \in Int /\ b \in Int /\ f \in Int /\ g \in Int /\ w \in Int
    BY <1>5, <1>8, <1>9, <1>10, FarIs, InfiniteAssumption
  <2>2. a <= w + b /\ b <= g /\ f = w + g
    BY <1>11, <1>13, <1>14
  <2> HIDE DEF a, b, f, g, w
  <2>3. a <= f
    BY <2>1, <2>2
  <2> QED
    BY <2>3 DEF a, f
<1> QED
  BY <1>4, <1>10, <1>15

(* Nothing leads on from the receiving half of an interface.               *)
LEMMA ReceiversEnd ==
    ASSUME Ready, NEW v \in net.vnets, NEW d \in Nodes, NEW i \in Switches, ~IsRouter(i),
           i \notin Nodes, dist[v][i][ReceiverOf(d)] < Infinite
    PROVE  i = ReceiverOf(d)
<1>1. net \in Descriptions /\ ReceiverOf(d) \in Switches /\ WeightsOfLinks(weights[v], v)
  BY ReadyIs DEF Ready, BuildInv, EndsInv
<1> SUFFICES ASSUME i # ReceiverOf(d) PROVE FALSE
  OBVIOUS
<1>2. PICK k \in Switches \ {i} : weights[v][i][k] < Infinite
  BY <1>1, NextHop
<1>3. PICK l \in LinkSet : l.src = i
  BY <1>1, <1>2 DEF WeightsOfLinks
<1> QED
  BY <1>1, <1>3, LinksAllAre

(* No distance is less than the length of the mesh, unless the node is out *)
(* of reach.                                                               *)
LEMMA NeverNearer ==
    ASSUME NEW v, NEW d, NEW home, HomeIs(v, d, home)
    PROVE  \A s \in 0 .. net.routers - 1 :
              FromRouter(v, d, s) < Infinite => Far(v, d, home, s) <= FromRouter(v, d, s)
<1> DEFINE All == 0 .. net.routers - 1
           Bad == {s \in All : FromRouter(v, d, s) < Infinite
                                /\ ~(Far(v, d, home, s) <= FromRouter(v, d, s))}
           rank == [s \in Bad |-> FromRouter(v, d, s)]
           R == ReceiverOf(d)
<1>1. /\ net \in Descriptions /\ MeshXY(net) /\ home \in All /\ Ready
      /\ v \in net.vnets /\ d \in Nodes
      /\ \A k \in Switches \ {R} : FromRouter(v, d, home) <= dist[v][k][R]
      /\ \A s \in All : RouterSwitch(s) \in Switches
  BY HomeOf, NeverFarther DEF HomeIs, FromRouter
<1>2. /\ weights[v] \in Table(Switches) /\ dist[v] \in Table(Switches) /\ R \in Switches
      /\ WeightsOfLinks(weights[v], v)
  BY <1>1, ReadyIs DEF Ready, BuildInv, EndsInv
<1> SUFFICES ASSUME Bad # {} PROVE FALSE
  OBVIOUS
<1>3. rank \in [Bad -> Nat]
  <2>1. \A s \in Bad : FromRouter(v, d, s) \in 0 .. Infinite
    BY <1>1, FarIs
  <2> QED
    BY <2>1, InfiniteAssumption
<1>4. PICK s \in Bad : \A k \in Bad : rank[s] <= rank[k]
  <2> HIDE DEF Bad, rank
  <2> QED
    BY <1>3, LeastRank
<1>5. /\ s \in All /\ RouterSwitch(s) \in Switches /\ FromRouter(v, d, s) < Infinite
      /\ ~(Far(v, d, home, s) <= FromRouter(v, d, s))
      /\ \A k \in Bad : FromRouter(v, d, s) <= FromRouter(v, d, k)
  BY <1>1, <1>4
<1> HIDE DEF rank
<1> DEFINE i == RouterSwitch(s)
           W == weights[v]
           D == dist[v]
<1>6. i # R /\ IsRouter(i) /\ ~IsRouter(R) /\ R \notin Nodes
  BY <1>1, <1>5, Numbers
<1>7. PICK k \in Switches \ {i} : W[i][k] + D[k][R] = FromRouter(v, d, s) /\ W[i][k] < Infinite
  BY <1>1, <1>2, <1>5, <1>6, NextHop DEF FromRouter
<1>8. PICK l \in LinkSet : l.src = i /\ l.dst = k /\ Supports(l, v) /\ l.weight = W[i][k]
  BY <1>2, <1>5, <1>7 DEF WeightsOfLinks
<1>9. /\ W[i][k] \in Nat /\ D[k][R] \in Nat /\ W[i][k] > 0 /\ D[k][R] < FromRouter(v, d, s)
      /\ D[k][R] < Infinite /\ FromRouter(v, d, s) \in Nat
  <2> DEFINE a == W[i][k]
             b == D[k][R]
             f == FromRouter(v, d, s)
  <2>1. a \in 0 .. Infinite /\ b \in 0 .. Infinite /\ f \in 0 .. Infinite /\ a > 0
    BY <1>1, <1>2, <1>5, <1>7, <1>8, FarIs, WeightsArePositive DEF Ready, Table
  <2>2. a + b = f /\ f < Infinite
    BY <1>5, <1>7
  <2> HIDE DEF a, b, f
  <2>3. a \in Nat /\ b \in Nat /\ f \in Nat /\ b < f /\ b < Infinite
    BY <2>1, <2>2, InfiniteAssumption
  <2> QED
    BY <2>1, <2>3 DEF a, b, f
<1>10. CASE IsRouter(k)
  <2>1. PICK n \in DOMAIN net.int :
           /\ i = RouterSwitch(net.int[n].src) /\ k = RouterSwitch(net.int[n].dst)
           /\ net.int[n].src \in All /\ net.int[n].dst \in All
           /\ l.weight = net.int[n].weight
    BY <1>1, <1>6, <1>8, <1>10, InnerLink
  <2> DEFINE t == net.int[n].dst
  <2>2. net.int[n].src = s
    BY <1>1, <1>5, <2>1, SameRouter
  <2>3. Length(s, home) <= W[i][k] + Length(t, home)
    BY <1>1, <1>8, <2>1, <2>2, StepIsShort
  <2>4. FromRouter(v, d, t) = D[k][R] /\ t \in All
    BY <2>1 DEF FromRouter
  <2> HIDE DEF t
  <2>5. Far(v, d, home, t) <= FromRouter(v, d, t)
    <3>1. t \notin Bad
      <4>1. ~(FromRouter(v, d, s) <= FromRouter(v, d, t))
        BY <1>9, <2>4
      <4> QED
        BY <1>5, <4>1
    <3> QED
      BY <1>9, <2>4, <3>1
  <2>6. Far(v, d, home, s) <= FromRouter(v, d, s)
    <3> DEFINE h == FromRouter(v, d, home)
               m == Length(s, home)
               o == Length(t, home)
               a == W[i][k]
               b == D[k][R]
    <3>1. h \in Int /\ m \in Int /\ o \in Int /\ a \in Int /\ b \in Int
      BY <1>1, <1>5, <1>9, <2>4, LengthIs, FarIs, InfiniteAssumption
    <3>2. m <= a + o /\ h + o <= b
      BY <2>3, <2>4, <2>5 DEF Far, FromRouter
    <3>3. Far(v, d, home, s) = h + m /\ FromRouter(v, d, s) = a + b
      BY <1>7 DEF Far, FromRouter
    <3> HIDE DEF h, m, o, a, b
    <3>4. h + m <= a + b
      BY <3>1, <3>2
    <3> QED
      BY <3>3, <3>4
  <2> QED
    BY <1>5, <2>6
<1>11. CASE ~IsRouter(k)
  <2>1. k = R
    <3>1. k \in Switches /\ k \notin Nodes
      BY <1>1, <1>7, <1>8, <1>11, LinksAllAre, Numbers
    <3> QED
      BY <1>1, <1>9, <1>11, <3>1, ReceiversEnd
  <2>2. PICK m \in DOMAIN net.ext : l = ExtOut(net.ext[m]) /\ ReceiverOf(net.ext[m].node) = R
    BY <1>1, <1>8, <1>11, <2>1, KindsOfLinks
  <2>3. /\ net.ext[m].node = d /\ Supports(net.ext[m], v) /\ i = RouterSwitch(net.ext[m].router)
        /\ net.ext[m].router \in All
    BY <1>1, <1>8, <2>2, ExtLinks, Numbers DEF Supports
  <2>4. PICK n \in DOMAIN net.ext : LastLink(n, v, d) /\ net.ext[n].router = home
    BY DEF HomeIs
  <2>5. m = n
    BY <1>1, <2>3, <2>4 DEF LastLink, Ready, Routable, OneLinkPerVnet
  <2>6. s = home
    BY <1>1, <1>5, <2>3, <2>4, <2>5, SameRouter
  <2>7. Far(v, d, home, home) = FromRouter(v, d, home)
    BY <1>1, FarIs
  <2> QED
    BY <1>5, <1>9, <2>6, <2>7
<1> QED
  BY <1>10, <1>11

(* Every port the tables offer to another router leads towards the column  *)
(* of the node first, and then to its row.                                 *)
LEMMA TablesLeadTowards ==
    ASSUME NEW v, NEW d, NEW home, HomeIs(v, d, home), NEW me \in 0 .. net.routers - 1,
           NEW p \in LookupRoutingTable(RouterSwitch(me), v, d),
           NEW l, l = outports[RouterSwitch(me)][p].link, IsRouter(l.dst)
    PROVE  me # home /\ Towards(l.outDirn, me, home)
<1> DEFINE r == RouterSwitch(me)
           R == ReceiverOf(d)
           P == PortsTo(r, v, d)
           h == FromRouter(v, d, home)
<1>1. /\ net \in Descriptions /\ MeshXY(net) /\ home \in 0 .. net.routers - 1 /\ Ready
      /\ v \in net.vnets /\ d \in Nodes /\ r \in Switches
      /\ AllLeadHome(RouterSwitch(home), v, d)
      /\ weights[v] \in Table(Switches) /\ dist[v] \in Table(Switches) /\ R \in Switches
      /\ h \in Nat /\ h < Infinite
  BY HomeOf, NeverFarther, ReadyIs DEF HomeIs, FromRouter, Ready, BuildInv, EndsInv
<1>2. p \in P /\ \A q \in P : l.weight <= outports[r][q].link.weight
  BY DEF LookupRoutingTable, LeastWeight
<1>3. /\ p \in DOMAIN outports[r] /\ d \in outports[r][p].routes[v]
      /\ l \in LinkSet /\ l.src = r /\ outports[r][p].routes = RoutesThrough(r, l.dst)
  BY <1>1, <1>2, PortIs DEF PortsTo
<1>4. me # home
  <2>1. l.dst # R
    BY <1>1, Numbers
  <2> QED
    BY <1>1, <1>2, <2>1 DEF AllLeadHome
<1>5. IsRealLink(r, l.dst, v) /\ weights[v][r][l.dst] + dist[v][l.dst][R] = dist[v][r][R]
  <2>1. d \in RoutesThrough(r, l.dst)[v]
    BY <1>3
  <2> QED
    BY <1>1, <2>1 DEF RoutesThrough, LinkIsShortestPathToNode
<1>6. PICK n \in DOMAIN net.int :
         /\ l.outDirn = net.int[n].outDirn /\ l.weight = net.int[n].weight
         /\ l.src = RouterSwitch(net.int[n].src) /\ l.dst = RouterSwitch(net.int[n].dst)
         /\ net.int[n].src \in 0 .. net.routers - 1 /\ net.int[n].dst \in 0 .. net.routers - 1
         /\ l = Internal(net.int[n])
  BY <1>1, <1>3, InnerLink, Numbers
<1> DEFINE t == net.int[n].dst
<1>7. net.int[n].src = me
  BY <1>1, <1>3, <1>6, SameRouter
<1>8. /\ l.weight \in {1, 2} /\ Length(me, home) <= l.weight + Length(t, home)
      /\ Length(me, home) = l.weight + Length(t, home) <=> Closer(l.outDirn, me, home)
  BY <1>1, <1>6, <1>7, StepIsShort
<1> HIDE DEF t
<1>9. weights[v][r][l.dst] = l.weight
  <2>1. Supports(l, v)
    BY <1>1, <1>6, IntLinks DEF MeshXY, IsMesh, Supports
  <2> QED
    BY <1>1, <1>3, <2>1, ReadyIs DEF WeightsOfLinks
<1>10. Closer(l.outDirn, me, home) /\ Far(v, d, home, me) <= Infinite
  <2> DEFINE m == Length(me, home)
             o == Length(t, home)
             w == l.weight
             a == FromRouter(v, d, me)
             b == FromRouter(v, d, t)
  <2>1. m \in Nat /\ o \in Nat /\ t \in 0 .. net.routers - 1
    BY <1>1, <1>6, LengthIs DEF t
  <2>2. a \in 0 .. Infinite /\ b \in 0 .. Infinite /\ w + b = a
    BY <1>1, <1>5, <1>6, <1>9, <2>1, NeverFarther, FarIs DEF FromRouter, t
  <2>3. a <= h + m /\ (b < Infinite => h + o <= b)
    BY <1>1, <2>1, NeverFarther, NeverNearer DEF Far, FromRouter
  <2>4. w \in {1, 2} /\ m <= w + o
    BY <1>8
  <2> HIDE DEF m, o, w, a, b, h
  <2>5. m = w + o /\ h + m <= Infinite
    BY <1>1, <2>1, <2>2, <2>3, <2>4, InfiniteAssumption
  <2> QED
    BY <1>8, <2>5 DEF m, o, w, h, Far, FromRouter
<1>11. PICK k \in DOMAIN net.int :
          /\ net.int[k].src = me /\ Towards(net.int[k].outDirn, me, home)
          /\ Closer(net.int[k].outDirn, me, home)
  BY <1>1, <1>4, LinkTowards
<1> DEFINE f == Internal(net.int[k])
           u == net.int[k].dst
<1>12. /\ f \in LinkSet /\ f.src = r /\ f.dst = RouterSwitch(u) /\ f.outDirn = net.int[k].outDirn
       /\ f.weight = net.int[k].weight /\ Supports(f, v) /\ f.weight < Infinite
       /\ u \in 0 .. net.routers - 1
  BY <1>1, <1>11, IntLinks DEF MeshXY, IsMesh, Supports
<1>13. f.weight \in {1, 2} /\ Length(me, home) = f.weight + Length(u, home)
  BY <1>1, <1>11, <1>12, StepIsShort
<1> HIDE DEF f, u
<1>14. PICK q \in DOMAIN outports[r] : /\ outports[r][q].link = f
                                       /\ outports[r][q].routes = RoutesThrough(r, f.dst)
                                       /\ IsRealLink(r, f.dst, v) /\ weights[v][r][f.dst] = f.weight
  BY <1>1, <1>12, LinkHasPort
<1>15. f.weight + FromRouter(v, d, u) = FromRouter(v, d, me)
  <2> DEFINE m == Length(me, home)
             o == Length(u, home)
             w == f.weight
             a == FromRouter(v, d, me)
             b == FromRouter(v, d, u)
  <2>1. m \in Nat /\ o \in Nat
    BY <1>1, <1>12, LengthIs
  <2>2. a \in 0 .. Infinite /\ b \in 0 .. Infinite
    BY <1>1, <1>12, NeverFarther, FarIs
  <2>3. /\ a <= h + m /\ (a < Infinite => h + m <= a)
        /\ b <= h + o /\ (b < Infinite => h + o <= b)
    BY <1>1, <1>12, NeverFarther, NeverNearer DEF Far, FromRouter
  <2>4. w \in {1, 2} /\ m = w + o /\ h + m <= Infinite
    BY <1>10, <1>13 DEF Far, FromRouter
  <2> HIDE DEF m, o, w, a, b, h
  <2>5. w + b = a
    BY <1>1, <2>1, <2>2, <2>3, <2>4, InfiniteAssumption
  <2> QED
    BY <2>5 DEF w, b, a
<1>16. q \in P
  <2>1. LinkIsShortestPathToNode(r, f.dst, R, v)
    BY <1>12, <1>14, <1>15 DEF LinkIsShortestPathToNode, FromRouter
  <2> QED
    BY <1>1, <1>14, <2>1 DEF PortsTo, RoutesThrough
<1>17. l.weight <= f.weight
  BY <1>2, <1>14, <1>16
<1>18. /\ l.weight = IF l.outDirn \in {"East", "West"} THEN 1 ELSE 2
       /\ f.weight = IF f.outDirn \in {"East", "West"} THEN 1 ELSE 2
  BY <1>1, <1>6, <1>12 DEF MeshXY
<1>19. /\ Closer(l.outDirn, me, home) /\ Towards(f.outDirn, me, home)
  BY <1>10, <1>11, <1>12
<1>20. Towards(l.outDirn, me, home)
  <2> DEFINE c == net.cols
             x == me % c
             y == me \div c
             a == home % c
             b == home \div c
             dl == l.outDirn
             df == f.outDirn
  <2>1. c \in Nat \ {0} /\ me \in Nat /\ home \in Nat
    BY <1>1 DEF MeshXY, IsMesh
  <2> HIDE DEF c
  <2>2. x \in Nat /\ y \in Nat /\ a \in Nat /\ b \in Nat
    BY <2>1, PlaceIs
  <2>3. /\ \/ dl = "East" /\ x < a
           \/ dl = "West" /\ a < x
           \/ dl = "North" /\ y < b
           \/ dl = "South" /\ b < y
        /\ \/ df = "East" /\ x < a
           \/ df = "West" /\ a < x
           \/ df = "North" /\ x = a /\ y < b
           \/ df = "South" /\ x = a /\ b < y
    BY <1>19 DEF Closer, Towards, c
  <2>4. ~(dl \in {"North", "South"} /\ df \in {"East", "West"})
    BY <1>17, <1>18
  <2> HIDE DEF x, y, a, b, dl, df
  <2>5. \/ dl = "East" /\ x < a
        \/ dl = "West" /\ a < x
        \/ dl = "North" /\ x = a /\ y < b
        \/ dl = "South" /\ x = a /\ b < y
    BY <2>3, <2>4
  <2> QED
    BY <2>5 DEF Towards, x, y, a, b, c, dl
<1> QED
  BY <1>4, <1>20

-----------------------------------------------------------------------------
(* Links that wait for one another                                         *)

(* Whichever way routes are found, a packet that leaves a router over a    *)
(* link to another goes towards the column of its node and then to its     *)
(* row.                                                                    *)
LEMMA OutportsLeadTowards ==
    ASSUME AlgorithmInv, NEW v, NEW d, NEW home, HomeIs(v, d, home),
           NEW me \in 0 .. net.routers - 1, NEW p \in OutportCompute(RouterSwitch(me), v, d),
           NEW l, l = outports[RouterSwitch(me)][p].link, IsRouter(l.dst)
    PROVE  Towards(l.outDirn, me, home)
<1> DEFINE r == RouterSwitch(me)
<1>1. /\ net \in Descriptions /\ home \in 0 .. net.routers - 1 /\ Ready /\ v \in net.vnets
      /\ RouterOf(d, v) = RouterSwitch(home)
  BY HomeOf DEF HomeIs
<1>2. CASE r = RouterOf(d, v) \/ algorithm = "TABLE_"
  <2>1. p \in LookupRoutingTable(r, v, d)
    BY <1>2 DEF OutportCompute
  <2> QED
    BY <2>1, TablesLeadTowards
<1>3. CASE ~(r = RouterOf(d, v) \/ algorithm = "TABLE_")
  <2> DEFINE dirn == DirectionXY(me, home)
  <2>1. /\ algorithm = "XY_" /\ me # home
        /\ r - 2 * net.nodes = me /\ RouterSwitch(home) - 2 * net.nodes = home
    BY <1>1, <1>3, Numbers DEF AlgorithmInv
  <2>2. p = PortOfDirection(r, dirn)
    BY <1>1, <1>3, <2>1 DEF OutportCompute
  <2>3. Towards(dirn, me, home) /\ outports[r][PortOfDirection(r, dirn)].link.outDirn = dirn
    BY <1>1, <2>1, XYLeadsOn
  <2> QED
    BY <2>2, <2>3
<1> QED
  BY <1>2, <1>3

(* How many more links may follow link l, at most: the steps left in its   *)
(* direction, and for a step in a row all those in a column after it.      *)
Ahead(l) ==
    LET me == l.src - 2 * net.nodes
        x == me % net.cols      y == me \div net.cols
        rows == net.routers \div net.cols
    IN  CASE l.outDirn = "East" -> rows + (net.cols - 1 - x)
          [] l.outDirn = "West" -> rows + x
          [] l.outDirn = "North" -> rows - 1 - y
          [] l.outDirn = "South" -> y

LEMMA AheadIs ==
    ASSUME net \in Descriptions, MeshXY(net), NEW l \in LinkSet, IsRouter(l.src), IsRouter(l.dst)
    PROVE  Ahead(l) \in Nat
<1> DEFINE c == net.cols
           rows == net.routers \div c
           me == l.src - 2 * net.nodes
           x == me % c
           y == me \div c
           dirn == l.outDirn
<1>1. PICK n \in DOMAIN net.int :
         /\ dirn = net.int[n].outDirn /\ l.src = RouterSwitch(net.int[n].src)
         /\ net.int[n].src \in 0 .. net.routers - 1
  BY InnerLink
<1>2. me \in 0 .. net.routers - 1
  BY <1>1, Numbers
<1>3. dirn \in {"East", "West", "North", "South"}
  BY <1>1 DEF MeshXY, IsMesh, Offset
<1>4. /\ c \in Nat \ {0} /\ net.routers \in Nat /\ net.routers % c = 0
  BY DescriptionsAssumption DEF MeshXY, IsMesh
<1>5. Ahead(l) = CASE dirn = "East" -> rows + (c - 1 - x)
                   [] dirn = "West" -> rows + x
                   [] dirn = "North" -> rows - 1 - y
                   [] dirn = "South" -> y
  BY DEF Ahead
<1> HIDE DEF c, me, dirn
<1>6. rows \in Nat /\ net.routers = rows * c
  <2>1. rows \in Nat /\ net.routers = rows * c + (net.routers % c)
    BY <1>4, DivAndMod
  <2>2. rows * c \in Nat
    BY <1>4, <2>1
  <2> QED
    BY <1>4, <2>1, <2>2
<1> HIDE DEF rows
<1>7. x \in 0 .. c - 1 /\ y \in 0 .. rows - 1
  <2>1. me \in 0 .. rows * c - 1 /\ me \in Nat
    BY <1>2, <1>4, <1>6
  <2> QED
    BY <1>4, <1>6, <2>1, DivAndMod, DivBelow
<1> HIDE DEF x, y
<1> QED
  BY <1>3, <1>4, <1>5, <1>6, <1>7

(* A link waits only for links that have fewer links ahead of them.        *)
LEMMA WaitsAhead ==
    ASSUME Ready, AlgorithmInv, MeshXY(net), NEW v \in net.vnets,
           NEW a \in LinkSet, IsRouter(a.src), IsRouter(a.dst),
           NEW b \in LinkSet, IsRouter(b.src), IsRouter(b.dst), WaitsFor(a, b, v)
    PROVE  Ahead(b) < Ahead(a)
<1>1. net \in Descriptions
  BY ReadyIs
<1>2. PICK m \in DOMAIN net.int :
         /\ a.outDirn = net.int[m].outDirn /\ a.src = RouterSwitch(net.int[m].src)
         /\ a.dst = RouterSwitch(net.int[m].dst)
         /\ net.int[m].src \in 0 .. net.routers - 1 /\ net.int[m].dst \in 0 .. net.routers - 1
  BY <1>1, InnerLink
<1>3. PICK n \in DOMAIN net.int :
         /\ b.outDirn = net.int[n].outDirn /\ b.src = RouterSwitch(net.int[n].src)
         /\ net.int[n].src \in 0 .. net.routers - 1
  BY <1>1, InnerLink
<1>4. PICK d \in Nodes :
         /\ a.dst = b.src
         /\ \E p \in OutportCompute(a.src, v, d) : outports[a.src][p].link = a
         /\ \E p \in OutportCompute(b.src, v, d) : outports[b.src][p].link = b
  BY DEF WaitsFor
<1>5. PICK home \in 0 .. net.routers - 1 : HomeIs(v, d, home)
  BY EveryNodeHasHome
<1> DEFINE me == net.int[m].src
           s == net.int[m].dst
<1>6. net.int[n].src = s
  <2>1. RouterSwitch(net.int[n].src) = RouterSwitch(s)
    BY <1>2, <1>3, <1>4
  <2> QED
    BY <1>1, <1>2, <1>3, <2>1, SameRouter
<1>7. Towards(a.outDirn, me, home) /\ Towards(b.outDirn, s, home)
  BY <1>2, <1>3, <1>4, <1>5, <1>6, OutportsLeadTowards
<1>8. NextTo(net, me, a.outDirn, s) /\ a.outDirn \in DOMAIN Offset
  BY <1>2 DEF MeshXY, IsMesh
<1>9. a.src - 2 * net.nodes = me /\ b.src - 2 * net.nodes = s
  BY <1>1, <1>2, <1>4, Numbers
<1>10. me \in 0 .. net.routers - 1 /\ s \in 0 .. net.routers - 1
  BY <1>2
<1> HIDE DEF me, s
<1> DEFINE c == net.cols
           rows == net.routers \div c
           x == me % c
           y == me \div c
           i == s % c
           j == s \div c
           k == home % c
           h == home \div c
           da == a.outDirn
           db == b.outDirn
<1>11. c \in Nat \ {0} /\ net.routers \in Nat /\ me \in Nat /\ s \in Nat /\ home \in Nat
  BY <1>1, <1>10, DescriptionsAssumption DEF MeshXY, IsMesh
<1>12. /\ Ahead(a) = CASE da = "East" -> rows + (c - 1 - x)
                        [] da = "West" -> rows + x
                        [] da = "North" -> rows - 1 - y
                        [] da = "South" -> y
       /\ Ahead(b) = CASE db = "East" -> rows + (c - 1 - i)
                        [] db = "West" -> rows + i
                        [] db = "North" -> rows - 1 - j
                        [] db = "South" -> j
  BY <1>9 DEF Ahead
<1>13. /\ \/ da = "East" /\ x < k
          \/ da = "West" /\ k < x
          \/ da = "North" /\ x = k /\ y < h
          \/ da = "South" /\ x = k /\ h < y
       /\ \/ db = "East" /\ i < k
          \/ db = "West" /\ k < i
          \/ db = "North" /\ i = k /\ j < h
          \/ db = "South" /\ i = k /\ h < j
  BY <1>7 DEF Towards
<1>14. Offset[da] = <<i - x, j - y>>
  BY <1>8 DEF NextTo
<1>15. Ahead(a) \in Nat /\ Ahead(b) \in Nat
  BY <1>1, AheadIs
<1> HIDE DEF c, da, db
<1>16. /\ x \in 0 .. c - 1 /\ y \in Nat /\ i \in 0 .. c - 1 /\ j \in Nat /\ k \in Nat /\ h \in Nat
       /\ rows \in Nat
  BY <1>11, DivAndMod, PlaceIs
<1>17. j < rows /\ y < rows
  <2>1. net.routers = rows * c
    <3>1. net.routers = rows * c + (net.routers % c)
      BY <1>11, DivAndMod
    <3>2. net.routers % c = 0
      BY DEF MeshXY, IsMesh, c
    <3>3. rows * c \in Nat
      BY <1>11, <1>16
    <3> QED
      BY <3>1, <3>2, <3>3
  <2> HIDE DEF rows
  <2>2. s \in 0 .. rows * c - 1 /\ me \in 0 .. rows * c - 1
    BY <1>10, <2>1
  <2>3. j \in 0 .. rows - 1 /\ y \in 0 .. rows - 1
    BY <1>11, <1>16, <2>2, DivBelow
  <2> QED
    BY <1>16, <2>3
<1> HIDE DEF x, y, i, j, k, h, rows
<1>18. /\ da = "East" => i - x = 1 /\ j - y = 0
       /\ da = "West" => i - x = -1 /\ j - y = 0
       /\ da = "North" => i - x = 0 /\ j - y = 1
       /\ da = "South" => i - x = 0 /\ j - y = -1
  BY <1>14 DEF Offset
<1> DEFINE ra == Ahead(a)
           rb == Ahead(b)
<1> HIDE DEF ra, rb
<1>19. /\ da = "East" => ra = rows + (c - 1 - x)
       /\ da = "West" => ra = rows + x
       /\ da = "North" => ra = rows - 1 - y
       /\ da = "South" => ra = y
       /\ db = "East" => rb = rows + (c - 1 - i)
       /\ db = "West" => rb = rows + i
       /\ db = "North" => rb = rows - 1 - j
       /\ db = "South" => rb = j
  BY <1>12 DEF ra, rb
<1>20. rb < ra
  <2>1. c \in Nat
    BY <1>11
  <2>2. CASE da = "East"
    BY <1>13, <1>16, <1>17, <1>18, <1>19, <2>1, <2>2
  <2>3. CASE da = "West"
    BY <1>13, <1>16, <1>17, <1>18, <1>19, <2>1, <2>3
  <2>4. CASE da = "North"
    BY <1>13, <1>16, <1>17, <1>18, <1>19, <2>1, <2>4
  <2>5. CASE da = "South"
    BY <1>13, <1>16, <1>17, <1>18, <1>19, <2>1, <2>5
  <2> QED
    BY <1>13, <2>2, <2>3, <2>4, <2>5
<1> QED
  BY <1>20 DEF ra, rb

(* In every mesh with the weights that Mesh_XY gives, whatever its size    *)
(* and whether routes are looked up or computed, no set of links between   *)
(* routers has each of them held by packets that wait for another of the   *)
(* set (NoCyclicWait): the weights, which lookupRoutingTable only          *)
(* compares, suffice to keep the routes free of deadlock.                  *)
THEOREM RoutesNeverWaitInACycle ==
    ASSUME AllRoutable, AllMeshXY
    PROVE  Spec => []NoCyclicWait
<1>1. RouteInv => NoCyclicWait
  <2> SUFFICES ASSUME RouteInv, phase = "route", net.cols > 0, NEW v \in net.vnets,
                      NEW S \in SUBSET InnerLinks, S # {}
               PROVE  \E a \in S : \A b \in S : ~WaitsFor(a, b, v)
    BY DEF NoCyclicWait
  <2>1. Ready /\ AlgorithmInv
    BY PacketMeansReady DEF RouteInv
  <2>2. net \in Descriptions /\ MeshXY(net)
    BY <2>1, ReadyIs DEF AllMeshXY
  <2>3. \A l \in S : l \in LinkSet /\ IsRouter(l.src) /\ IsRouter(l.dst)
    BY <2>2, LinksHold DEF InnerLinks
  <2> DEFINE rank == [l \in S |-> Ahead(l)]
  <2>4. rank \in [S -> Nat]
    BY <2>2, <2>3, AheadIs
  <2>5. PICK a \in S : \A b \in S : rank[a] <= rank[b]
    <3> HIDE DEF rank
    <3> QED
      BY <2>4, LeastRank
  <2>6. ASSUME NEW b \in S, WaitsFor(a, b, v) PROVE FALSE
    <3>1. Ahead(b) < Ahead(a)
      BY <2>1, <2>2, <2>3, <2>6, WaitsAhead
    <3>2. Ahead(a) <= Ahead(b) /\ Ahead(a) \in Nat /\ Ahead(b) \in Nat
      BY <2>2, <2>3, <2>5, AheadIs
    <3> QED
      BY <3>1, <3>2
  <2> QED
    BY <2>6
<1> QED
  BY <1>1, RouteAlways, PTL

-----------------------------------------------------------------------------
(* The pointers of a link                                                  *)

Kinds == {"EXT_IN_", "EXT_OUT_", "INT_"}
Wires == {"net", "credit"}

(* The end of l where a wire begins, and where it ends.                    *)
From(l, wire) == IF wire = "net" THEN SenderEnd(l) ELSE ReceiverEnd(l)
To(l, wire)   == IF wire = "net" THEN ReceiverEnd(l) ELSE SenderEnd(l)

LEMMA EndsAre ==
    ASSUME NEW l, l.kind \in Kinds
    PROVE  LET a == SenderEnd(l)
               b == ReceiverEnd(l)
           IN  /\ a # b /\ a # "link" /\ b # "link" /\ ToSet(EndsOf(l.kind)) = {a, b}
               /\ BridgeType(l.kind, a, "net") = "OBJECT_LINK"
               /\ BridgeType(l.kind, a, "credit") = "LINK_OBJECT"
               /\ BridgeType(l.kind, b, "net") = "LINK_OBJECT"
               /\ BridgeType(l.kind, b, "credit") = "OBJECT_LINK"
<1>1. \A x, y : ToSet(<<x, y>>) = {x, y}
  BY DEF ToSet
<1>2. CASE l.kind = "EXT_IN_"
  <2>1. EndsOf(l.kind) = <<"ext", "int">>
    BY <1>2 DEF EndsOf
  <2> QED
    BY <1>1, <1>2, <2>1 DEF SenderEnd, ReceiverEnd, BridgeType
<1>3. CASE l.kind = "EXT_OUT_"
  <2>1. EndsOf(l.kind) = <<"int", "ext">>
    BY <1>3 DEF EndsOf
  <2> QED
    BY <1>1, <1>3, <2>1 DEF SenderEnd, ReceiverEnd, BridgeType
<1>4. CASE l.kind = "INT_"
  <2>1. EndsOf(l.kind) = <<"src", "dst">>
    BY <1>4 DEF EndsOf
  <2> QED
    BY <1>1, <1>4, <2>1 DEF SenderEnd, ReceiverEnd, BridgeType
<1> QED
  BY <1>2, <1>3, <1>4 DEF Kinds

(* Pointers are told apart by what they are of, their field and what they  *)
(* point to, and so are units, links and bridges.                          *)
LEMMA PointersDiffer ==
    /\ \A x, f, y, u, g, w : Pointer(x, f, y) = Pointer(u, g, w) <=> x = u /\ f = g /\ y = w
    /\ \A x, f, y : Pointer(x, f, y).of = x /\ Pointer(x, f, y).field = f /\ Pointer(x, f, y).to = y
    /\ \A v, w : LinkOf(v) = LinkOf(w) <=> v = w
    /\ \A d, e, v, w : BridgeAt(d, v) = BridgeAt(e, w) <=> d = e /\ v = w
    /\ \A e, v, w : e # "link" => BridgeAt(e, v) # LinkOf(w)
BY DEF Pointer, LinkOf, BridgeAt

(* The pointers of a wire, each where the constructors or the units set    *)
(* it.                                                                     *)
PortPointer(l, p) ==
    \E wire \in Wires :
        \/ p = Pointer(PortOf(l, From(l, wire), wire), "source", UnitAt(From(l, wire)))
        \/ p = Pointer(PortOf(l, To(l, wire), wire), "consumer", UnitAt(To(l, wire)))
BridgePointer(l, p) ==
    \E wire \in Wires :
        \/ /\ HasBridge(l, From(l, wire))
           /\ \/ p = Pointer(LinkOf(wire), "source", BridgeAt(From(l, wire), wire))
              \/ p = Pointer(BridgeAt(From(l, wire), wire), "consumer", LinkOf(wire))
        \/ /\ HasBridge(l, To(l, wire))
           /\ \/ p = Pointer(LinkOf(wire), "consumer", BridgeAt(To(l, wire), wire))
              \/ p = Pointer(BridgeAt(To(l, wire), wire), "source", LinkOf(wire))

LEMMA PortsSet ==
    ASSUME NEW l, NEW p
    PROVE  p \in OutPortPointers(l) \cup InPortPointers(l) <=> PortPointer(l, p)
BY DEF OutPortPointers, InPortPointers, PortPointer, Wires, From, To

LEMMA BridgesSet ==
    ASSUME NEW l, l.kind \in Kinds, NEW p
    PROVE  (\E e \in ToSet(EndsOf(l.kind)), wire \in Wires : p \in BridgePointers(l, e, wire))
              <=> BridgePointer(l, p)
<1> DEFINE a == SenderEnd(l)
           b == ReceiverEnd(l)
<1>1. /\ ToSet(EndsOf(l.kind)) = {a, b}
      /\ BridgeType(l.kind, a, "net") = "OBJECT_LINK"
      /\ BridgeType(l.kind, a, "credit") = "LINK_OBJECT"
      /\ BridgeType(l.kind, b, "net") = "LINK_OBJECT"
      /\ BridgeType(l.kind, b, "credit") = "OBJECT_LINK"
  BY EndsAre
<1>2. \A e \in {a, b}, wire \in Wires :
         p \in BridgePointers(l, e, wire) <=>
           /\ HasBridge(l, e)
           /\ IF BridgeType(l.kind, e, wire) = "OBJECT_LINK"
              THEN \/ p = Pointer(LinkOf(wire), "source", BridgeAt(e, wire))
                   \/ p = Pointer(BridgeAt(e, wire), "consumer", LinkOf(wire))
              ELSE \/ p = Pointer(LinkOf(wire), "consumer", BridgeAt(e, wire))
                   \/ p = Pointer(BridgeAt(e, wire), "source", LinkOf(wire))
  BY DEF BridgePointers
<1>3. /\ From(l, "net") = a /\ To(l, "net") = b /\ From(l, "credit") = b /\ To(l, "credit") = a
  BY DEF From, To
<1> HIDE DEF a, b
<1> QED
  BY <1>1, <1>2, <1>3 DEF BridgePointer, Wires

(* No pointer that a port sets is one a constructor has set.               *)
LEMMA NoneReplaced ==
    ASSUME NEW l, l.kind \in Kinds, NEW p, NEW q, PortPointer(l, q), BridgePointer(l, p)
    PROVE  q.of # p.of \/ q.field # p.field
<1>1. PICK v \in Wires :
         \/ q = Pointer(PortOf(l, From(l, v), v), "source", UnitAt(From(l, v)))
         \/ q = Pointer(PortOf(l, To(l, v), v), "consumer", UnitAt(To(l, v)))
  BY DEF PortPointer
<1>2. PICK w \in Wires :
        \/ /\ HasBridge(l, From(l, w))
           /\ \/ p = Pointer(LinkOf(w), "source", BridgeAt(From(l, w), w))
              \/ p = Pointer(BridgeAt(From(l, w), w), "consumer", LinkOf(w))
        \/ /\ HasBridge(l, To(l, w))
           /\ \/ p = Pointer(LinkOf(w), "consumer", BridgeAt(To(l, w), w))
              \/ p = Pointer(BridgeAt(To(l, w), w), "source", LinkOf(w))
  BY DEF BridgePointer
<1>3. From(l, v) # To(l, v) /\ From(l, v) # "link" /\ To(l, v) # "link"
  BY EndsAre DEF From, To
<1>4. From(l, w) # "link" /\ To(l, w) # "link"
  BY EndsAre DEF From, To
<1>5. CASE q = Pointer(PortOf(l, From(l, v), v), "source", UnitAt(From(l, v)))
  BY <1>2, <1>3, <1>4, <1>5, PointersDiffer DEF PortOf
<1>6. CASE q = Pointer(PortOf(l, To(l, v), v), "consumer", UnitAt(To(l, v)))
  BY <1>2, <1>3, <1>4, <1>6, PointersDiffer DEF PortOf
<1> QED
  BY <1>1, <1>5, <1>6

LEMMA PointersAre ==
    ASSUME NEW l, l.kind \in Kinds, NEW p
    PROVE  p \in PointersOf(l) <=> PortPointer(l, p) \/ BridgePointer(l, p)
<1> DEFINE ports == OutPortPointers(l) \cup InPortPointers(l)
           bridges == UNION {BridgePointers(l, e, wire) :
                               e \in ToSet(EndsOf(l.kind)), wire \in {"net", "credit"}}
<1>1. PointersOf(l) = ports \cup {x \in bridges : \A q \in ports : q.of # x.of \/ q.field # x.field}
  BY DEF PointersOf
<1>2. p \in bridges <=> BridgePointer(l, p)
  BY BridgesSet DEF Wires
<1>3. \A q : q \in ports <=> PortPointer(l, q)
  BY PortsSet
<1> HIDE DEF ports, bridges
<1> QED
  BY <1>1, <1>2, <1>3, NoneReplaced

(* What a pointer of x points to.                                          *)
LEMMA TargetsAre ==
    ASSUME NEW l, l.kind \in Kinds, NEW x, NEW f, NEW y
    PROVE  y \in Targets(l, x, f) <=>
             \/ PortPointer(l, Pointer(x, f, y)) \/ BridgePointer(l, Pointer(x, f, y))
<1>1. y \in Targets(l, x, f) <=> \E p \in PointersOf(l) : p.of = x /\ p.field = f /\ p.to = y
  BY DEF Targets
<1>2. \A p \in PointersOf(l) : p = Pointer(p.of, p.field, p.to)
  BY PointersAre, PointersDiffer DEF PortPointer, BridgePointer
<1>3. y \in Targets(l, x, f) <=> Pointer(x, f, y) \in PointersOf(l)
  BY <1>1, <1>2, PointersDiffer
<1> QED
  BY <1>3, PointersAre

(* Along a wire every pointer points to the neighbour.                     *)
LEMMA WireConnects ==
    ASSUME NEW l, l.kind \in Kinds, NEW wire \in Wires
    PROVE  Connects(l, From(l, wire), To(l, wire), wire)
<1> DEFINE a == From(l, wire)
           b == To(l, wire)
<1>1. /\ a # b /\ a # "link" /\ b # "link"
      /\ \A v \in Wires : From(l, v) # "link" /\ To(l, v) # "link"
  BY EndsAre DEF From, To
<1>2. \A x, f, y : y \in Targets(l, x, f) <=>
         \/ PortPointer(l, Pointer(x, f, y)) \/ BridgePointer(l, Pointer(x, f, y))
  BY TargetsAre
<1>3. ASSUME NEW x, NEW f, NEW y, x \in {LinkOf(wire)} \cup {BridgeAt(e, wire) : e \in {a, b}}
      PROVE  y \in Targets(l, x, f) <=>
               \/ x = PortOf(l, a, wire) /\ f = "source" /\ y = UnitAt(a)
               \/ x = PortOf(l, b, wire) /\ f = "consumer" /\ y = UnitAt(b)
               \/ HasBridge(l, a) /\ x = LinkOf(wire) /\ f = "source" /\ y = BridgeAt(a, wire)
               \/ HasBridge(l, a) /\ x = BridgeAt(a, wire) /\ f = "consumer" /\ y = LinkOf(wire)
               \/ HasBridge(l, b) /\ x = LinkOf(wire) /\ f = "consumer" /\ y = BridgeAt(b, wire)
               \/ HasBridge(l, b) /\ x = BridgeAt(b, wire) /\ f = "source" /\ y = LinkOf(wire)
  <2>1. ASSUME NEW v \in Wires, NEW e, e # "link", x = PortOf(l, e, v) PROVE v = wire
    BY <1>1, <1>3, <2>1, PointersDiffer DEF PortOf
  <2>2. PortPointer(l, Pointer(x, f, y)) <=>
          \/ x = PortOf(l, a, wire) /\ f = "source" /\ y = UnitAt(a)
          \/ x = PortOf(l, b, wire) /\ f = "consumer" /\ y = UnitAt(b)
    BY <1>1, <2>1, PointersDiffer DEF PortPointer
  <2>3. ASSUME NEW v \in Wires, NEW e, e # "link", x = LinkOf(v) \/ x = BridgeAt(e, v) PROVE v = wire
    BY <1>1, <1>3, <2>3, PointersDiffer
  <2>4. BridgePointer(l, Pointer(x, f, y)) <=>
          \/ HasBridge(l, a) /\ x = LinkOf(wire) /\ f = "source" /\ y = BridgeAt(a, wire)
          \/ HasBridge(l, a) /\ x = BridgeAt(a, wire) /\ f = "consumer" /\ y = LinkOf(wire)
          \/ HasBridge(l, b) /\ x = LinkOf(wire) /\ f = "consumer" /\ y = BridgeAt(b, wire)
          \/ HasBridge(l, b) /\ x = BridgeAt(b, wire) /\ f = "source" /\ y = LinkOf(wire)
    BY <1>1, <2>3, PointersDiffer DEF BridgePointer
  <2> QED
    BY <1>2, <2>2, <2>4
<1>4. /\ PortOf(l, a, wire) = IF HasBridge(l, a) THEN BridgeAt(a, wire) ELSE LinkOf(wire)
      /\ PortOf(l, b, wire) = IF HasBridge(l, b) THEN BridgeAt(b, wire) ELSE LinkOf(wire)
  BY DEF PortOf
<1>5. /\ BridgeAt(a, wire) # LinkOf(wire) /\ BridgeAt(b, wire) # LinkOf(wire)
      /\ BridgeAt(a, wire) # BridgeAt(b, wire)
  BY <1>1, PointersDiffer
<1> HIDE DEF a, b
<1>6. Targets(l, PortOf(l, a, wire), "source") = {UnitAt(a)}
  <2>1. \A y : y \in Targets(l, PortOf(l, a, wire), "source") <=> y = UnitAt(a)
    BY <1>3, <1>4, <1>5
  <2> QED
    BY <2>1
<1>7. Targets(l, PortOf(l, b, wire), "consumer") = {UnitAt(b)}
  <2>1. \A y : y \in Targets(l, PortOf(l, b, wire), "consumer") <=> y = UnitAt(b)
    BY <1>3, <1>4, <1>5
  <2> QED
    BY <2>1
<1>8. ASSUME HasBridge(l, a) PROVE HandsTo(l, BridgeAt(a, wire), LinkOf(wire))
  <2>1. \A y : y \in Targets(l, BridgeAt(a, wire), "consumer") <=> y = LinkOf(wire)
    BY <1>3, <1>4, <1>5, <1>8
  <2>2. \A y : y \in Targets(l, LinkOf(wire), "source") <=> y = BridgeAt(a, wire)
    BY <1>3, <1>4, <1>5, <1>8
  <2> QED
    BY <2>1, <2>2 DEF HandsTo
<1>9. ASSUME HasBridge(l, b) PROVE HandsTo(l, LinkOf(wire), BridgeAt(b, wire))
  <2>1. \A y : y \in Targets(l, LinkOf(wire), "consumer") <=> y = BridgeAt(b, wire)
    BY <1>3, <1>4, <1>5, <1>9
  <2>2. \A y : y \in Targets(l, BridgeAt(b, wire), "source") <=> y = LinkOf(wire)
    BY <1>3, <1>4, <1>5, <1>9
  <2> QED
    BY <2>1, <2>2 DEF HandsTo
<1> QED
  BY <1>6, <1>7, <1>8, <1>9 DEF Connects, a, b

(* Where the widths of the ends fit, flits are on the link in its width    *)
(* and arrive in that of the receiver.                                     *)
LEMMA FittingWidths ==
    ASSUME NEW l, l.kind \in Kinds, Fits(l), CrossingsKeepWidth(l)
    PROVE  WidthKept(l)
<1> DEFINE a == SenderEnd(l)
           b == ReceiverEnd(l)
<1>1. /\ ToSet(EndsOf(l.kind)) = {a, b}
      /\ BridgeType(l.kind, a, "net") = "OBJECT_LINK"
      /\ BridgeType(l.kind, b, "net") = "LINK_OBJECT"
  BY EndsAre
<1>2. ASSUME NEW e \in {a, b}
      PROVE  /\ UnitWidth(l, e) = IF HasBridge(l, e) THEN BridgeWidth(l, e) ELSE l.width
             /\ HasBridge(l, e) /\ ~l.ends[e].serdes => BridgeWidth(l, e) = l.width
             /\ l.ends[e].serdes => HasBridge(l, e)
  <2>1. PortWidth(l, e) = UnitWidth(l, e)
    <3>1. CASE e = "ext"
      BY <3>1 DEF UnitWidth
    <3>2. CASE e # "ext"
      BY <1>1, <3>2 DEF Fits
    <3> QED
      BY <3>1, <3>2
  <2>2. PortWidth(l, e) = IF HasBridge(l, e) THEN BridgeWidth(l, e) ELSE l.width
    BY DEF PortWidth
  <2> QED
    BY <1>1, <2>1, <2>2 DEF CrossingsKeepWidth, HasBridge
<1> HIDE DEF a, b
<1>3. WidthBehind(l, a, UnitWidth(l, a)) = l.width
  BY <1>1, <1>2 DEF WidthBehind
<1>4. WidthBehind(l, b, l.width) = UnitWidth(l, b)
  BY <1>1, <1>2 DEF WidthBehind
<1> QED
  BY <1>3, <1>4 DEF WidthKept, a, b

(* Every link that was made fits.                                          *)
FitsInv == \A s \in Switches : \A p \in DOMAIN outports[s] : Fits(outports[s][p].link)

LEMMA FitsStep == BuildInv /\ FitsInv /\ [Next]_routingVars => FitsInv'
<1> SUFFICES ASSUME BuildInv, FitsInv, [Next]_routingVars PROVE FitsInv'
  OBVIOUS
<1>1. CASE UNCHANGED outports
  BY <1>1 DEF FitsInv, Switches
<1>2. CASE MakeLinks /\ ~UNCHANGED outports
  <2> DEFINE i == step \div NumSwitches
             j == step % NumSwitches
             between == LinksBetween(i, j)
             ports == [n \in DOMAIN between |-> [link |-> between[n], routes |-> RoutesThrough(i, j)]]
  <2>1. /\ \A n \in DOMAIN between : Fits(between[n])
        /\ outports' = [outports EXCEPT ![i] = @ \o ports]
    BY <1>2 DEF MakeLinks
  <2>2. outports \in [Switches -> Seq(PortSet)] /\ net \in Descriptions
    BY DEF BuildInv, PortsInv, TopologyInv, SwitchesInv
  <2>3. between \in Seq(LinkSet)
    BY <2>2, LinksBetweenHold
  <2> HIDE DEF between, i, j
  <2>4. ports \in Seq([link : LinkSet, routes : {RoutesThrough(i, j)}])
        /\ \A n \in DOMAIN ports : Fits(ports[n].link)
    <3>1. Len(between) \in Nat /\ DOMAIN between = 1 .. Len(between)
          /\ \A n \in 1 .. Len(between) : between[n] \in LinkSet
      BY <2>3, LengthOf
    <3>2. ports \in [1 .. Len(between) -> [link : LinkSet, routes : {RoutesThrough(i, j)}]]
      BY <3>1
    <3> QED
      BY <2>1, <3>1, <3>2
  <2> HIDE DEF ports
  <2>5. ASSUME NEW s \in Switches, NEW p \in DOMAIN outports'[s] PROVE Fits(outports'[s][p].link)
    <3>1. CASE s # i
      BY <2>1, <2>2, <2>5, <3>1 DEF FitsInv
    <3>2. CASE s = i
      <4> DEFINE More == [link : LinkSet, routes : {RoutesThrough(i, j)}]
                 T == PortSet \cup More
                 old == outports[i]
      <4>1. outports'[s] = old \o ports
        BY <2>1, <2>2, <3>2
      <4>2. old \in Seq(T) /\ ports \in Seq(T)
        <5>1. old \in Seq(PortSet)
          BY <2>2, <3>2
        <5>2. ports \in Seq(More)
          BY <2>4
        <5> HIDE DEF old, More
        <5>3. \A A, B : Seq(A) \subseteq Seq(A \cup B) /\ Seq(B) \subseteq Seq(A \cup B)
          OBVIOUS
        <5> QED
          BY <5>1, <5>2, <5>3
      <4> HIDE DEF T, old
      <4>3. FromBoth(old \o ports, old, ports)
        BY <4>2, ConcatHolds
      <4>4. (\E n \in DOMAIN old : outports'[s][p] = old[n])
            \/ (\E n \in DOMAIN ports : outports'[s][p] = ports[n])
        BY <2>5, <4>1, <4>3 DEF FromBoth
      <4> QED
        BY <2>4, <3>2, <4>4 DEF FitsInv, old
    <3> QED
      BY <3>1, <3>2
  <2>6. Switches' = Switches
    BY <2>1 DEF Switches
  <2> QED
    BY <2>5, <2>6 DEF FitsInv
<1> QED
  BY <1>1, <1>2 DEF Next, Construct, Build, ReadWeights, ExtendRow, SendPacket, Hop, Deliver,
                    routingVars, vars

(* In every network that is built, each link that was made joins its two   *)
(* ends both ways: whatever clock crossings and SerDes it has, flits and   *)
(* credits pass from object to object, each waking the one that reads from *)
(* it, and where a crossing without SerDes does not hide a difference of   *)
(* widths, flits arrive in the width of the receiver (LinksConnect).       *)
THEOREM LinksAlwaysConnect == Spec => []LinksConnect
<1>1. InitRouting => FitsInv
  <2> SUFFICES ASSUME InitRouting PROVE FitsInv
    OBVIOUS
  <2>1. \A s \in Switches : outports[s] = << >>
    BY DEF InitRouting, Init, Switches
  <2> QED
    BY <2>1 DEF FitsInv
<1>2. BuildInv /\ FitsInv => LinksConnect
  <2> SUFFICES ASSUME BuildInv, FitsInv, NEW l \in MadeLinks
               PROVE  ConnectsBothWays(l) /\ (CrossingsKeepWidth(l) => WidthKept(l))
    BY DEF LinksConnect
  <2>1. PICK s \in Switches : \E p \in DOMAIN outports[s] : outports[s][p].link = l
    BY DEF MadeLinks
  <2>2. PICK p \in DOMAIN outports[s] : outports[s][p].link = l
    BY <2>1
  <2>3. Fits(l)
    BY <2>2 DEF FitsInv
  <2>4. l.kind \in Kinds
    <3>1. outports[s] \in Seq(PortSet)
      BY DEF BuildInv, PortsInv
    <3>2. outports[s][p] \in PortSet
      BY <2>2, <3>1, LengthOf
    <3>3. l \in LinkSet
      BY <2>2, <3>2 DEF PortSet
    <3>4. \A e : ExtIn(e).kind = "EXT_IN_" /\ ExtOut(e).kind = "EXT_OUT_"
      BY DEF ExtIn, ExtOut
    <3>5. \A e : Internal(e).kind = "INT_"
      BY DEF Internal
    <3> QED
      BY <3>3, <3>4, <3>5 DEF LinkSet, Kinds
  <2>5. ConnectsBothWays(l)
    <3>1. Connects(l, From(l, "net"), To(l, "net"), "net")
          /\ Connects(l, From(l, "credit"), To(l, "credit"), "credit")
      BY <2>4, WireConnects DEF Wires
    <3> QED
      BY <3>1 DEF ConnectsBothWays, From, To
  <2> QED
    BY <2>3, <2>4, <2>5, FittingWidths
<1> QED
  BY <1>1, <1>2, BuildInit, BuildStep, FitsStep, PTL DEF Spec
=============================================================================
