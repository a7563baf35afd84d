-------------------------- MODULE EventQueueProofs --------------------------
(***************************************************************************)
(* What holds of the event queue for every window, every set of objects    *)
(* and every delay: no event is left behind in a tick that has passed, and *)
(* the ring with the map keeps the agenda of Agenda.                       *)
(***************************************************************************)
EXTENDS EventQueue, DataTheorems

MaxDelay == CHOOSE d \in Delays : \A e \in Delays : e <= d

LEMMA TicksAre ==
    /\ MaxDelay \in Nat \ {0} /\ Ticks = 0 .. LastTick + MaxDelay
    /\ \A t \in Nat, d \in Delays \cup {0} : t <= LastTick => t + d \in Ticks
<1>1. MaxDelay \in Delays /\ \A e \in Delays : e <= MaxDelay
  BY DelaysAssumption DEF MaxDelay
<1>2. MaxDelay \in Nat \ {0} /\ \A d \in Delays \cup {0} : d \in Nat /\ d <= MaxDelay
  BY <1>1, DelaysAssumption
<1>3. Ticks = 0 .. LastTick + MaxDelay
  BY DEF Ticks, MaxDelay
<1> QED
  BY <1>2, <1>3, LastTickAssumption

LEMMA RingIndexOf == \A t \in Nat : RingIndex(t) \in 0 .. Window - 1
BY WindowAssumption DEF RingIndex

-----------------------------------------------------------------------------
(* The inductive invariant                                                 *)

(* A bucket holds a tick of its own index; no wakeup runs outside          *)
(* process().                                                              *)
RingInPlace == \A i \in 0 .. Window - 1 : near[i].tick # NoTick => near[i].tick % Window = i
RingNotOverdue == \A i \in 0 .. Window - 1 : near[i].events # << >> => near[i].tick >= curTick
MapNotOverdue == \A t \in Ticks : far[t] # << >> => t >= curTick
NothingRuns == driver # "process" => slot = << >> /\ running = NoObject
TickIsServed == driver = "drain" => Filed(curTick) = << >>

QueueInv ==
    TypeOK /\ RingInPlace /\ RingNotOverdue /\ MapNotOverdue /\ NothingRuns /\ TickIsServed

LEMMA QueueInit == Init => QueueInv
<1> SUFFICES ASSUME Init PROVE QueueInv
  OBVIOUS
<1>1. << >> \in Seq(Objects)
  OBVIOUS
<1> QED
  BY <1>1, LastTickAssumption
  DEF Init, QueueInv, TypeOK, Bucket, RingInPlace, RingNotOverdue, MapNotOverdue,
      NothingRuns, TickIsServed

(* Filing an event for a tick that is not over.                            *)
LEMMA ScheduleStep ==
    ASSUME QueueInv, NEW o \in Objects, NEW when \in Ticks, when >= curTick,
           Schedule(o, when), curTick' = curTick
    PROVE  /\ near' \in [0 .. Window - 1 -> Bucket] /\ far' \in [Ticks -> Seq(Objects)]
           /\ RingInPlace' /\ RingNotOverdue' /\ MapNotOverdue'
<1> USE DEF QueueInv, TypeOK
<1>1. when \in Nat /\ curTick \in Nat /\ RingIndex(when) \in 0 .. Window - 1 /\ when # NoTick
  BY RingIndexOf, TicksAre, LastTickAssumption DEF NoTick
<1>2. CASE Scheduled(o, when)
  BY <1>2 DEF Schedule, RingInPlace, RingNotOverdue, MapNotOverdue
<1>3. CASE ~Scheduled(o, when) /\ IsNear(when)
  <2> DEFINE r == RingIndex(when)
             b == Renewed(near[r], when)
             c == [b EXCEPT !.events = Append(@, o)]
  <2>1. near' = [near EXCEPT ![r] = c] /\ far' = far
    BY <1>3 DEF Schedule
  <2>2. b \in Bucket /\ b.tick = when
    <3>1. near[r] \in Bucket /\ << >> \in Seq(Objects)
      BY <1>1
    <3> QED
      BY <3>1 DEF Renewed, Bucket
  <2>3. c \in Bucket /\ c.tick = when
    <3> HIDE DEF b
    <3>1. b.events \in Seq(Objects) /\ b.tick \in Ticks \cup {NoTick}
          /\ b = [tick |-> b.tick, events |-> b.events]
      BY <2>2 DEF Bucket
    <3>2. c = [tick |-> b.tick, events |-> Append(b.events, o)]
      BY <3>1
    <3>3. Append(b.events, o) \in Seq(Objects)
      BY <3>1
    <3> QED
      BY <2>2, <3>1, <3>2, <3>3 DEF Bucket
  <2>4. r \in 0 .. Window - 1 /\ when % Window = r
    BY <1>1 DEF RingIndex
  <2> HIDE DEF r, c
  <2>5. \A i \in 0 .. Window - 1 : near'[i] = IF i = r THEN c ELSE near[i]
    BY <2>1
  <2>6. near' \in [0 .. Window - 1 -> Bucket]
    BY <2>1, <2>3
  <2>7. RingInPlace'
    BY <2>3, <2>4, <2>5 DEF RingInPlace
  <2>8. RingNotOverdue'
    BY <2>3, <2>5 DEF RingNotOverdue
  <2> QED
    BY <2>1, <2>6, <2>7, <2>8 DEF MapNotOverdue
<1>4. CASE ~Scheduled(o, when) /\ ~IsNear(when)
  <2>1. near' = near /\ far' = [far EXCEPT ![when] = Append(@, o)]
    BY <1>4 DEF Schedule
  <2>2. Append(far[when], o) \in Seq(Objects)
    OBVIOUS
  <2>3. far' \in [Ticks -> Seq(Objects)] /\ MapNotOverdue'
    BY <2>1, <2>2 DEF MapNotOverdue
  <2> QED
    BY <2>1, <2>3 DEF RingInPlace, RingNotOverdue
<1> QED
  BY <1>2, <1>3, <1>4

(* takeCurrentSlot empties what is filed for the present tick.             *)
LEMMA TakeSlotStep ==
    ASSUME QueueInv, TakeSlot
    PROVE  QueueInv'
<1> USE DEF QueueInv, TypeOK
<1> DEFINE r == RingIndex(curTick)
           c == AfterTake(near[r])
<1>1. /\ driver = "process" /\ curTick' = curTick /\ driver' = driver
      /\ near' = [near EXCEPT ![r] = c] /\ far' = [far EXCEPT ![curTick] = << >>]
  BY DEF TakeSlot
<1>2. curTick \in Nat /\ r \in 0 .. Window - 1
  BY RingIndexOf, LastTickAssumption
<1>3. c \in Bucket /\ c.tick = near[r].tick /\ (c.events # << >> => c = near[r])
  <2>1. near[r] \in Bucket /\ << >> \in Seq(Objects)
    BY <1>2
  <2> QED
    BY <2>1 DEF AfterTake, Bucket
<1> HIDE DEF r, c
<1>4. near' \in [0 .. Window - 1 -> Bucket] /\ far' \in [Ticks -> Seq(Objects)]
  <2>1. << >> \in Seq(Objects)
    OBVIOUS
  <2> QED
    BY <1>1, <1>3, <2>1
<1>5. RingInPlace' /\ RingNotOverdue'
  <2>1. \A i \in 0 .. Window - 1 : near'[i] = IF i = r THEN c ELSE near[i]
    BY <1>1
  <2> QED
    BY <1>1, <1>2, <1>3, <2>1 DEF RingInPlace, RingNotOverdue
<1>6. MapNotOverdue'
  BY <1>1 DEF MapNotOverdue
<1> QED
  BY <1>1, <1>4, <1>5, <1>6 DEF NothingRuns, TickIsServed

(* The tick ends with nothing filed for it, in the ring or in the map, so  *)
(* what is left is for later ticks.                                        *)
LEMMA SetCurTickStep ==
    ASSUME QueueInv, SetCurTick
    PROVE  QueueInv'
<1> USE DEF QueueInv, TypeOK
<1>1. /\ driver = "drain" /\ driver' = "step" /\ curTick < LastTick /\ curTick' = curTick + 1
      /\ UNCHANGED <<near, far, slot, running>>
  BY DEF SetCurTick
<1>2. curTick \in Nat /\ curTick \in Ticks /\ RingIndex(curTick) \in 0 .. Window - 1
      /\ curTick' \in 0 .. LastTick /\ curTick # NoTick
  <2>1. curTick \in Nat /\ curTick' \in 0 .. LastTick
    BY <1>1, LastTickAssumption
  <2>2. curTick \in Ticks
    BY <2>1, TicksAre, LastTickAssumption
  <2> QED
    BY <2>1, <2>2, RingIndexOf DEF NoTick
<1> DEFINE b == near[RingIndex(curTick)]
           e == IF b.tick = curTick THEN b.events ELSE << >>
<1>3. e \in Seq(Objects) /\ far[curTick] \in Seq(Objects) /\ e \o far[curTick] = << >>
  <2>1. b \in Bucket /\ << >> \in Seq(Objects)
    BY <1>2
  <2>2. e \o far[curTick] = << >>
    BY <1>1 DEF TickIsServed, Filed
  <2> QED
    BY <1>2, <2>1, <2>2 DEF Bucket
<1>4. e = << >> /\ far[curTick] = << >>
  <2> HIDE DEF e
  <2> QED
    BY <1>3, ConcatProperties, EmptySeq, LenProperties
<1>5. RingNotOverdue'
  <2> SUFFICES ASSUME NEW i \in 0 .. Window - 1, near[i].events # << >>
               PROVE  near[i].tick >= curTick + 1
    BY <1>1 DEF RingNotOverdue
  <2>1. near[i].tick >= curTick /\ near[i] \in Bucket
    BY DEF RingNotOverdue
  <2>2. near[i].tick # curTick
    <3> SUFFICES ASSUME near[i].tick = curTick PROVE FALSE
      OBVIOUS
    <3>1. RingIndex(curTick) = i
      BY <1>2 DEF RingInPlace, RingIndex
    <3> QED
      BY <1>4, <3>1
  <2>3. near[i].tick \in Int
    BY <2>1, TicksAre DEF Bucket, NoTick
  <2> QED
    BY <1>2, <2>1, <2>2, <2>3
<1>6. MapNotOverdue'
  <2> SUFFICES ASSUME NEW t \in Ticks, far[t] # << >>
               PROVE  t >= curTick + 1
    BY <1>1 DEF MapNotOverdue
  <2>1. t >= curTick /\ t # curTick /\ t \in Nat
    BY <1>4, TicksAre DEF MapNotOverdue
  <2> QED
    BY <1>2, <2>1
<1> QED
  BY <1>1, <1>2, <1>5, <1>6 DEF RingInPlace, NothingRuns, TickIsServed

LEMMA QueueStep == QueueInv /\ [Next]_vars => QueueInv'
<1> SUFFICES ASSUME QueueInv, [Next]_vars PROVE QueueInv'
  OBVIOUS
<1> USE DEF QueueInv
<1>1. ASSUME NEW o \in Injectors, DriverSchedule(o) PROVE QueueInv'
  <2>1. o \in Objects /\ curTick \in Ticks /\ curTick >= curTick
    BY ScheduleAssumption, TicksAre, LastTickAssumption DEF TypeOK
  <2>2. Schedule(o, curTick) /\ driver = "step" /\ UNCHANGED <<curTick, slot, running, driver>>
    BY <1>1 DEF DriverSchedule
  <2> QED
    BY <2>1, <2>2, ScheduleStep DEF TypeOK, NothingRuns, TickIsServed
<1>2. CASE CallProcess
  BY <1>2 DEF CallProcess, TypeOK, RingInPlace, RingNotOverdue, MapNotOverdue,
              NothingRuns, TickIsServed
<1>3. CASE SetCurTick
  BY <1>3, SetCurTickStep
<1>4. CASE TakeSlot
  BY <1>4, TakeSlotStep
<1>5. CASE ProcessReturn
  <2>1. Filed(curTick)' = << >>
    BY <1>5 DEF ProcessReturn, CurrentSlot, Filed, RingIndex
  <2> QED
    BY <1>5, <2>1 DEF ProcessReturn, TypeOK, RingInPlace, RingNotOverdue, MapNotOverdue,
                      NothingRuns, TickIsServed
<1>6. ASSUME NEW o \in Objects, Wakeup(o) PROVE QueueInv'
  <2>1. driver = "process" /\ UNCHANGED <<curTick, near, far, driver>>
    BY <1>6 DEF Wakeup, NothingRuns
  <2> QED
    BY <2>1 DEF TypeOK, RingInPlace, RingNotOverdue, MapNotOverdue, NothingRuns, TickIsServed
<1>7. ASSUME NEW p \in Objects, NEW d \in Delays \cup {0}, WakeupSchedules(p, d) PROVE QueueInv'
  <2>1. driver = "process" /\ Schedule(p, curTick + d) /\ UNCHANGED <<curTick, slot, running, driver>>
    BY <1>7 DEF WakeupSchedules, NothingRuns
  <2>2. curTick + d \in Ticks /\ curTick + d >= curTick
    <3>1. curTick \in Nat /\ curTick <= LastTick /\ d \in Nat
      BY DelaysAssumption, LastTickAssumption DEF TypeOK
    <3> QED
      BY <3>1, TicksAre
  <2> QED
    BY <2>1, <2>2, ScheduleStep DEF TypeOK, NothingRuns, TickIsServed
<1>8. CASE WakeupReturns
  <2>1. driver = "process" /\ UNCHANGED <<curTick, near, far, slot, driver>>
    BY <1>8 DEF WakeupReturns, NothingRuns
  <2> QED
    BY <2>1 DEF TypeOK, RingInPlace, RingNotOverdue, MapNotOverdue, NothingRuns, TickIsServed
<1>9. CASE UNCHANGED vars
  BY <1>9 DEF vars, TypeOK, RingInPlace, RingNotOverdue, MapNotOverdue, NothingRuns,
              TickIsServed, Filed, RingIndex
<1> QED
  BY <1>1, <1>2, <1>3, <1>4, <1>5, <1>6, <1>7, <1>8, <1>9 DEF Next

(* No event is left behind in a tick that has passed (NothingOverdue),     *)
(* neither in the map nor in a bucket of the ring that would be cleared    *)
(* when its index is used again, and a tick ends only when nothing is      *)
(* filed for it: schedule, takeCurrentSlot and process, for any window.    *)
THEOREM NoEventLeftBehind == Spec => []NothingOverdue
<1>1. QueueInv => NothingOverdue
  BY DEF QueueInv, TypeOK, RingNotOverdue, MapNotOverdue, TickIsServed, NothingOverdue
<1> QED
  BY <1>1, QueueInit, QueueStep, PTL DEF Spec

(* A bucket holds one tick and its objects, the map a queue of objects per *)
(* tick, and a tick is within its bounds (TypeOK).                         *)
THEOREM QueueTypes == Spec => []TypeOK
<1>1. QueueInv => TypeOK
  BY DEF QueueInv
<1> QED
  BY <1>1, QueueInit, QueueStep, PTL DEF Spec
-----------------------------------------------------------------------------
(* The queue keeps the agenda                                              *)

(* A bucket never holds a tick beyond the window; an object is filed for a *)
(* tick once, in the ring or in the map; a pass is sorted.                 *)
RingIsNear == \A i \in 0 .. Window - 1 : near[i].tick < curTick + Window
OnceInRing == \A i \in 0 .. Window - 1 : IsInjective(near[i].events)
OnceInMap == \A t \in Ticks : IsInjective(far[t])
InOnePlace ==
    \A t \in Ticks : near[RingIndex(t)].tick = t =>
        \A p \in Objects : Contains(near[RingIndex(t)].events, p) => ~Contains(far[t], p)
PassInOrder ==
    /\ slot \in Seq(Objects)
    /\ \A i, j \in 1 .. Len(slot) : i < j => Rank[slot[i]] < Rank[slot[j]]

FiledOnce == RingIsNear /\ OnceInRing /\ OnceInMap /\ InOnePlace
AgendaInv == QueueInv /\ FiledOnce /\ PassInOrder

(* takeCurrentSlot's objects sorted: the same ones, by rising rank.        *)
LEMMA SortedPass ==
    ASSUME NEW e \in Seq(Objects), IsInjective(e)
    PROVE  /\ InRankOrder(e) \in Seq(Objects) /\ Len(InRankOrder(e)) = Len(e)
           /\ ToSet(InRankOrder(e)) = ToSet(e)
           /\ \A n, m \in 1 .. Len(e) :
                 n < m => Rank[InRankOrder(e)[n]] < Rank[InRankOrder(e)[m]]
<1> DEFINE F == 1 .. Len(e)
           rank == [j \in F |-> Rank[e[j]]]
           Before(i) == {j \in F : rank[j] < rank[i]}
           turn == [k \in F |-> Cardinality(Before(k))]
           at == [n \in F |-> CHOOSE i \in DOMAIN e : Place(e, i) = n - 1]
           out == [n \in F |-> e[at[n]]]
<1>1. Len(e) \in Nat /\ DOMAIN e = F /\ \A i \in F : e[i] \in Objects
  BY LengthOf
<1>2. rank \in [F -> Int] /\ IsInjective(rank)
  <2>1. \A i \in F : Rank[e[i]] \in Nat
    BY <1>1, RankAssumption
  <2>2. \A i, j \in F : Rank[e[i]] = Rank[e[j]] => i = j
    BY <1>1, RankAssumption DEF IsInjective
  <2> QED
    BY <2>1, <2>2 DEF IsInjective
<1>3. IsFiniteSet(F) /\ Cardinality(F) = Len(e)
  <2>1. IsFiniteSet(F) /\ Cardinality(F) = IF 1 > Len(e) THEN 0 ELSE Len(e) - 1 + 1
    BY <1>1, FS_Interval
  <2> QED
    BY <1>1, <2>1
<1>4. turn \in Bijection(F, 0 .. Len(e) - 1)
  <2> HIDE DEF F, rank
  <2>1. turn \in Bijection(F, 0 .. Cardinality(F) - 1)
    BY <1>2, <1>3, RanksCount
  <2> QED
    BY <1>3, <2>1
<1>5. /\ turn \in [F -> 0 .. Len(e) - 1]
      /\ \A i, j \in F : turn[i] = turn[j] => i = j
      /\ \A t \in 0 .. Len(e) - 1 : \E i \in F : turn[i] = t
  <2> HIDE DEF turn, F
  <2> QED
    BY <1>4 DEF Bijection, Injection, Surjection, IsInjective
<1>6. \A i, j \in F : turn[i] < turn[j] => rank[i] < rank[j]
  <2> SUFFICES ASSUME NEW i \in F, NEW j \in F, turn[i] < turn[j], ~(rank[i] < rank[j])
               PROVE  FALSE
    OBVIOUS
  <2>1. Before(j) \subseteq Before(i)
    <3>1. \A k \in F : rank[k] \in Int
      BY <1>2
    <3> HIDE DEF rank, F
    <3> QED
      BY <3>1
  <2>2. IsFiniteSet(Before(i)) /\ IsFiniteSet(Before(j))
    <3> HIDE DEF rank, F
    <3>1. Before(i) \in SUBSET F /\ Before(j) \in SUBSET F
      OBVIOUS
    <3> HIDE DEF Before
    <3> QED
      BY <1>3, <3>1, FS_Subset
  <2>3. turn[i] = Cardinality(Before(i)) /\ turn[j] = Cardinality(Before(j))
    <3> HIDE DEF rank, F, Before
    <3> QED
      OBVIOUS
  <2>4. Cardinality(Before(j)) <= Cardinality(Before(i))
    <3> HIDE DEF Before
    <3> QED
      BY <2>1, <2>2, FS_Subset
  <2> HIDE DEF turn, Before
  <2>5. turn[i] \in Int /\ turn[j] \in Int
    BY <1>1, <1>5
  <2> QED
    BY <2>3, <2>4, <2>5
<1>7. \A i \in F : Place(e, i) = turn[i]
  <2> SUFFICES ASSUME NEW i \in F
               PROVE  Before(i) = {j \in DOMAIN e :
                          \/ Rank[e[j]] < Rank[e[i]]
                          \/ Rank[e[j]] = Rank[e[i]] /\ j < i}
    BY DEF Place
  <2>1. \A j \in F : rank[j] = Rank[e[j]] /\ (rank[j] = rank[i] => j = i)
    BY <1>2 DEF IsInjective
  <2>2. \A j \in F : ~(j < j)
    OBVIOUS
  <2> HIDE DEF rank
  <2> QED
    BY <1>1, <2>1, <2>2
<1>8. \A n \in F : at[n] \in F /\ turn[at[n]] = n - 1
  <2> SUFFICES ASSUME NEW n \in F PROVE at[n] \in F /\ turn[at[n]] = n - 1
    OBVIOUS
  <2>1. n - 1 \in 0 .. Len(e) - 1
    BY <1>1
  <2> HIDE DEF turn, F
  <2>2. \E i \in DOMAIN e : Place(e, i) = n - 1
    BY <1>1, <1>5, <1>7, <2>1
  <2>3. at[n] \in DOMAIN e /\ Place(e, at[n]) = n - 1
    BY <2>2
  <2> QED
    BY <1>1, <1>7, <2>3
<1>9. InRankOrder(e) = out
  <2> HIDE DEF turn, rank
  <2> QED
    BY <1>1 DEF InRankOrder
<1>10. /\ Len(e) \in Nat /\ \A i \in F : e[i] \in Objects /\ rank[i] = Rank[e[i]]
      /\ \A i \in F : turn[i] \in 0 .. Len(e) - 1
  BY <1>1, <1>5
<1> HIDE DEF rank, Before, turn, at
<1>11. out \in Seq(Objects) /\ Len(out) = Len(e) /\ \A n \in F : out[n] = e[at[n]]
  <2>1. out \in [F -> Objects]
    BY <1>8, <1>10
  <2>2. out \in Seq(Objects)
    BY <1>10, <2>1, SeqDef
  <2> QED
    BY <1>10, <2>2, LenProperties
<1>12. ToSet(out) = ToSet(e)
  <2>1. \A i \in F : turn[i] + 1 \in F /\ at[turn[i] + 1] = i
    <3> SUFFICES ASSUME NEW i \in F PROVE turn[i] + 1 \in F /\ at[turn[i] + 1] = i
      OBVIOUS
    <3>1. turn[i] + 1 \in F /\ turn[i] + 1 - 1 = turn[i]
      BY <1>10
    <3> HIDE DEF F
    <3> QED
      BY <1>5, <1>8, <3>1
  <2>2. DOMAIN out = F /\ DOMAIN e = F
    BY <1>1
  <2>3. \A n \in F : out[n] \in ToSet(e)
    BY <1>8, <1>11, <2>2 DEF ToSet
  <2>4. \A i \in F : e[i] = out[turn[i] + 1] /\ turn[i] + 1 \in F
    BY <1>11, <2>1
  <2> HIDE DEF out, F
  <2> QED
    BY <2>2, <2>3, <2>4 DEF ToSet
<1>13. ASSUME NEW n \in F, NEW m \in F, n < m PROVE Rank[out[n]] < Rank[out[m]]
  <2>1. turn[at[n]] < turn[at[m]]
    BY <1>8, <1>13
  <2>2. rank[at[n]] < rank[at[m]]
    BY <1>6, <1>8, <2>1
  <2> QED
    BY <1>8, <1>10, <1>11, <2>2
<1> QED
  BY <1>9, <1>11, <1>12, <1>13

(* An object is filed for a tick: in the bucket of the tick, or in its     *)
(* queue in the map.                                                       *)
InRing(p, t) == near[RingIndex(t)].tick = t /\ Contains(near[RingIndex(t)].events, p)
InQueue(p, t) == InRing(p, t) \/ Contains(far[t], p)

LEMMA BucketOf ==
    ASSUME TypeOK, NEW t \in Ticks
    PROVE  /\ t \in Nat /\ t # NoTick /\ RingIndex(t) \in 0 .. Window - 1
           /\ near[RingIndex(t)] \in Bucket
           /\ near[RingIndex(t)].events \in Seq(Objects) /\ far[t] \in Seq(Objects)
           /\ near[RingIndex(t)].tick \in Ticks \cup {NoTick}
<1>1. t \in Nat /\ t # NoTick
  BY TicksAre DEF NoTick
<1>2. RingIndex(t) \in 0 .. Window - 1
  BY <1>1, RingIndexOf
<1>3. near[RingIndex(t)] \in Bucket /\ far[t] \in Seq(Objects)
  BY <1>2 DEF TypeOK
<1> QED
  BY <1>1, <1>2, <1>3 DEF Bucket

LEMMA FiledAre ==
    ASSUME TypeOK, NEW t \in Ticks
    PROVE  /\ Filed(t) \in Seq(Objects)
           /\ \A p \in Objects : Contains(Filed(t), p) <=> InQueue(p, t)
<1> DEFINE r == near[RingIndex(t)]
           e == IF r.tick = t THEN r.events ELSE << >>
<1>1. r.events \in Seq(Objects) /\ << >> \in Seq(Objects) /\ far[t] \in Seq(Objects)
  BY BucketOf
<1>2. e \in Seq(Objects) /\ Filed(t) = e \o far[t]
  BY <1>1 DEF Filed
<1>3. \A p \in Objects : Contains(e, p) <=> InRing(p, t)
  BY InEmpty DEF InRing
<1> HIDE DEF e
<1>4. \A p \in Objects : Contains(e \o far[t], p) <=> Contains(e, p) \/ Contains(far[t], p)
  BY <1>1, <1>2, InConcat
<1>5. e \o far[t] \in Seq(Objects)
  BY <1>1, <1>2, ConcatProperties
<1> QED
  BY <1>2, <1>3, <1>4, <1>5 DEF InQueue

Booked == {e \in Objects \X Ticks : InQueue(e[1], e[2])}

LEMMA AppointmentsAre == TypeOK => Appointments = Booked
BY FiledAre DEF Appointments, Booked

LEMMA AppointmentsThen == TypeOK' => Appointments' = Booked'
<1>1. (TypeOK => Appointments = Booked)'
  BY AppointmentsAre, PTL
<1> QED
  BY <1>1

LEMMA FiledWithoutRepeat ==
    ASSUME QueueInv, FiledOnce, NEW t \in Ticks
    PROVE  IsInjective(Filed(t))
<1> DEFINE r == near[RingIndex(t)]
           e == IF r.tick = t THEN r.events ELSE << >>
<1>1. r.events \in Seq(Objects) /\ << >> \in Seq(Objects) /\ far[t] \in Seq(Objects)
      /\ RingIndex(t) \in 0 .. Window - 1
  BY BucketOf DEF QueueInv
<1>2. e \in Seq(Objects) /\ Filed(t) = e \o far[t]
  BY <1>1 DEF Filed
<1>3. IsInjective(<< >>)
  BY DEF IsInjective
<1>4. IsInjective(e) /\ IsInjective(far[t])
  BY <1>1, <1>3 DEF FiledOnce, OnceInRing, OnceInMap
<1>5. \A p \in Objects : Contains(e, p) => ~Contains(far[t], p)
  BY InEmpty DEF FiledOnce, InOnePlace
<1> HIDE DEF e
<1> QED
  BY <1>1, <1>2, <1>4, <1>5, OnceConcatenated

(* The bucket that a near tick takes over holds nothing of another tick.   *)
LEMMA NothingCleared ==
    ASSUME QueueInv, FiledOnce, NEW when \in Ticks, IsNear(when),
           near[RingIndex(when)].tick # when
    PROVE  near[RingIndex(when)].events = << >>
<1> DEFINE r == RingIndex(when)
           t == near[r].tick
<1>1. r \in 0 .. Window - 1 /\ t \in Ticks \cup {NoTick} /\ when \in Nat
  BY BucketOf DEF QueueInv
<1>2. curTick \in Nat /\ Window \in Nat \ {0}
  BY LastTickAssumption, WindowAssumption DEF QueueInv, TypeOK
<1> SUFFICES ASSUME near[r].events # << >> PROVE FALSE
  OBVIOUS
<1>3. t >= curTick /\ t < curTick + Window
  BY <1>1 DEF QueueInv, RingNotOverdue, FiledOnce, RingIsNear
<1>4. t \in Nat /\ t # NoTick
  BY <1>1, <1>2, <1>3, TicksAre DEF NoTick
<1>5. t % Window = when % Window
  BY <1>1, <1>4 DEF QueueInv, RingInPlace, RingIndex
<1>6. when >= curTick /\ when < curTick + Window
  BY DEF IsNear
<1> HIDE DEF t, r
<1>7. t \in curTick .. curTick + Window - 1 /\ when \in curTick .. curTick + Window - 1
  BY <1>1, <1>2, <1>3, <1>4, <1>6
<1>8. t = when
  BY <1>2, <1>5, <1>7, SameRound
<1> QED
  BY <1>8 DEF t, r

(* A tick beyond the window has no bucket.                                 *)
LEMMA NoBucketBeyond ==
    ASSUME QueueInv, FiledOnce, NEW when \in Ticks, when >= curTick, ~IsNear(when)
    PROVE  near[RingIndex(when)].tick # when
<1>1. RingIndex(when) \in 0 .. Window - 1 /\ when \in Nat
  BY BucketOf DEF QueueInv
<1>2. curTick \in Nat /\ Window \in Nat
  BY LastTickAssumption, WindowAssumption DEF QueueInv, TypeOK
<1>3. when >= curTick + Window
  BY <1>1, <1>2 DEF IsNear
<1> QED
  BY <1>1, <1>2, <1>3 DEF FiledOnce, RingIsNear

(* What is on the agenda, and what a step adds to it.                      *)
AddsToAgenda(o, when) ==
    \A p \in Objects, t \in Ticks : InQueue(p, t)' <=> InQueue(p, t) \/ (p = o /\ t = when)

LEMMA ScheduleFiles ==
    ASSUME QueueInv, FiledOnce, NEW o \in Objects, NEW when \in Ticks, when >= curTick,
           Schedule(o, when), curTick' = curTick
    PROVE  FiledOnce' /\ AddsToAgenda(o, when)
<1> DEFINE r == RingIndex(when)
<1>1. /\ when \in Nat /\ when # NoTick /\ r \in 0 .. Window - 1
      /\ near[r].events \in Seq(Objects) /\ far[when] \in Seq(Objects)
      /\ near[r] \in Bucket
  BY BucketOf DEF QueueInv
<1>2. near \in [0 .. Window - 1 -> Bucket] /\ far \in [Ticks -> Seq(Objects)]
  BY DEF QueueInv, TypeOK
<1>3. \A t \in Ticks : RingIndex(t) \in 0 .. Window - 1
  BY BucketOf DEF QueueInv
<1>4. CASE Scheduled(o, when)
  <2>1. near' = near /\ far' = far
    BY <1>4 DEF Schedule
  <2>2. InQueue(o, when)
    BY <1>4 DEF Scheduled, InQueue, InRing
  <2>3. \A p, t : InQueue(p, t)' <=> InQueue(p, t)
    BY <2>1 DEF InQueue, InRing, RingIndex
  <2>4. FiledOnce'
    BY <2>1 DEF FiledOnce, RingIsNear, OnceInRing, OnceInMap, InOnePlace, RingIndex
  <2> QED
    BY <2>2, <2>3, <2>4 DEF AddsToAgenda
<1>5. CASE ~Scheduled(o, when) /\ IsNear(when)
  <2> DEFINE b == Renewed(near[r], when)
             c == [b EXCEPT !.events = Append(@, o)]
             q == b.events
  <2>1. near' = [near EXCEPT ![r] = c] /\ far' = far
    BY <1>5 DEF Schedule
  <2>2. b = [tick |-> when, events |-> q] /\ q \in Seq(Objects)
    BY <1>1 DEF Renewed, Bucket
  <2>3. c.tick = when /\ c.events = Append(q, o)
    <3> HIDE DEF b
    <3>1. c = [tick |-> when, events |-> Append(b.events, o)]
      BY <2>2
    <3> QED
      BY <3>1
  <2>4. q = IF near[r].tick = when THEN near[r].events ELSE << >>
    BY DEF Renewed
  <2>5. ~Contains(q, o) /\ ~Contains(far[when], o)
    BY <1>5, <2>4, InEmpty DEF Scheduled
  <2>6. IsInjective(q)
    <3>1. IsInjective(<< >>) /\ IsInjective(near[r].events)
      BY <1>1 DEF IsInjective, FiledOnce, OnceInRing
    <3> QED
      BY <2>4, <3>1
  <2>7. \A p \in Objects : Contains(c.events, p) <=> Contains(q, p) \/ p = o
    BY <2>2, <2>3, InAppended
  <2>8. IsInjective(c.events)
    BY <2>2, <2>3, <2>5, <2>6, OnceAppended
  <2>9. near[r].tick # when => near[r].events = << >>
    BY <1>5, NothingCleared
  <2> HIDE DEF b, c, q, r
  <2>10. \A i \in 0 .. Window - 1 : near'[i] = IF i = r THEN c ELSE near[i]
    BY <1>2, <2>1
  <2>11. RingIsNear' /\ OnceInRing' /\ OnceInMap'
    <3>1. when < curTick + Window
      BY <1>5 DEF IsNear
    <3>2. RingIsNear /\ OnceInRing /\ OnceInMap
      BY DEF FiledOnce
    <3> QED
      BY <2>1, <2>3, <2>8, <2>10, <3>1, <3>2 DEF RingIsNear, OnceInRing, OnceInMap
  <2>12. \A p \in Objects, t \in Ticks : InRing(p, t)' <=> InRing(p, t) \/ (p = o /\ t = when)
    <3> SUFFICES ASSUME NEW p \in Objects, NEW t \in Ticks
                 PROVE  InRing(p, t)' <=> InRing(p, t) \/ (p = o /\ t = when)
      OBVIOUS
    <3>1. RingIndex(t) \in 0 .. Window - 1 /\ RingIndex(t)' = RingIndex(t)
      BY <1>3 DEF RingIndex
    <3>2. CASE RingIndex(t) # r
      <4>1. near'[RingIndex(t)] = near[RingIndex(t)] /\ t # when
        BY <2>10, <3>1, <3>2 DEF r
      <4> QED
        BY <3>1, <4>1 DEF InRing
    <3>3. CASE RingIndex(t) = r /\ t = when
      <4>1. InRing(p, t)' <=> Contains(c.events, p)
        BY <2>3, <2>10, <3>1, <3>3 DEF InRing
      <4>2. InRing(p, t) <=> Contains(q, p)
        BY <2>4, <3>3, InEmpty DEF InRing
      <4> QED
        BY <2>7, <3>3, <4>1, <4>2
    <3>4. CASE RingIndex(t) = r /\ t # when
      <4>1. ~InRing(p, t)'
        BY <2>3, <2>10, <3>1, <3>4 DEF InRing
      <4>2. ~InRing(p, t)
        BY <2>9, <3>4, InEmpty DEF InRing
      <4> QED
        BY <3>4, <4>1, <4>2
    <3> QED
      BY <3>2, <3>3, <3>4
  <2>13. AddsToAgenda(o, when)
    BY <2>1, <2>12 DEF AddsToAgenda, InQueue
  <2>14. InOnePlace'
    <3> SUFFICES ASSUME NEW t \in Ticks, NEW p \in Objects, InRing(p, t)'
                 PROVE  ~Contains(far[t], p)
      BY <2>1 DEF InOnePlace, InRing
    <3>1. CASE p = o /\ t = when
      BY <2>5, <3>1
    <3>2. CASE InRing(p, t)
      BY <3>2 DEF InRing, FiledOnce, InOnePlace
    <3> QED
      BY <2>12, <3>1, <3>2
  <2> QED
    BY <2>11, <2>13, <2>14 DEF FiledOnce
<1>6. CASE ~Scheduled(o, when) /\ ~IsNear(when)
  <2>1. near' = near /\ far' = [far EXCEPT ![when] = Append(@, o)]
    BY <1>6 DEF Schedule
  <2>2. \A t \in Ticks : far'[t] = IF t = when THEN Append(far[when], o) ELSE far[t]
    BY <1>2, <2>1
  <2>3. ~Contains(far[when], o) /\ IsInjective(far[when])
    BY <1>6 DEF Scheduled, FiledOnce, OnceInMap
  <2>4. IsInjective(Append(far[when], o))
    BY <1>1, <2>3, OnceAppended
  <2>5. \A p \in Objects : Contains(Append(far[when], o), p) <=> Contains(far[when], p) \/ p = o
    BY <1>1, InAppended
  <2>6. near[RingIndex(when)].tick # when
    BY <1>6, NoBucketBeyond
  <2>7. RingIsNear' /\ OnceInRing'
    BY <2>1 DEF FiledOnce, RingIsNear, OnceInRing
  <2>8. OnceInMap'
    BY <2>2, <2>4 DEF FiledOnce, OnceInMap
  <2>9. InOnePlace'
    BY <2>1, <2>2, <2>6 DEF FiledOnce, InOnePlace, RingIndex
  <2>10. \A p, t : InRing(p, t)' <=> InRing(p, t)
    BY <2>1 DEF InRing, RingIndex
  <2>11. AddsToAgenda(o, when)
    BY <2>2, <2>5, <2>10 DEF AddsToAgenda, InQueue
  <2> QED
    BY <2>7, <2>8, <2>9, <2>11 DEF FiledOnce
<1> QED
  BY <1>4, <1>5, <1>6

(* Taking the slot of the tick leaves the other ticks alone.               *)
LEMMA TakeSlotFiles ==
    ASSUME QueueInv, FiledOnce, TakeSlot
    PROVE  /\ FiledOnce'
           /\ \A p \in Objects, t \in Ticks : InQueue(p, t)' <=> InQueue(p, t) /\ t # curTick
<1> DEFINE r == RingIndex(curTick)
           c == AfterTake(near[r])
<1>1. near' = [near EXCEPT ![r] = c] /\ far' = [far EXCEPT ![curTick] = << >>]
      /\ curTick' = curTick
  BY DEF TakeSlot
<1>2. near \in [0 .. Window - 1 -> Bucket] /\ far \in [Ticks -> Seq(Objects)]
  BY DEF QueueInv, TypeOK
<1>3. \A t \in Ticks : RingIndex(t) \in 0 .. Window - 1 /\ RingIndex(t)' = RingIndex(t)
  BY BucketOf DEF QueueInv, RingIndex
<1>4. curTick \in Ticks
  BY TicksAre, LastTickAssumption DEF QueueInv, TypeOK
<1>5. r \in 0 .. Window - 1 /\ near[r] \in Bucket
  BY <1>2, <1>3, <1>4
<1>6. c.tick = near[r].tick /\ c.events = IF near[r].tick = curTick THEN << >> ELSE near[r].events
  BY <1>5 DEF AfterTake, Bucket
<1> HIDE DEF c, r
<1>7. \A i \in 0 .. Window - 1 : near'[i] = IF i = r THEN c ELSE near[i]
  BY <1>1, <1>2
<1>8. \A t \in Ticks : far'[t] = IF t = curTick THEN << >> ELSE far[t]
  BY <1>1, <1>2
<1>9. \A p \in Objects, t \in Ticks : InRing(p, t)' <=> InRing(p, t) /\ t # curTick
  <2> SUFFICES ASSUME NEW p \in Objects, NEW t \in Ticks
               PROVE  InRing(p, t)' <=> InRing(p, t) /\ t # curTick
    OBVIOUS
  <2>1. CASE RingIndex(t) # r
    <3>1. near'[RingIndex(t)] = near[RingIndex(t)] /\ t # curTick
      BY <1>3, <1>7, <2>1 DEF r
    <3> QED
      BY <1>3, <3>1 DEF InRing
  <2>2. CASE RingIndex(t) = r
    BY <1>3, <1>6, <1>7, <2>2, InEmpty DEF InRing
  <2> QED
    BY <2>1, <2>2
<1>10. \A p \in Objects, t \in Ticks : Contains(far'[t], p) <=> Contains(far[t], p) /\ t # curTick
  BY <1>8, InEmpty
<1>11. RingIsNear' /\ OnceInRing' /\ OnceInMap'
  <2>1. IsInjective(<< >>)
    BY DEF IsInjective
  <2> QED
    BY <1>1, <1>6, <1>7, <1>8, <2>1 DEF FiledOnce, RingIsNear, OnceInRing, OnceInMap
<1>12. InOnePlace'
  <2> SUFFICES ASSUME NEW t \in Ticks, NEW p \in Objects, InRing(p, t)'
               PROVE  ~Contains(far'[t], p)
    BY DEF InOnePlace, InRing
  <2>1. InRing(p, t)
    BY <1>9
  <2> QED
    BY <1>10, <2>1 DEF InRing, FiledOnce, InOnePlace
<1> QED
  BY <1>9, <1>10, <1>11, <1>12 DEF FiledOnce, InQueue

-----------------------------------------------------------------------------
(* Every step is a step of the agenda                                      *)

LEMMA AgendaInvInit == Init => AgendaInv
<1> SUFFICES ASSUME Init PROVE AgendaInv
  OBVIOUS
<1>1. QueueInv
  BY QueueInit
<1>2. IsInjective(<< >>) /\ << >> \in Seq(Objects) /\ Len(<< >>) = 0
  BY DEF IsInjective
<1>3. near = [i \in 0 .. Window - 1 |-> [tick |-> NoTick, events |-> << >>]]
      /\ far = [t \in Ticks |-> << >>] /\ curTick = 0 /\ slot = << >>
  BY DEF Init
<1>4. RingIsNear /\ OnceInRing /\ OnceInMap
  BY <1>2, <1>3, WindowAssumption DEF RingIsNear, OnceInRing, OnceInMap, NoTick
<1>5. InOnePlace
  BY <1>3, InEmpty DEF InOnePlace
<1>6. PassInOrder
  BY <1>2, <1>3 DEF PassInOrder
<1> QED
  BY <1>1, <1>4, <1>5, <1>6 DEF AgendaInv, FiledOnce

LEMMA AgendaInit == Init => Implemented!Init
<1> SUFFICES ASSUME Init PROVE Implemented!Init
  OBVIOUS
<1>1. TypeOK
  BY QueueInit DEF QueueInv
<1>2. \A p \in Objects, t \in Ticks : ~InQueue(p, t)
  <2> SUFFICES ASSUME NEW p \in Objects, NEW t \in Ticks PROVE ~InQueue(p, t)
    OBVIOUS
  <2>1. RingIndex(t) \in 0 .. Window - 1
    BY <1>1, BucketOf
  <2>2. near[RingIndex(t)].events = << >> /\ far[t] = << >>
    BY <2>1 DEF Init
  <2> QED
    BY <2>2, InEmpty DEF InQueue, InRing
<1>3. Appointments = {}
  BY <1>1, <1>2, AppointmentsAre DEF Booked
<1>4. ToSet(slot) = {} /\ curTick = 0
  BY DEF Init, ToSet
<1> QED
  BY <1>3, <1>4 DEF Implemented!Init

(* A call of schedule adds an appointment, or none that was not there.     *)
LEMMA ScheduleAdds ==
    ASSUME AgendaInv, NEW o \in Objects, NEW when \in Ticks, when >= curTick,
           Schedule(o, when), UNCHANGED <<curTick, slot, running, driver>>
    PROVE  FiledOnce' /\ PassInOrder' /\ Implemented!Next
<1>1. FiledOnce' /\ AddsToAgenda(o, when)
  BY ScheduleFiles DEF AgendaInv
<1>2. PassInOrder'
  BY DEF AgendaInv, PassInOrder
<1>3. TypeOK /\ TypeOK'
  <2>1. QueueInv
    BY DEF AgendaInv
  <2>2. near' \in [0 .. Window - 1 -> Bucket] /\ far' \in [Ticks -> Seq(Objects)]
    BY <2>1, ScheduleStep
  <2> QED
    BY <2>1, <2>2 DEF QueueInv, TypeOK
<1>4. Appointments = Booked /\ Appointments' = Booked'
  BY <1>3, AppointmentsAre, AppointmentsThen
<1>5. Appointments' = Appointments \cup {<<o, when>>}
  <2>1. \A e \in Objects \X Ticks :
            InQueue(e[1], e[2])' <=> InQueue(e[1], e[2]) \/ e = <<o, when>>
    BY <1>1 DEF AddsToAgenda
  <2> QED
    BY <1>4, <2>1 DEF Booked
<1>6. UNCHANGED <<curTick, ToSet(slot)>>
  OBVIOUS
<1>7. Implemented!Add(o)
  BY <1>5, <1>6 DEF Implemented!Add
<1> QED
  BY <1>1, <1>2, <1>7 DEF Implemented!Next

LEMMA DueIs ==
    ASSUME AgendaInv
    PROVE  /\ curTick \in Ticks /\ CurrentSlot = Filed(curTick)
           /\ Implemented!DueNow = {p \in Objects : InQueue(p, curTick)}
           /\ Implemented!DueNow = ToSet(CurrentSlot)
<1>1. TypeOK /\ curTick \in Ticks
  BY TicksAre, LastTickAssumption DEF AgendaInv, QueueInv, TypeOK
<1>2. CurrentSlot = Filed(curTick)
  BY DEF CurrentSlot, Filed
<1>3. Implemented!DueNow = {p \in Objects : InQueue(p, curTick)}
  BY <1>1, AppointmentsAre DEF Implemented!DueNow, Booked
<1>4. Filed(curTick) \in Seq(Objects)
      /\ \A p \in Objects : Contains(Filed(curTick), p) <=> InQueue(p, curTick)
  BY <1>1, FiledAre
<1>5. ToSet(Filed(curTick)) = {p \in Objects : InQueue(p, curTick)}
  <2> DEFINE q == Filed(curTick)
  <2>1. DOMAIN q = 1 .. Len(q) /\ \A i \in 1 .. Len(q) : q[i] \in Objects
    BY <1>4, LengthOf
  <2>2. \A p \in Objects : InQueue(p, curTick) <=> \E i \in 1 .. Len(q) : q[i] = p
    BY <1>4 DEF Contains
  <2> HIDE DEF q
  <2>3. ToSet(q) = {p \in Objects : InQueue(p, curTick)}
    BY <2>1, <2>2 DEF ToSet
  <2> QED
    BY <2>3 DEF q
<1> QED
  BY <1>1, <1>2, <1>3, <1>5

(* takeCurrentSlot begins a pass with all that is due.                     *)
LEMMA TakeSlotBegins ==
    ASSUME AgendaInv, TakeSlot
    PROVE  FiledOnce' /\ PassInOrder' /\ Implemented!Next
<1>1. QueueInv /\ FiledOnce /\ TypeOK
  BY DEF AgendaInv, QueueInv
<1>2. /\ FiledOnce'
      /\ \A p \in Objects, t \in Ticks : InQueue(p, t)' <=> InQueue(p, t) /\ t # curTick
  BY <1>1, TakeSlotFiles
<1>3. curTick \in Ticks /\ CurrentSlot = Filed(curTick)
      /\ Implemented!DueNow = {p \in Objects : InQueue(p, curTick)}
      /\ Implemented!DueNow = ToSet(CurrentSlot)
  BY DueIs
<1>4. /\ slot = << >> /\ CurrentSlot # << >> /\ slot' = InRankOrder(CurrentSlot)
      /\ curTick' = curTick
  BY DEF TakeSlot
<1> DEFINE q == CurrentSlot
<1>5. q \in Seq(Objects) /\ IsInjective(q)
  BY <1>1, <1>3, FiledAre, FiledWithoutRepeat
<1>6. /\ InRankOrder(q) \in Seq(Objects) /\ Len(InRankOrder(q)) = Len(q)
      /\ ToSet(InRankOrder(q)) = ToSet(q)
      /\ \A n, m \in 1 .. Len(q) : n < m => Rank[InRankOrder(q)[n]] < Rank[InRankOrder(q)[m]]
  <2> HIDE DEF q
  <2> QED
    BY <1>5, SortedPass
<1>7. PassInOrder'
  BY <1>4, <1>6 DEF PassInOrder
<1>8. ToSet(slot) = {} /\ ToSet(slot)' = Implemented!DueNow
  <2>1. ToSet(slot) = {}
    BY <1>4 DEF ToSet
  <2>2. ToSet(slot') = Implemented!DueNow
    BY <1>3, <1>4, <1>6
  <2> QED
    BY <2>1, <2>2
<1>9. Implemented!DueNow # {}
  <2>1. q # << >> /\ DOMAIN q = 1 .. Len(q) /\ Len(q) \in Nat /\ Len(q) > 0
    BY <1>4, <1>5, LengthOf
  <2>2. q[1] \in ToSet(q)
    <3> HIDE DEF q
    <3> QED
      BY <2>1 DEF ToSet
  <2> QED
    BY <1>3, <2>2
<1>10. Appointments = Booked /\ Appointments' = Booked'
  <2>1. QueueInv'
    BY <1>1, TakeSlotStep
  <2> QED
    BY <1>1, <2>1, AppointmentsAre, AppointmentsThen DEF QueueInv
<1>11. Appointments' = Appointments \ (Implemented!DueNow \X {curTick})
  <2>1. \A e \in Objects \X Ticks :
            InQueue(e[1], e[2])' <=>
                InQueue(e[1], e[2]) /\ e \notin Implemented!DueNow \X {curTick}
    BY <1>2, <1>3
  <2> QED
    BY <1>10, <2>1 DEF Booked
<1>12. Implemented!BeginPass
  BY <1>4, <1>8, <1>9, <1>11 DEF Implemented!BeginPass
<1> QED
  BY <1>2, <1>7, <1>12 DEF Implemented!Next

(* The first of the pass is the one of least rank.                         *)
LEMMA WakeupWakes ==
    ASSUME AgendaInv, NEW o \in Objects, Wakeup(o)
    PROVE  PassInOrder' /\ Implemented!Next
<1>1. /\ slot # << >> /\ o = Head(slot) /\ slot' = Tail(slot)
      /\ UNCHANGED <<curTick, near, far>>
  BY DEF Wakeup
<1>2. /\ slot \in Seq(Objects) /\ DOMAIN slot = 1 .. Len(slot)
      /\ \A i, j \in 1 .. Len(slot) : i < j => Rank[slot[i]] < Rank[slot[j]]
  BY LengthOf DEF AgendaInv, PassInOrder
<1>3. /\ Len(slot) \in Nat \ {0} /\ o = slot[1]
      /\ slot' \in Seq(Objects) /\ Len(slot') = Len(slot) - 1
      /\ \A i \in 1 .. Len(slot) - 1 : slot'[i] = slot[i + 1]
  BY <1>1, <1>2, TakeFrom
<1>4. DOMAIN slot' = 1 .. Len(slot) - 1
  BY <1>3, LengthOf
<1>5. PassInOrder'
  BY <1>2, <1>3 DEF PassInOrder
<1>6. \A i \in 1 .. Len(slot) : slot[i] \in Objects /\ Rank[slot[i]] \in Nat
  BY <1>2, LengthOf, RankAssumption
<1>7. \A i \in 1 .. Len(slot) : i = 1 \/ Rank[o] < Rank[slot[i]]
  BY <1>2, <1>3
<1>8. o \in ToSet(slot) /\ \A p \in ToSet(slot) : Rank[o] <= Rank[p]
  <2>1. \A i \in 1 .. Len(slot) : Rank[o] <= Rank[slot[i]]
    BY <1>3, <1>6, <1>7
  <2> QED
    BY <1>2, <1>3, <2>1 DEF ToSet
<1>9. ToSet(slot') = ToSet(slot) \ {o}
  <2>1. \A i \in 1 .. Len(slot) - 1 : slot'[i] \in ToSet(slot) /\ slot'[i] # o
    <3>1. \A i \in 1 .. Len(slot) - 1 : i + 1 \in 1 .. Len(slot) /\ i + 1 # 1
      BY <1>3
    <3>2. \A i \in 1 .. Len(slot) - 1 : slot[i + 1] \in ToSet(slot)
      BY <1>2, <3>1 DEF ToSet
    <3>3. \A i \in 1 .. Len(slot) - 1 : Rank[o] < Rank[slot[i + 1]]
      BY <1>7, <3>1
    <3>4. ~(Rank[o] < Rank[o])
      BY RankAssumption
    <3>5. \A i \in 1 .. Len(slot) - 1 : slot[i + 1] # o
      BY <3>3, <3>4
    <3> QED
      BY <1>3, <3>2, <3>5
  <2>2. \A i \in 1 .. Len(slot) : slot[i] = o \/ slot[i] \in ToSet(slot')
    <3> SUFFICES ASSUME NEW i \in 1 .. Len(slot), i # 1 PROVE slot[i] \in ToSet(slot')
      BY <1>3
    <3>1. i - 1 \in 1 .. Len(slot) - 1 /\ slot'[i - 1] = slot[i]
      BY <1>3
    <3> QED
      BY <1>4, <3>1 DEF ToSet
  <2> QED
    BY <1>2, <1>4, <2>1, <2>2 DEF ToSet
<1>10. Appointments' = Appointments
  BY <1>1 DEF Appointments, Filed, RingIndex
<1>11. Implemented!Wake(o)
  BY <1>1, <1>8, <1>9, <1>10 DEF Implemented!Wake
<1> QED
  BY <1>5, <1>11 DEF Implemented!Next

(* A tick ends when nothing is due in it.                                  *)
LEMMA SetCurTickTicks ==
    ASSUME AgendaInv, SetCurTick
    PROVE  FiledOnce' /\ PassInOrder' /\ Implemented!Next
<1>1. /\ driver = "drain" /\ curTick' = curTick + 1 /\ UNCHANGED <<near, far, slot>>
  BY DEF SetCurTick
<1>2. curTick \in Nat /\ Window \in Nat
  BY LastTickAssumption, WindowAssumption DEF AgendaInv, QueueInv, TypeOK
<1>3. slot = << >> /\ Filed(curTick) = << >>
  BY <1>1 DEF AgendaInv, QueueInv, NothingRuns, TickIsServed
<1>4. RingIsNear'
  <2> SUFFICES ASSUME NEW i \in 0 .. Window - 1 PROVE near[i].tick < curTick + 1 + Window
    BY <1>1 DEF RingIsNear
  <2>1. near[i].tick < curTick + Window
    BY DEF AgendaInv, FiledOnce, RingIsNear
  <2>2. near[i].tick \in Int
    BY TicksAre DEF AgendaInv, QueueInv, TypeOK, Bucket, NoTick
  <2> QED
    BY <1>2, <2>1, <2>2
<1>5. FiledOnce' /\ PassInOrder'
  BY <1>1, <1>4 DEF AgendaInv, FiledOnce, OnceInRing, OnceInMap, InOnePlace, PassInOrder, RingIndex
<1>6. Implemented!DueNow = {} /\ ToSet(slot) = {}
  BY <1>3, DueIs DEF ToSet
<1>7. Appointments' = Appointments /\ ToSet(slot)' = ToSet(slot)
  BY <1>1 DEF Appointments, Filed, RingIndex
<1>8. Implemented!Tick
  BY <1>1, <1>6, <1>7 DEF Implemented!Tick
<1> QED
  BY <1>5, <1>8 DEF Implemented!Next

LEMMA AgendaStep ==
    AgendaInv /\ [Next]_vars => AgendaInv' /\ [Implemented!Next]_(Implemented!agendaVars)
<1> SUFFICES ASSUME AgendaInv, [Next]_vars
             PROVE  AgendaInv' /\ [Implemented!Next]_(Implemented!agendaVars)
  OBVIOUS
<1> DEFINE Kept == FiledOnce' /\ PassInOrder'
           Promised == [Implemented!Next]_(Implemented!agendaVars)
<1>1. QueueInv'
  BY QueueStep DEF AgendaInv
<1> SUFFICES Kept /\ Promised
  BY <1>1 DEF AgendaInv
<1>2. curTick \in Nat /\ curTick <= LastTick /\ QueueInv /\ TypeOK
  BY LastTickAssumption DEF AgendaInv, QueueInv, TypeOK
<1>3. ASSUME UNCHANGED <<curTick, near, far, slot>> PROVE Kept /\ Promised
  <2>1. Appointments' = Appointments
    BY <1>3 DEF Appointments, Filed, RingIndex
  <2> QED
    BY <1>3, <2>1 DEF AgendaInv, FiledOnce, RingIsNear, OnceInRing, OnceInMap, InOnePlace,
                      PassInOrder, RingIndex, Implemented!agendaVars
<1>4. ASSUME NEW o \in Injectors, DriverSchedule(o) PROVE Kept /\ Promised
  <2>1. o \in Objects /\ curTick \in Ticks /\ curTick >= curTick
    BY <1>2, ScheduleAssumption, TicksAre, LastTickAssumption
  <2> QED
    BY <1>4, <2>1, ScheduleAdds DEF DriverSchedule
<1>5. CASE SetCurTick
  BY <1>5, SetCurTickTicks
<1>6. CASE TakeSlot
  BY <1>6, TakeSlotBegins
<1>7. ASSUME NEW o \in Objects, Wakeup(o) PROVE Kept /\ Promised
  <2>1. PassInOrder' /\ Implemented!Next
    BY <1>7, WakeupWakes
  <2>2. UNCHANGED <<curTick, near, far>>
    BY <1>7 DEF Wakeup
  <2>3. FiledOnce'
    BY <2>2 DEF AgendaInv, FiledOnce, RingIsNear, OnceInRing, OnceInMap, InOnePlace, RingIndex
  <2> QED
    BY <2>1, <2>3
<1>8. ASSUME NEW p \in Objects, NEW d \in Delays \cup {0}, WakeupSchedules(p, d)
      PROVE  Kept /\ Promised
  <2>1. curTick + d \in Ticks /\ curTick + d >= curTick
    <3>1. d \in Nat
      BY DelaysAssumption
    <3> QED
      BY <1>2, <3>1, TicksAre
  <2> QED
    BY <1>8, <2>1, ScheduleAdds DEF WakeupSchedules
<1>9. CASE CallProcess \/ ProcessReturn \/ WakeupReturns \/ UNCHANGED vars
  <2>1. UNCHANGED <<curTick, near, far, slot>>
    BY <1>9 DEF CallProcess, ProcessReturn, WakeupReturns, vars
  <2> QED
    BY <1>3, <2>1
<1> QED
  BY <1>4, <1>5, <1>6, <1>7, <1>8, <1>9 DEF Next

(* The ring with the map keeps the agenda of Agenda (AgendaSpec): every    *)
(* call of schedule is one appointment at its own tick, a pass takes all   *)
(* that is due and wakes it by rising rank, and no tick ends before its    *)
(* appointments are served, for any window and any delays.                 *)
THEOREM ImplementsAgenda == Spec => AgendaSpec
<1>1. Init => AgendaInv /\ Implemented!Init
  BY AgendaInvInit, AgendaInit
<1>2. AgendaInv /\ [Next]_vars => AgendaInv' /\ [Implemented!Next]_(Implemented!agendaVars)
  BY AgendaStep
<1>3. Spec => Implemented!Spec
  BY <1>1, <1>2, PTL DEF Spec, Implemented!Spec
<1> QED
  BY <1>3 DEF AgendaSpec
=============================================================================
