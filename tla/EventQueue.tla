----------------------------- MODULE EventQueue -----------------------------
(***************************************************************************)
(* The event queue that drives the simulation, and the driver loop of      *)
(* main.  Wakeups of the next Window ticks go to a ring of buckets indexed *)
(* by the tick modulo Window, later ones to a map keyed by the tick.  A    *)
(* bucket is not cleared when its tick passes but when it is next written, *)
(* and an event filed under its tick in the map stays there when the tick  *)
(* comes near, so one tick may have events in both places.                 *)
(*                                                                         *)
(* process() serves a tick in passes: a wakeup may schedule other objects, *)
(* for the present tick too (a link of latency 0), and those run in a      *)
(* later pass of the same tick.                                            *)
(***************************************************************************)
EXTENDS Integers, Sequences, FiniteSets, SequencesExt

CONSTANTS
    Objects,     \* the clocked objects
    NoObject,    \* no wakeup is running
    Rank,        \* place of an object's (priority, name) in their order
    Window,      \* near_window
    Delays,      \* delays the wakeup of any object may schedule with
    SameTick,    \* <<o, p>>: the wakeup of o may schedule p with no delay
    Injectors,   \* objects the driver schedules: interfaces with a new message
    LastTick     \* last tick of the simulation (bounds time)

ASSUME RankAssumption ==
    /\ Rank \in [Objects -> Nat]
    /\ \A o, p \in Objects : Rank[o] = Rank[p] => o = p
ASSUME NoObjectAssumption == NoObject \notin Objects
ASSUME WindowAssumption == Window \in Nat \ {0}
ASSUME DelaysAssumption ==
    Delays \subseteq Nat \ {0} /\ \E d \in Delays : \A e \in Delays : e <= d
ASSUME ScheduleAssumption ==
    /\ SameTick \subseteq Objects \X Objects
    /\ Injectors \subseteq Objects
ASSUME LastTickAssumption == LastTick \in Nat

VARIABLES
    curTick,     \* _cur_tick
    near,        \* _near_events: ring of [tick, events]
    far,         \* _far_events, << >> where the map has no entry
    slot,        \* objects of the current pass of process()
    running,     \* the object whose wakeup is running, or NoObject
    driver       \* the driver loop: "step", "process" or "drain"

vars == <<curTick, near, far, slot, running, driver>>

NoTick == -1
Ticks == 0 .. LastTick + CHOOSE d \in Delays : \A e \in Delays : e <= d

Init ==
    /\ curTick = 0
    /\ near = [i \in 0 .. Window - 1 |-> [tick |-> NoTick, events |-> << >>]]
    /\ far = [t \in Ticks |-> << >>]
    /\ slot = << >>
    /\ running = NoObject
    /\ driver = "step"

-----------------------------------------------------------------------------
(* schedule                                                                *)

(* Mutant of IsNear: <= for <.                                             *)
IsNearWide(when) == when >= curTick /\ when <= curTick + Window

IsNear(when) == when >= curTick /\ when < curTick + Window
RingIndex(when) == when % Window

(* scheduled(): the ring counts only while the tick is near.               *)
Scheduled(o, when) ==
    \/ IsNear(when) /\ LET b == near[RingIndex(when)]
                       IN  b.tick = when /\ Contains(b.events, o)
    \/ Contains(far[when], o)

(* eventSlot(): a bucket of another tick is taken over and cleared.        *)
Renewed(bucket, when) ==
    IF bucket.tick = when THEN bucket ELSE [tick |-> when, events |-> << >>]

Schedule(o, when) ==
    IF Scheduled(o, when)
    THEN UNCHANGED <<near, far>>
    ELSE IF IsNear(when)
         THEN /\ near' = [near EXCEPT ![RingIndex(when)] =
                   LET b == Renewed(@, when)
                   IN  [b EXCEPT !.events = Append(@, o)]]
              /\ UNCHANGED far
         ELSE /\ far' = [far EXCEPT ![when] = Append(@, o)]
              /\ UNCHANGED near

-----------------------------------------------------------------------------
(* The driver loop of main                                                 *)

(* step(): a message enqueued for an interface wakes it in this tick.      *)
DriverSchedule(o) ==
    /\ driver = "step"
    /\ Schedule(o, curTick)
    /\ UNCHANGED <<curTick, slot, running, driver>>

CallProcess ==
    /\ driver = "step"
    /\ driver' = "process"
    /\ UNCHANGED <<curTick, near, far, slot, running>>

SetCurTick ==
    /\ driver = "drain"
    /\ curTick < LastTick
    /\ curTick' = curTick + 1
    /\ driver' = "step"
    /\ UNCHANGED <<near, far, slot, running>>

-----------------------------------------------------------------------------
(* process                                                                 *)

(* Mutant of CurrentSlot: the map is read only for a tick without a bucket.*)
RingOrMap ==
    LET b == near[RingIndex(curTick)]
    IN  IF b.tick = curTick THEN b.events ELSE far[curTick]

(* takeCurrentSlot(): the bucket of the tick, then its entry in the map.   *)
CurrentSlot ==
    LET b == near[RingIndex(curTick)]
    IN  (IF b.tick = curTick THEN b.events ELSE << >>) \o far[curTick]

AfterTake(bucket) ==
    IF bucket.tick = curTick THEN [bucket EXCEPT !.events = << >>] ELSE bucket

(* stable_sort(): by priority and name, then as they were filed.           *)
Place(events, i) ==
    Cardinality({j \in DOMAIN events :
        \/ Rank[events[j]] < Rank[events[i]]
        \/ Rank[events[j]] = Rank[events[i]] /\ j < i})
InRankOrder(events) ==
    [n \in DOMAIN events |->
        events[CHOOSE i \in DOMAIN events : Place(events, i) = n - 1]]

TakeSlot ==
    /\ driver = "process" /\ slot = << >> /\ running = NoObject
    /\ CurrentSlot # << >>
    /\ slot' = InRankOrder(CurrentSlot)
    /\ near' = [near EXCEPT ![RingIndex(curTick)] = AfterTake(@)]
    /\ far' = [far EXCEPT ![curTick] = << >>]
    /\ UNCHANGED <<curTick, running, driver>>

(* Mutant of ProcessReturn: one pass for each tick.                        *)
ReturnAfterPass ==
    /\ driver = "process" /\ slot = << >> /\ running = NoObject
    /\ driver' = "drain"
    /\ UNCHANGED <<curTick, near, far, slot, running>>

ProcessReturn ==
    /\ driver = "process" /\ slot = << >> /\ running = NoObject
    /\ CurrentSlot = << >>
    /\ driver' = "drain"
    /\ UNCHANGED <<curTick, near, far, slot, running>>

Wakeup(o) ==
    /\ running = NoObject
    /\ slot # << >> /\ o = Head(slot)
    /\ running' = o
    /\ slot' = Tail(slot)
    /\ UNCHANGED <<curTick, near, far, driver>>

(* A call of scheduleEvent or scheduleEventAbsolute by the running wakeup. *)
WakeupSchedules(p, d) ==
    /\ running # NoObject
    /\ d = 0 => <<running, p>> \in SameTick
    /\ Schedule(p, curTick + d)
    /\ UNCHANGED <<curTick, slot, running, driver>>

WakeupReturns ==
    /\ running # NoObject
    /\ running' = NoObject
    /\ UNCHANGED <<curTick, near, far, slot, driver>>

Next ==
    \/ \E o \in Injectors : DriverSchedule(o)
    \/ CallProcess
    \/ SetCurTick
    \/ TakeSlot
    \/ ProcessReturn
    \/ \E o \in Objects : Wakeup(o)
    \/ \E p \in Objects, d \in Delays \cup {0} : WakeupSchedules(p, d)
    \/ WakeupReturns

Spec == Init /\ [][Next]_vars

(* The loop of main and process() run to completion, and wakeups return.   *)
Fairness ==
    WF_vars(\/ CallProcess \/ SetCurTick \/ TakeSlot \/ ProcessReturn
            \/ WakeupReturns \/ \E o \in Objects : Wakeup(o))

FairSpec == Spec /\ Fairness

-----------------------------------------------------------------------------
(* Properties                                                              *)

(* The ring holds one tick per index, the map one queue of objects per far *)
(* tick, and an event of a far tick stays in the map.                      *)
Bucket == [tick : Ticks \cup {NoTick}, events : Seq(Objects)]
TypeOK ==
    /\ curTick \in 0 .. LastTick
    /\ near \in [0 .. Window - 1 -> Bucket]
    /\ far \in [Ticks -> Seq(Objects)]
    /\ driver \in {"step", "process", "drain"}

(* The events filed for a tick, wherever they are.                         *)
Filed(when) ==
    (IF near[RingIndex(when)].tick = when THEN near[RingIndex(when)].events ELSE << >>)
        \o far[when]

(* No event is left behind in a tick that has passed, where nothing would  *)
(* ever take it: not in the map, and not in a bucket of the ring that the  *)
(* next tick of the same index clears.                                     *)
NothingOverdue ==
    /\ \A i \in DOMAIN near : near[i].events # << >> => near[i].tick >= curTick
    /\ \A t \in Ticks : far[t] # << >> => t >= curTick
    /\ driver = "drain" => Filed(curTick) = << >>

(* The queue keeps an agenda: ring and map together lose nothing, wake     *)
(* nothing early or late, and the objects of a pass run in order of        *)
(* priority and name.                                                      *)
Appointments == {e \in Objects \X Ticks : Contains(Filed(e[2]), e[1])}
Implemented == INSTANCE Agenda WITH
    now    <- curTick,
    agenda <- Appointments,
    due    <- ToSet(slot)
AgendaSpec == Implemented!Spec

(* Every scheduled wakeup happens, at its tick and not at another.         *)
EveryEventFires ==
    \A o \in Objects, t \in 0 .. LastTick :
        Contains(Filed(t), o) ~> (running = o /\ curTick = t)

=============================================================================
