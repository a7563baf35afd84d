------------------------------- MODULE Agenda -------------------------------
(***************************************************************************)
(* What the event queue promises: an agenda of wakeups, each kept at its   *)
(* own tick.  The wakeups of a tick are taken in passes; a pass serves     *)
(* what was on the agenda when it began, in the order of Rank, and time    *)
(* advances only when nothing is left for the present tick.                *)
(***************************************************************************)
EXTENDS Integers

CONSTANTS Objects, Rank, Ticks

VARIABLES now,      \* the present tick
          agenda,   \* pairs of an object and the tick of its wakeup
          due       \* objects of the current pass still to be woken

agendaVars == <<now, agenda, due>>

Init == now = 0 /\ agenda = {} /\ due = {}

DueNow == {o \in Objects : <<o, now>> \in agenda}

Add(o) ==
    /\ \E when \in Ticks : when >= now /\ agenda' = agenda \cup {<<o, when>>}
    /\ UNCHANGED <<now, due>>

BeginPass ==
    /\ due = {} /\ DueNow # {}
    /\ due' = DueNow
    /\ agenda' = agenda \ (DueNow \X {now})
    /\ UNCHANGED now

Wake(o) ==
    /\ o \in due
    /\ \A p \in due : Rank[o] <= Rank[p]
    /\ due' = due \ {o}
    /\ UNCHANGED <<now, agenda>>

Tick ==
    /\ due = {} /\ DueNow = {}
    /\ now' = now + 1
    /\ UNCHANGED <<agenda, due>>

Next == \/ \E o \in Objects : Add(o) \/ Wake(o)
        \/ BeginPass
        \/ Tick

Spec == Init /\ [][Next]_agendaVars
=============================================================================
