------------------------------ MODULE WorkerPool ------------------------------
(***************************************************************************)
(* What the scheduler promises to whoever starts and stops it: a pool of   *)
(* goroutines that never has more than Slots at work, takes no new one     *)
(* once it is closed, and is closed only when the last one has ended.      *)
(* There is no queue, no semaphore and no counter here: Scheduler has      *)
(* them, and is shown to implement this.                                   *)
(***************************************************************************)
EXTENDS Naturals, FiniteSets

CONSTANTS
    Worker,     \* the goroutines
    Slots       \* how many may be at work

VARIABLES
    busy,       \* goroutines at work
    alive,      \* goroutines that have not ended
    phase       \* "down", "open", "closing", "closed"

poolVars == <<busy, alive, phase>>

Init == busy = {} /\ alive = {} /\ phase = "down"

Open ==
    /\ phase = "down"
    /\ phase' = "open"
    /\ UNCHANGED <<busy, alive>>

\* Also a pool that is closing may take what was on its way.
Take(w) ==
    /\ phase \in {"open", "closing"}
    /\ w \notin alive
    /\ Cardinality(busy) < Slots
    /\ busy' = busy \cup {w}
    /\ alive' = alive \cup {w}
    /\ UNCHANGED phase

Give(w) ==
    /\ w \in busy
    /\ busy' = busy \ {w}
    /\ UNCHANGED <<alive, phase>>

End(w) ==
    /\ w \in alive \ busy
    /\ alive' = alive \ {w}
    /\ UNCHANGED <<busy, phase>>

Close ==
    /\ phase = "open"
    /\ phase' = "closing"
    /\ UNCHANGED <<busy, alive>>

Closed ==
    /\ phase = "closing"
    /\ alive = {}
    /\ phase' = "closed"
    /\ UNCHANGED <<busy, alive>>

\* The process dies, and everything with it.
Die ==
    /\ phase # "down"
    /\ busy' = {} /\ alive' = {} /\ phase' = "down"

Next ==
    \/ Open \/ Close \/ Closed \/ Die
    \/ \E w \in Worker : Take(w) \/ Give(w) \/ End(w)

Spec == Init /\ [][Next]_poolVars
================================================================================
