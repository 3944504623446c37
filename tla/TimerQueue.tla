----------------------------- MODULE TimerQueue -----------------------------
(***************************************************************************)
(* What both schedulers expect of their timer heap: a set of timers with   *)
(* due ticks from which an earliest one can be taken and any one removed.  *)
(***************************************************************************)
EXTENDS Integers

CONSTANTS Timers,   \* what is scheduled: executables, schedulables
          Ticks     \* the points in time they may be due at

VARIABLES
    entries,   \* the scheduled timers, as records [id, tick]
    taken      \* the last timer that was taken, none yet if empty

qvars == <<entries, taken>>

Entry == [id : Timers, tick : Ticks]

QInit == entries = {} /\ taken = {}

Schedule(e) ==
    /\ \A f \in entries : f.id # e.id
    /\ entries' = entries \cup {e}
    /\ UNCHANGED taken

TakeEarliest(e) ==
    /\ \A f \in entries : e.tick <= f.tick
    /\ entries' = entries \ {e}
    /\ taken' = {e}

Remove(e) ==
    /\ entries' = entries \ {e}
    /\ UNCHANGED taken

\* A scheduler that stops.
RemoveAll ==
    /\ entries' = {}
    /\ UNCHANGED taken

QNext ==
    \/ RemoveAll
    \/ \E e \in Entry : Schedule(e)
    \/ \E e \in entries : TakeEarliest(e) \/ Remove(e)

QSpec == QInit /\ [][QNext]_qvars
=============================================================================
