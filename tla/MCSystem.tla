------------------------------ MODULE MCSystem ------------------------------
(* Instances of System for TLC: one creator whose schedulables, of which    *)
(* one is always due, are registered, refused, lost or registered again     *)
(* during a tick; the program's exit beside a registration, and two threads *)
(* that create a system each.                                               *)
EXTENDS System
CONSTANTS slow, quick

Both == {slow, quick}
Ticks == [s \in Both |-> IF s = slow THEN 1 ELSE 0]
Setting(threads, calls, wrong) ==
    [creators |-> threads, exits |-> FALSE, overlaps |-> FALSE,
     registers |-> calls, until |-> 1, faults |-> wrong]

\* One thread and what may happen to its schedulables; two that create a system
\* each.
Runs ==
    {Setting(1, 3, {}), Setting(1, 2, {"refuse", "throw"}), Setting(1, 2, {"post"}),
     [Setting(1, 1, {}) EXCEPT !.exits = TRUE],
     [Setting(1, 2, {}) EXCEPT !.overlaps = TRUE],
     [Setting(2, 1, {"init"}) EXCEPT !.until = 0]}
=============================================================================
