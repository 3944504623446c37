----------------------------- MODULE MCTimerHeap -----------------------------
(* Instances of TimerHeap for TLC: ids are interchangeable, ticks are not. *)
EXTENDS TimerHeap, TLC

ThreeTicks == 0..2
TwoTicks == 0..1
AnyTimer == Permutations(Timers)
=============================================================================
