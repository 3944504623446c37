-------------------------- MODULE MCSingleExecutor --------------------------
(* Instances of SingleExecutor for TLC: two executables share a tick, so that *)
(* the top may be any of them.                                                *)
EXTENDS SingleExecutor, TLC

CONSTANTS t1, t2, t3

TwoExecutables == {t1, t2}
TwoDue == (t1 :> 1) @@ (t2 :> 2)
ThreeExecutables == {t1, t2, t3}
ThreeDue == (t1 :> 1) @@ (t2 :> 2) @@ (t3 :> 2)
=============================================================================
