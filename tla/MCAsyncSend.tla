----------------------------- MODULE MCAsyncSend -----------------------------
(* Instances of AsyncSend for TLC: messages written in up to two pieces, *)
(* and an empty one.                                                     *)
EXTENDS AsyncSend, TLC

CONSTANTS m1, m2, m3, m4

ThreeAndAnEmpty == {m1, m2, m3, m4}
ThreeAndAnEmptySizes == (m1 :> 2) @@ (m2 :> 1) @@ (m3 :> 1) @@ (m4 :> 0)
=============================================================================
