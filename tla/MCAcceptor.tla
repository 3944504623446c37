----------------------------- MODULE MCAcceptor -----------------------------
(* Instances of Acceptor for TLC: one worker and two calls of start(), two  *)
(* workers and one, with nothing going wrong, throwing callbacks and reads, *)
(* and everything going wrong, with and without failing exchanges.          *)
EXTENDS Acceptor

Setting(workers, calls, wrong) ==
    [workers |-> workers, starts |-> calls, faults |-> wrong]

Steady == AllFaults \ {"weak_cas"}
Servers ==
    {Setting(1, 2, wrong) : wrong \in {{}, Steady, AllFaults}} \cup
    {Setting(2, 1, wrong) : wrong \in {{}, {"on_connect", "arm"}, Steady}}
OneWorker == {Setting(1, 1, {})}
=============================================================================
