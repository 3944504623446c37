---------------------------- MODULE MCTcpSession ----------------------------
(* Instances of TcpSession for TLC; the configurations name the constants. *)
EXTENDS TcpSession

Setting(connector, starts, mayDrop, faults) ==
    [connector |-> connector, starts |-> starts, mayDrop |-> mayDrop,
     faults |-> faults]

\* Callbacks that throw, which any application may meet.
ServiceFaults == {"on_connect", "on_message"}

\* Started twice, by a connector and by itself; started once, with more and
\* more going wrong.
Sessions ==
    {Setting(TRUE, 2, TRUE, ServiceFaults), Setting(FALSE, 2, FALSE, ServiceFaults),
     Setting(TRUE, 1, TRUE, ServiceFaults \cup {"alloc"}),
     Setting(TRUE, 1, TRUE, AllFaults),
     Setting(TRUE, 1, TRUE, AllFaults \ {"arm"}),
     Setting(TRUE, 1, TRUE, AllFaults \ {"weak_cas"})}

Restarted == {Setting(TRUE, 2, TRUE, {})}
=============================================================================
