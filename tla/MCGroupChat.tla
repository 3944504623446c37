---------------------------- MODULE MCGroupChat ----------------------------
(* Instances of GroupChat for TLC: two members, two groups that hold one    *)
(* member or two, and Admin doing one thing or another.                     *)
EXTENDS GroupChat

Setting(size, wrong) ==
    [most |-> size, kicks |-> FALSE, switches |-> FALSE, disbands |-> FALSE,
     faults |-> wrong]
Kicks(s) == [s EXCEPT !.kicks = TRUE]

Chats ==
    {Setting(2, {}), Setting(2, {"entering"}), Setting(1, {"entered"}),
     Kicks(Setting(1, {})), Kicks(Setting(2, {})), Kicks(Setting(2, {"entered"})),
     [Setting(1, {}) EXCEPT !.switches = TRUE],
     [Setting(2, {}) EXCEPT !.disbands = TRUE]}
=============================================================================
