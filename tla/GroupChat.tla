----------------------------- MODULE GroupChat -----------------------------
(***************************************************************************)
(* The chatting server of the group example: its members are sockets and   *)
(* message transmitters, its groups their receivers.  A group registers    *)
(* with a member that enters and unregisters from one that leaves; a       *)
(* message of a member goes to its receivers, and each sends it to all of  *)
(* its members.                                                            *)
(***************************************************************************)
EXTENDS GroupList

VARIABLES
    container, sending, \* the members as message transmitters
    saidIn \* history: the group a member was in when its message came

Transmitters == INSTANCE MessageTransmitter WITH
    Transmitters <- Members, Receivers <- Groups

vars == <<groupVars, container, sending, saidIn>>

TypeOK ==
    /\ GroupTypeOK
    /\ Transmitters!TransmitterTypeOK
    /\ saidIn \in [Members -> Groups \cup {NoGroup}]

Init ==
    /\ GroupInit
    /\ Transmitters!TransmitterInit
    /\ saidIn = [m \in Members |-> NoGroup]

\* A socket's handler does one thing after the other.
Free(t) == t \in Members => sending[t] = <<>>
Quiet == UNCHANGED <<container, sending, saidIn>>

\* on_member_entered: the group registers with the member, and tells all.
ChatEntered(m) ==
    /\ Transmitters!RegisterMessageable(m, thread[m].to)
    /\ Entered(m) \/ EnteredThrows(m)
    /\ UNCHANGED <<sending, saidIn>>

\* on_member_leaving: the group unregisters before the member is detached.
ChatLeaveGroup(t) ==
    /\ LeaveGroup(t)
    /\ IF LeavesNow(t)
       THEN Transmitters!UnregisterMessageable(thread[t].member, thread[t].from)
       ELSE UNCHANGED container
    /\ UNCHANGED <<sending, saidIn>>

\* on_message of a socket that is not in a call of its own.
ChatMessage(m) ==
    /\ At(m, "idle") /\ Free(m) /\ container[m] # <<>>
    /\ Transmitters!TransmitMessage(m)
    /\ saidIn' = [saidIn EXCEPT ![m] = group[m]]
    /\ UNCHANGED groupVars

\* on_message of a group: it sends the message on, with its lock.
ChatOnMessage(m) ==
    /\ ~crashed /\ sending[m] # <<>> /\ groupLock[Head(sending[m])] = Nobody
    /\ Transmitters!ProcessMessage(m)
    /\ saidIn' = [saidIn EXCEPT ![m] = IF sending'[m] = <<>> THEN NoGroup ELSE @]
    /\ UNCHANGED groupVars

MemberStep(m) ==
    \/ (EnterLock(m) \/ GetGroup(m) \/ Attach(m) \/ SetGroup(m)) /\ Quiet
    \/ ChatEntered(m) \/ ChatOnMessage(m)
ThreadStep(t) ==
    \/ LeaveMember(t) /\ Quiet
    \/ ChatLeaveGroup(t)

Next ==
    \/ \E m \in Members :
          \/ MemberStep(m) \/ ChatMessage(m)
          \/ \E g \in Groups : Free(m) /\ Enter(m, g) /\ Quiet
    \/ \E t \in Threads :
          \/ ThreadStep(t)
          \/ \E m \in Members, g \in Groups : Free(t) /\ Leave(t, m, g) /\ Quiet
    \/ \E g \in Groups :
          \/ LeaveAll(g) /\ Quiet
          \/ \E on \in BOOLEAN : Enable(g, on) /\ Quiet
    \/ LeaveAllFirst /\ Quiet

\* A thread in a call goes on when the lock it asks for is free, which it is
\* in the end as the calls are bounded; nobody is obliged to call.
Fairness ==
    /\ \A m \in Members : WF_vars(MemberStep(m) \/ ThreadStep(m))
    /\ WF_vars(ThreadStep(Admin))

Spec == Init /\ [][Next]_vars
FairSpec == Spec /\ Fairness

-----------------------------------------------------------------------------
(* Properties *)

\* A group is a receiver of exactly its members: of each, so that what it
\* says is heard, and of nobody else, except a member whose on_member_entered
\* threw after it was registered.
ReceiversAreGroups ==
    ~crashed => \A g \in Groups, m \in Members : Unlocked(g) =>
        /\ group[m] = g => g \in ToSet(container[m])
        /\ g \in ToSet(container[m]) => group[m] = g \/ Fails("entered")

\* And no group is registered twice, also one that left its place behind: a
\* message would be sent twice.
ReceiversAgree == ReceiversAreGroups /\ Transmitters!RegisteredOnce

\* A message is passed on to receivers that were copied before, so a group may
\* hear a member it has lost meanwhile.  It hears nobody else: whoever it hears
\* was its member when the message came, and is so still or was made to leave
\* since by Admin, and has not entered another group.  Only a member whose
\* on_member_entered threw goes on to be heard where it is still registered.
OnlyMembersAreHeard ==
    [][\A m \in Members : LET g == Head(sending[m]) IN
          sending[m] # <<>> /\ sending'[m] = Tail(sending[m]) =>
          \/ /\ saidIn[m] = g
             /\ group[m] = g \/ (setting.kicks /\ group[m] = NoGroup)
          \/ Fails("entered") /\ g \in ToSet(container[m])]_vars

\* Every call and every message handler returns: no order of entering,
\* leaving, being made to leave and sending locks two threads out of each
\* other's groups, leave_all aside.
CallsReturn ==
    ~setting.disbands =>
    /\ \A t \in Threads : (thread[t].point # "idle") ~> (thread[t].point = "idle")
    /\ \A m \in Members : (sending[m] # <<>>) ~> (sending[m] = <<>>)
=============================================================================
