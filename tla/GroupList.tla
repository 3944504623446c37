----------------------------- MODULE GroupList -----------------------------
(***************************************************************************)
(* group::list with Igroup and Igroupable: members enter one group at a    *)
(* time, leaving the one they are in, and are made to leave.  Membership   *)
(* is kept twice, in the list of the group and in the member, under three  *)
(* locks: entering holds m_lockable_enter, leaving the member's lock, and  *)
(* both change the list under the group's.  What the callbacks of a group  *)
(* do is left to GroupChat; they run inside of the actions here.           *)
(*                                                                         *)
(* Each member calls from one thread, its socket's handlers; one more      *)
(* thread, Admin, makes members leave and closes groups to new ones.       *)
(***************************************************************************)
EXTENDS Integers, FiniteSets, Sequences, SequencesExt

CONSTANTS
    Groups,
    Members,
    Admin,
    NoGroup,
    MaxMembers, \* bound: m_count_max_member
    MaxCalls,   \* bound: calls each thread makes
    Settings    \* the settings a behaviour may have, see below

(***************************************************************************)
(* "entering" on_member_entering refuses   "entered" on_member_entered     *)
(* throws                                                                  *)
(***************************************************************************)
AllFaults == {"entering", "entered"}

\* m_count_max_member, whether the thread Admin makes members leave, switches
\* entering off and on, calls leave_all(), and what the callbacks do.
ASSUME SettingsAssumption ==
    Settings \subseteq [most : 1..MaxMembers, kicks : BOOLEAN, switches : BOOLEAN,
                       disbands : BOOLEAN, faults : SUBSET AllFaults]
ASSUME NamesAssumption ==
    Admin \notin Members /\ NoGroup \notin Groups \cup Members \cup {Admin}
ASSUME SomebodyAssumption == Members # {}
ASSUME BoundsAssumption == MaxMembers \in Nat \ {0} /\ MaxCalls \in Nat

Threads == Members \cup {Admin}
Nobody == NoGroup
Points == {"idle", "enter", "get_group", "leave_member", "leave_group", "attach",
           "set_group", "entered", "all_member"}

VARIABLES
    setting,    \* the setting of this behaviour
    list,       \* m_container_member of each group
    iter,       \* m_iter of each member: the group whose list it points into
    group,      \* m_pgroup of each member
    enabled,    \* m_enable_enter
    enterLock,  \* who holds m_lockable_enter of each group
    groupLock,  \* who holds m_cs_group of each group
    memberLock, \* who holds m_cs_group of each member
    thread,     \* where each thread is: it leaves from, enters to, for member
    calls,      \* calls made by each thread
    crashed     \* an iterator that is not valid was used

groupVars == <<setting, list, iter, group, enabled, enterLock, groupLock,
               memberLock, thread, calls, crashed>>

Call == [point : Points, from : Groups \cup {NoGroup}, to : Groups \cup {NoGroup},
         member : Members]

GroupTypeOK ==
    /\ setting \in Settings
    /\ list \in [Groups -> Seq(Members)]
    /\ iter \in [Members -> Groups \cup {NoGroup}]
    /\ group \in [Members -> Groups \cup {NoGroup}]
    /\ enabled \in [Groups -> BOOLEAN]
    /\ enterLock \in [Groups -> Threads \cup {Nobody}]
    /\ groupLock \in [Groups -> Threads \cup {Nobody}]
    /\ memberLock \in [Members -> Threads \cup {Nobody}]
    /\ thread \in [Threads -> Call]
    /\ calls \in [Threads -> 0..MaxCalls]
    /\ crashed \in BOOLEAN

Fails(fault) == fault \in setting.faults
Idle(t) == [point |-> "idle", from |-> NoGroup, to |-> NoGroup,
            member |-> IF t \in Members THEN t ELSE CHOOSE m \in Members : TRUE]

GroupInit ==
    /\ setting \in Settings
    /\ list = [g \in Groups |-> <<>>]
    /\ iter = [m \in Members |-> NoGroup]
    /\ group = [m \in Members |-> NoGroup]
    /\ enabled = [g \in Groups |-> TRUE]
    /\ enterLock = [g \in Groups |-> Nobody]
    /\ groupLock = [g \in Groups |-> Nobody]
    /\ memberLock = [m \in Members |-> Nobody]
    /\ thread = [t \in Threads |-> Idle(t)]
    /\ calls = [t \in Threads |-> 0]
    /\ crashed = FALSE

At(t, point) == thread[t].point = point /\ ~crashed
Goto(t, point) == thread' = [thread EXCEPT ![t].point = point]
Returns(t) == thread' = [thread EXCEPT ![t] = Idle(t)]
MayCall(t) == At(t, "idle") /\ calls[t] < MaxCalls
Called(t) == calls' = [calls EXCEPT ![t] = @ + 1]
Size(g) == Len(list[g])

Lock(locks, x, t) == [locks EXCEPT ![x] = t]
Unlock(locks, x) == [locks EXCEPT ![x] = Nobody]
\* The locks of groups and members are recursive.
MayLock(locks, x, t) == locks[x] \in {Nobody, t}

-----------------------------------------------------------------------------
(* process_enter *)

\* A bug: a full group is noticed one member too late.
Refuses_Late(g, m) == ~enabled[g] \/ group[m] = g \/ Size(g) > setting.most

\* The member and the size of the list are looked at without their locks.
Refuses(g, m) == ~enabled[g] \/ group[m] = g \/ Size(g) >= setting.most

Enter(m, g) ==
    /\ MayCall(m)
    /\ Called(m)
    /\ thread' = [thread EXCEPT ![m] = [@ EXCEPT !.point = "enter", !.to = g]]
    /\ UNCHANGED <<setting, list, iter, group, enabled, enterLock, groupLock,
                   memberLock, crashed>>

\* With m_lockable_enter, held from here to the end of the call.
EnterLock(m) ==
    /\ At(m, "enter") /\ enterLock[thread[m].to] = Nobody
    /\ \/ /\ Refuses(thread[m].to, m) \/ Fails("entering")
          /\ Returns(m)
          /\ UNCHANGED enterLock
       \/ /\ ~Refuses(thread[m].to, m)
          /\ enterLock' = Lock(enterLock, thread[m].to, m)
          /\ Goto(m, "get_group")
    /\ UNCHANGED <<setting, list, iter, group, enabled, groupLock, memberLock,
                   calls, crashed>>

\* A bug: the member keeps the group it is in.
GetGroup_Stays(m) ==
    /\ At(m, "get_group") /\ MayLock(memberLock, m, m)
    /\ thread' = [thread EXCEPT ![m] = [@ EXCEPT !.point = "attach"]]
    /\ UNCHANGED <<setting, list, iter, group, enabled, enterLock, groupLock,
                   memberLock, calls, crashed>>

\* leave_group: the group is read and the member's lock released again.
GetGroup(m) ==
    /\ At(m, "get_group") /\ MayLock(memberLock, m, m)
    /\ thread' = [thread EXCEPT ![m] =
          [@ EXCEPT !.point = IF group[m] = NoGroup THEN "attach" ELSE "leave_member",
                    !.from = group[m]]]
    /\ UNCHANGED <<setting, list, iter, group, enabled, enterLock, groupLock,
                   memberLock, calls, crashed>>

\* _process_attach_member: the list and the iterator ...
Attach(m) ==
    /\ At(m, "attach")
    /\ LET g == thread[m].to IN
          /\ groupLock[g] = Nobody
          /\ groupLock' = Lock(groupLock, g, m)
          /\ list' = [list EXCEPT ![g] = Append(@, m)]
          /\ iter' = [iter EXCEPT ![m] = g]
    /\ Goto(m, "set_group")
    /\ UNCHANGED <<setting, group, enabled, enterLock, memberLock, calls, crashed>>

\* ... and the member's group, without the member's lock.
SetGroup(m) ==
    /\ At(m, "set_group")
    /\ group' = [group EXCEPT ![m] = thread[m].to]
    /\ Goto(m, "entered")
    /\ UNCHANGED <<setting, list, iter, enabled, enterLock, groupLock, memberLock,
                   calls, crashed>>

\* A bug: m_lockable_enter is not released.
EnterReturns_Locked(m) ==
    /\ groupLock' = Unlock(groupLock, thread[m].to)
    /\ Returns(m)
    /\ UNCHANGED <<setting, enabled, enterLock, memberLock, calls>>

EnterReturns(m) ==
    /\ groupLock' = Unlock(groupLock, thread[m].to)
    /\ enterLock' = Unlock(enterLock, thread[m].to)
    /\ Returns(m)
    /\ UNCHANGED <<setting, enabled, memberLock, calls>>

Entered(m) ==
    /\ At(m, "entered")
    /\ EnterReturns(m)
    /\ UNCHANGED <<list, iter, group, crashed>>

\* _process_detach_member of m from g, with the group's lock: the entry that
\* m_iter points to is erased.
Detach(g, m) ==
    IF iter[m] = g /\ m \in ToSet(list[g])
    THEN /\ \E i \in DOMAIN list[g] :
              list[g][i] = m /\ list' = [list EXCEPT ![g] = RemoveAt(@, i)]
         /\ group' = [group EXCEPT ![m] = NoGroup]
         /\ UNCHANGED crashed
    ELSE crashed' = TRUE /\ UNCHANGED <<list, group>>

\* on_member_entered throws: the member is in no group any more.
EnteredThrows(m) ==
    /\ Fails("entered") /\ At(m, "entered")
    /\ Detach(thread[m].to, m)
    /\ EnterReturns(m)
    /\ UNCHANGED iter

-----------------------------------------------------------------------------
(* leave: called by the member, by Admin, or within process_enter *)

Leave(t, m, g) ==
    /\ MayCall(t) /\ (t = m \/ (t = Admin /\ setting.kicks))
    /\ Called(t)
    /\ thread' = [thread EXCEPT ![t] =
          [point |-> "leave_member", from |-> g, to |-> NoGroup, member |-> m]]
    /\ UNCHANGED <<setting, list, iter, group, enabled, enterLock, groupLock,
                   memberLock, crashed>>

\* Where the thread goes when it has left, or had nothing to leave.
AfterLeave(t) ==
    IF thread[t].to = NoGroup THEN Returns(t) ELSE Goto(t, "attach")

\* With the member's lock: is it in this group?
LeaveMember(t) ==
    /\ At(t, "leave_member")
    /\ LET call == thread[t] IN
          /\ MayLock(memberLock, call.member, t)
          /\ \/ /\ group[call.member] = call.from
                /\ memberLock' = Lock(memberLock, call.member, t)
                /\ Goto(t, "leave_group")
             \/ /\ group[call.member] # call.from
                /\ AfterLeave(t)
                /\ UNCHANGED memberLock
    /\ UNCHANGED <<setting, list, iter, group, enabled, enterLock, groupLock,
                   calls, crashed>>

\* process_leave, with the group's lock, looks again.
LeavesNow(t) == group[thread[t].member] = thread[t].from

LeaveGroup(t) ==
    /\ At(t, "leave_group")
    /\ MayLock(groupLock, thread[t].from, t)
    /\ IF LeavesNow(t) THEN Detach(thread[t].from, thread[t].member)
                       ELSE UNCHANGED <<list, group, crashed>>
    /\ memberLock' = Unlock(memberLock, thread[t].member)
    /\ AfterLeave(t)
    /\ UNCHANGED <<setting, iter, enabled, enterLock, groupLock, calls>>

-----------------------------------------------------------------------------
(* What Admin does besides *)

\* process_enable_member_enter.
Enable(g, on) ==
    /\ MayCall(Admin) /\ setting.switches
    /\ enterLock[g] = Nobody /\ enabled[g] # on
    /\ Called(Admin)
    /\ enabled' = [enabled EXCEPT ![g] = on]
    /\ UNCHANGED <<setting, list, iter, group, enterLock, groupLock, memberLock,
                   thread, crashed>>

\* leave_all of a group holds its lock ...
LeaveAll(g) ==
    /\ MayCall(Admin) /\ setting.disbands
    /\ groupLock[g] = Nobody
    /\ Called(Admin)
    /\ IF Size(g) = 0 THEN UNCHANGED <<groupLock, thread>>
       ELSE /\ groupLock' = Lock(groupLock, g, Admin)
            /\ thread' = [thread EXCEPT ![Admin] =
                  [point |-> "all_member", from |-> g, to |-> NoGroup,
                   member |-> Head(list[g])]]
    /\ UNCHANGED <<setting, list, iter, group, enabled, enterLock, memberLock, crashed>>

\* ... while it takes that of the first member, which leaves: the loop goes on
\* from an entry that was erased.
LeaveAllFirst ==
    /\ At(Admin, "all_member")
    /\ MayLock(memberLock, thread[Admin].member, Admin)
    /\ crashed' = TRUE
    /\ UNCHANGED <<setting, list, iter, group, enabled, enterLock, groupLock,
                   memberLock, thread, calls>>

-----------------------------------------------------------------------------
(* Properties *)

Unlocked(g) == groupLock[g] = Nobody

\* When no call holds a group's lock, its list has exactly the members whose
\* group it is, each once: a member is in one group at most, whichever way
\* entering, leaving and being made to leave meet.
ListsAreGroups ==
    \A g \in Groups : Unlocked(g) =>
        /\ ToSet(list[g]) = {m \in Members : group[m] = g}
        /\ IsInjective(list[g])

\* And no list is asked to erase an entry of another list, or one erased
\* before, though m_iter of a member is guarded by whichever group it is in;
\* leave_all, which does so itself, aside.
MembershipAgrees == IF crashed THEN setting.disbands ELSE ListsAreGroups

\* Nobody enters a group after process_enable_member_enter(false) returned,
\* nor one that is full, although its size is read without the list's lock.
DoorIsKept ==
    [][\A g \in Groups :
          Size(g)' > Size(g) => enabled[g] /\ Size(g)' <= setting.most]_groupVars
=============================================================================
