--------------------------- MODULE GroupChat_proofs ---------------------------
(***************************************************************************)
(* Proofs about GroupChat, for any number of groups, members and calls and *)
(* any faults.  First its groups: the inductive invariant IInv, from which *)
(* MembershipAgrees follows, and DoorIsKept.  Then their receivers: the    *)
(* groups registered with a member are those it is in, and only they hear  *)
(* it.                                                                     *)
(***************************************************************************)
EXTENDS GroupChat, TLAPS

USE NamesAssumption

(* The inductive invariant *)

\* A call of process_enter by m is between two of its points.
Entering(m, points) == thread[m].to # NoGroup /\ thread[m].point \in points

EnterPoints == {"enter", "get_group", "attach", "set_group", "entered"}
LeavePoints == {"leave_member", "leave_group"}

\* Members act for themselves, and only they enter.
CallOK(t) ==
    LET call == thread[t] IN
    /\ t \in Members => call.member = t
    /\ t = Admin => call.to = NoGroup
    /\ call.point = "idle" => call.to = NoGroup
    /\ call.point \in EnterPoints => call.to # NoGroup
    /\ call.point \in LeavePoints => call.from # NoGroup
    /\ call.point = "all_member" => setting.disbands /\ t = Admin

\* What entering m has locked, and what it may rely on.
EnterOK(m) ==
    /\ Entering(m, (EnterPoints \cup LeavePoints) \ {"enter"}) =>
          enterLock[thread[m].to] = m
    /\ Entering(m, {"get_group", "attach"} \cup LeavePoints) =>
          enabled[thread[m].to] /\ Size(thread[m].to) < setting.most
    /\ Entering(m, {"set_group", "entered"}) => groupLock[thread[m].to] = m

\* Whose member m is while it enters.
GroupOK(m) ==
    /\ Entering(m, LeavePoints) => group[m] \in {thread[m].from, NoGroup}
    /\ Entering(m, {"attach", "set_group"}) => group[m] = NoGroup
    /\ Entering(m, {"entered"}) => group[m] = thread[m].to

\* The list of g, a member that is just being attached included.
BelongsTo(m, g) ==
    group[m] = g \/ (thread[m].point = "set_group" /\ thread[m].to = g)

ListOK(g) ==
    /\ IsInjective(list[g])
    /\ \A m \in Members : m \in ToSet(list[g]) <=> BelongsTo(m, g)
    /\ \A m \in ToSet(list[g]) : iter[m] = g

IInv ==
    /\ GroupTypeOK
    /\ \A t \in Threads : CallOK(t)
    /\ \A m \in Members : EnterOK(m) /\ GroupOK(m)
    /\ \A g \in Groups : ListOK(g)
    /\ crashed => setting.disbands

-----------------------------------------------------------------------------
(* What of a step the groups see *)

EnterStep(m) ==
    \/ \E g \in Groups : Enter(m, g)
    \/ EnterLock(m) \/ GetGroup(m) \/ Attach(m) \/ SetGroup(m)
    \/ Entered(m) \/ EnteredThrows(m)

LeaveStep(t) ==
    \/ \E m \in Members, g \in Groups : Leave(t, m, g)
    \/ LeaveMember(t) \/ LeaveGroup(t)

AdminStep ==
    \/ \E g \in Groups : LeaveAll(g) \/ \E on \in BOOLEAN : Enable(g, on)
    \/ LeaveAllFirst

GroupNext ==
    \/ \E m \in Members : EnterStep(m)
    \/ \E t \in Threads : LeaveStep(t)
    \/ AdminStep

LEMMA ChatStepIsGroupStep == [Next]_vars => [GroupNext]_groupVars
<1>1. CASE Next
  BY <1>1 DEF Next, MemberStep, ThreadStep, ChatEntered, ChatLeaveGroup,
     ChatMessage, ChatOnMessage, GroupNext, EnterStep, LeaveStep, AdminStep
<1>2. CASE UNCHANGED vars
  BY <1>2 DEF vars
<1> QED
  BY <1>1, <1>2

-----------------------------------------------------------------------------
(* Lists *)

LEMMA AppendOne ==
    ASSUME NEW S, NEW s \in Seq(S), NEW x \in S, x \notin ToSet(s), IsInjective(s)
    PROVE  /\ Append(s, x) \in Seq(S) /\ Len(Append(s, x)) = Len(s) + 1
           /\ \A y : y \in ToSet(Append(s, x)) <=> y \in ToSet(s) \/ y = x
           /\ IsInjective(Append(s, x))
<1> DEFINE r == Append(s, x)
<1>1. /\ Len(s) \in Nat /\ DOMAIN s = 1..Len(s)
      /\ r \in Seq(S) /\ Len(r) = Len(s) + 1 /\ DOMAIN r = 1..(Len(s) + 1)
      /\ r[Len(s) + 1] = x
      /\ \A i \in 1..Len(s) : r[i] = s[i]
  OBVIOUS
<1> HIDE DEF r
<1>2. \A i \in DOMAIN s : s[i] # x
  BY DEF ToSet
<1>3. \A y : y \in ToSet(r) <=> y \in ToSet(s) \/ y = x
  <2>1. ASSUME NEW i \in DOMAIN r PROVE r[i] \in ToSet(s) \/ r[i] = x
    <3>1. i \in 1..Len(s) \/ i = Len(s) + 1
      BY <1>1
    <3> QED
      BY <1>1, <3>1 DEF ToSet
  <2>2. ASSUME NEW i \in DOMAIN s PROVE s[i] \in ToSet(r)
    <3>1. i \in DOMAIN r /\ r[i] = s[i]
      BY <1>1
    <3> QED
      BY <3>1 DEF ToSet
  <2>3. x \in ToSet(r)
    <3>1. Len(s) + 1 \in DOMAIN r
      BY <1>1
    <3> QED
      BY <1>1, <3>1 DEF ToSet
  <2> QED
    BY <2>1, <2>2, <2>3 DEF ToSet
<1>4. IsInjective(r)
  <2> SUFFICES ASSUME NEW i \in 1..(Len(s) + 1), NEW j \in 1..(Len(s) + 1), r[i] = r[j]
               PROVE  i = j
    BY <1>1 DEF IsInjective
  <2>1. CASE i \in 1..Len(s) /\ j \in 1..Len(s)
    BY <1>1, <2>1 DEF IsInjective
  <2>2. CASE i = Len(s) + 1 \/ j = Len(s) + 1
    BY <1>1, <1>2, <2>2
  <2> QED
    BY <1>1, <2>1, <2>2
<1> QED
  BY <1>1, <1>3, <1>4 DEF r

\* Erasing the only entry of an element.
LEMMA EraseOne ==
    ASSUME NEW S, NEW s \in Seq(S), IsInjective(s), NEW i \in DOMAIN s
    PROVE  /\ RemoveAt(s, i) \in Seq(S) /\ Len(RemoveAt(s, i)) = Len(s) - 1
           /\ \A y : y \in ToSet(RemoveAt(s, i)) <=> y \in ToSet(s) /\ y # s[i]
           /\ IsInjective(RemoveAt(s, i))
<1> DEFINE r == RemoveAt(s, i)
<1>1. Len(s) \in Nat /\ DOMAIN s = 1..Len(s) /\ i \in 1..Len(s)
  OBVIOUS
<1>2. r \in Seq(S) /\ Len(r) = Len(s) - 1
  BY <1>1 DEF RemoveAt
<1>3. \A j \in 1..(Len(s) - 1) : r[j] = IF j < i THEN s[j] ELSE s[j + 1]
  <2> DEFINE front == SubSeq(s, 1, i - 1)
             back == SubSeq(s, i + 1, Len(s))
  <2>1. /\ front \in Seq(S) /\ Len(front) = i - 1
        /\ \A j \in 1..(i - 1) : front[j] = s[j]
    BY <1>1
  <2>2. /\ back \in Seq(S) /\ Len(back) = Len(s) - i
        /\ \A j \in 1..(Len(s) - i) : back[j] = s[i + j]
    BY <1>1
  <2>3. r = front \o back
    BY DEF RemoveAt
  <2> HIDE DEF front, back, r
  <2> TAKE j \in 1..(Len(s) - 1)
  <2>4. CASE j < i
    <3>1. j \in 1..(i - 1)
      BY <1>1, <2>4
    <3> QED
      BY <1>1, <2>1, <2>2, <2>3, <2>4, <3>1
  <2>5. CASE ~(j < i)
    <3>1. j - (i - 1) \in 1..(Len(s) - i) /\ i + (j - (i - 1)) = j + 1
      BY <1>1, <2>5
    <3>2. r[j] = back[j - (i - 1)]
      <4>1. j \in (Len(front) + 1)..(Len(front) + Len(back))
        BY <1>1, <2>1, <2>2, <2>5
      <4>2. front \in Seq(S) /\ back \in Seq(S)
        BY <2>1, <2>2
      <4>3. (front \o back)[j] = back[j - Len(front)]
        BY ONLY <4>1, <4>2, j \in Int
      <4> QED
        BY <2>1, <2>3, <4>3
    <3> QED
      BY <1>1, <2>2, <2>5, <3>1, <3>2
  <2> QED
    BY <2>4, <2>5
<1>4. DOMAIN r = 1..(Len(s) - 1)
  BY <1>2, <1>1
<1> HIDE DEF r
<1>5. IsInjective(r)
  <2> SUFFICES ASSUME NEW j \in 1..(Len(s) - 1), NEW k \in 1..(Len(s) - 1), r[j] = r[k]
               PROVE  j = k
    BY <1>4 DEF IsInjective
  <2> DEFINE at(l) == IF l < i THEN l ELSE l + 1
  <2>1. at(j) \in DOMAIN s /\ at(k) \in DOMAIN s /\ s[at(j)] = s[at(k)]
    BY <1>1, <1>3
  <2>2. at(j) = at(k)
    BY <2>1 DEF IsInjective
  <2> QED
    BY <1>1, <2>2
<1>6. ASSUME NEW j \in DOMAIN r
      PROVE  r[j] \in ToSet(s) /\ r[j] # s[i]
  <2> DEFINE k == IF j < i THEN j ELSE j + 1
  <2>1. k \in DOMAIN s /\ k # i /\ r[j] = s[k]
    BY <1>1, <1>3, <1>4, <1>6
  <2> QED
    BY <2>1 DEF IsInjective, ToSet
<1>7. ASSUME NEW k \in DOMAIN s, s[k] # s[i]
      PROVE  s[k] \in ToSet(r)
  <2> DEFINE j == IF k < i THEN k ELSE k - 1
  <2>1. j \in DOMAIN r /\ r[j] = s[k]
    BY <1>1, <1>3, <1>4, <1>7
  <2> QED
    BY <2>1 DEF ToSet
<1> QED
  BY <1>2, <1>5, <1>6, <1>7 DEF ToSet, r

-----------------------------------------------------------------------------
(* Facts every step needs *)

LEMMA Names ==
    /\ Members \subseteq Threads /\ Admin \in Threads
    /\ \A t \in Threads : t # NoGroup /\ (t \in Members \/ t = Admin)
BY DEF Threads

LEMMA CallType ==
    ASSUME IInv, NEW t \in Threads
    PROVE  /\ thread[t] \in Call /\ thread[t].point \in Points
           /\ thread[t].member \in Members
           /\ thread[t].from \in Groups \cup {NoGroup}
           /\ thread[t].to \in Groups \cup {NoGroup}
BY DEF IInv, GroupTypeOK, Call

LEMMA IdleType ==
    ASSUME NEW t \in Threads
    PROVE  /\ Idle(t) \in Call
           /\ Idle(t).point = "idle" /\ Idle(t).to = NoGroup
           /\ t \in Members => Idle(t).member = t
BY SomebodyAssumption DEF Idle, Call, Points

LEMMA SettingType == IInv => setting.most \in Nat
BY SettingsAssumption, BoundsAssumption DEF IInv, GroupTypeOK

LEMMA SizeType ==
    ASSUME IInv, NEW g \in Groups
    PROVE  Size(g) \in Nat /\ list[g] \in Seq(Members)
BY DEF IInv, GroupTypeOK, Size

\* What a step does to the call of its thread.
Moves(t, call) ==
    /\ call \in Call
    /\ thread' = [thread EXCEPT ![t] = call]

LEMMA MoveType ==
    ASSUME IInv, NEW t \in Threads, NEW call, Moves(t, call)
    PROVE  /\ thread' \in [Threads -> Call] /\ thread'[t] = call
           /\ \A u \in Threads \ {t} : thread'[u] = thread[u]
BY DEF IInv, GroupTypeOK, Moves

\* A step that moves only its own thread keeps the other calls in order.
LEMMA MoveCalls ==
    ASSUME IInv, NEW t \in Threads, NEW call, Moves(t, call), UNCHANGED setting,
           CallOK(t)'
    PROVE  \A u \in Threads : CallOK(u)'
<1> SUFFICES ASSUME NEW u \in Threads, u # t PROVE CallOK(u)'
  OBVIOUS
<1>1. thread'[u] = thread[u] /\ CallOK(u)
  BY MoveType DEF IInv
<1> QED
  BY <1>1 DEF CallOK

LEMMA GotoMoves ==
    ASSUME IInv, NEW t \in Threads, NEW point \in Points, Goto(t, point)
    PROVE  /\ Moves(t, [thread[t] EXCEPT !.point = point])
           /\ thread'[t].point = point
           /\ thread'[t].to = thread[t].to /\ thread'[t].from = thread[t].from
           /\ thread'[t].member = thread[t].member
<1>1. thread \in [Threads -> Call] /\ thread[t] \in Call
  BY DEF IInv, GroupTypeOK
<1>2. thread' = [thread EXCEPT ![t] = [thread[t] EXCEPT !.point = point]]
  BY <1>1 DEF Goto
<1> QED
  BY <1>1, <1>2 DEF Moves, Call

LEMMA ReturnsMoves ==
    ASSUME IInv, NEW t \in Threads, Returns(t)
    PROVE  /\ Moves(t, Idle(t)) /\ thread'[t] = Idle(t)
           /\ thread'[t].point = "idle" /\ thread'[t].to = NoGroup
           /\ CallOK(t)'
<1>1. Moves(t, Idle(t)) /\ thread'[t] = Idle(t)
  BY IdleType, MoveType DEF Returns, Moves
<1> QED
  BY <1>1, IdleType, Names DEF CallOK, EnterPoints, LeavePoints

\* A thread that only moves, and not as one that enters, disturbs no member
\* and no list.
LEMMA OthersKeep ==
    ASSUME IInv, NEW t \in Threads, NEW call, Moves(t, call),
           UNCHANGED <<setting, list, iter, group, enabled, enterLock, groupLock>>,
           thread[t].point # "set_group",
           call.to = NoGroup, call.point # "set_group"
    PROVE  /\ \A m \in Members : EnterOK(m)' /\ GroupOK(m)'
           /\ \A g \in Groups : ListOK(g)'
<1>1. /\ thread'[t] = call
      /\ \A u \in Threads \ {t} : thread'[u] = thread[u]
  BY MoveType
<1>2. ASSUME NEW m \in Members PROVE EnterOK(m)' /\ GroupOK(m)'
  BY <1>1, Names DEF IInv, EnterOK, GroupOK, Entering, Size
<1>3. ASSUME NEW g \in Groups PROVE ListOK(g)'
  BY <1>1, Names DEF IInv, ListOK, BelongsTo
<1> QED
  BY <1>2, <1>3

-----------------------------------------------------------------------------
(* Entering, up to the list *)

\* m moves on while it enters, and no list or membership changes.
LEMMA EnteringKeeps ==
    ASSUME IInv, NEW m \in Members, NEW call, Moves(m, call),
           UNCHANGED <<setting, list, iter, group, enabled, groupLock>>,
           \A u \in Members \ {m} :
               Entering(u, (EnterPoints \cup LeavePoints) \ {"enter"}) =>
               enterLock'[thread[u].to] = enterLock[thread[u].to],
           thread[m].point # "set_group", call.point # "set_group",
           EnterOK(m)', GroupOK(m)'
    PROVE  /\ \A u \in Members : EnterOK(u)' /\ GroupOK(u)'
           /\ \A g \in Groups : ListOK(g)'
<1>1. /\ m \in Threads /\ thread'[m] = call
      /\ \A u \in Threads \ {m} : thread'[u] = thread[u]
  BY MoveType, Names
<1>2. ASSUME NEW u \in Members, u # m PROVE EnterOK(u)' /\ GroupOK(u)'
  <2>1. thread'[u] = thread[u] /\ EnterOK(u) /\ GroupOK(u)
    BY <1>1, <1>2, Names DEF IInv
  <2> QED
    BY <1>2, <2>1 DEF EnterOK, GroupOK, Entering, Size
<1>3. ASSUME NEW g \in Groups PROVE ListOK(g)'
  BY <1>1, Names DEF IInv, ListOK, BelongsTo
<1> QED
  BY <1>2, <1>3

LEMMA EnterInv ==
    ASSUME IInv, NEW m \in Members, NEW g \in Groups, Enter(m, g)
    PROVE  IInv'
<1> DEFINE call == [thread[m] EXCEPT !.point = "enter", !.to = g]
<1>1. m \in Threads /\ thread[m] \in Call /\ CallOK(m)
  BY CallType, Names DEF IInv
<1>2. /\ Moves(m, call) /\ call.point = "enter" /\ call.to = g
      /\ call.member = thread[m].member /\ call.from = thread[m].from
  BY <1>1 DEF Enter, Moves, Call, Points
<1> HIDE DEF call
<1>3. /\ thread[m].point = "idle" /\ g # NoGroup
      /\ UNCHANGED <<setting, list, iter, group, enabled, enterLock, groupLock,
                     memberLock, crashed>>
  BY DEF Enter, MayCall, At
<1>4. /\ thread' \in [Threads -> Call] /\ thread'[m] = call
  BY <1>1, <1>2, MoveType
<1>5. GroupTypeOK'
  <2>1. calls' \in [Threads -> 0..MaxCalls]
    BY <1>1, BoundsAssumption DEF IInv, GroupTypeOK, Enter, MayCall, Called
  <2> QED
    BY <1>3, <1>4, <2>1 DEF IInv, GroupTypeOK
<1>6. \A t \in Threads : CallOK(t)'
  <2>1. CallOK(m)'
    BY <1>1, <1>2, <1>3, <1>4 DEF CallOK, EnterPoints, LeavePoints
  <2> QED
    BY <1>1, <1>2, <1>3, <2>1, MoveCalls
<1>7. EnterOK(m)' /\ GroupOK(m)'
  BY <1>2, <1>4 DEF EnterOK, GroupOK, Entering, LeavePoints
<1>8. /\ \A u \in Members : EnterOK(u)' /\ GroupOK(u)'
      /\ \A h \in Groups : ListOK(h)'
  BY <1>2, <1>3, <1>7, EnteringKeeps
<1> QED
  BY <1>3, <1>5, <1>6, <1>8 DEF IInv

\* With m_lockable_enter the group is open and not full.
LEMMA EnterLockInv ==
    ASSUME IInv, NEW m \in Members, EnterLock(m)
    PROVE  IInv'
<1> DEFINE g == thread[m].to
<1>1. m \in Threads /\ CallOK(m) /\ thread[m].point = "enter" /\ ~crashed
  BY Names DEF IInv, EnterLock, At
<1>2. g \in Groups /\ enterLock[g] = NoGroup
  BY <1>1, CallType DEF CallOK, EnterPoints, EnterLock, Nobody
<1>3. UNCHANGED <<setting, list, iter, group, enabled, groupLock, memberLock,
                  calls, crashed>>
  BY DEF EnterLock
<1>4. ASSUME NEW u \in Members \ {m},
             Entering(u, (EnterPoints \cup LeavePoints) \ {"enter"})
      PROVE  thread[u].to # g
  BY <1>2, <1>4, Names DEF IInv, EnterOK
<1>5. CASE Returns(m) /\ UNCHANGED enterLock
  <2>1. Moves(m, Idle(m)) /\ thread'[m] = Idle(m) /\ CallOK(m)'
    BY <1>1, <1>5, ReturnsMoves
  <2>2. thread' \in [Threads -> Call]
    BY <1>1, <2>1, MoveType
  <2>3. \A t \in Threads : CallOK(t)'
    BY <1>1, <1>3, <2>1, MoveCalls
  <2>4. /\ \A u \in Members : EnterOK(u)' /\ GroupOK(u)'
        /\ \A h \in Groups : ListOK(h)'
    BY <1>1, <1>3, <1>5, <2>1, OthersKeep, IdleType
  <2> QED
    BY <1>1, <1>3, <1>5, <2>2, <2>3, <2>4 DEF IInv, GroupTypeOK
<1>6. CASE /\ ~Refuses(g, m)
           /\ enterLock' = [enterLock EXCEPT ![g] = m]
           /\ Goto(m, "get_group")
  <2> DEFINE call == [thread[m] EXCEPT !.point = "get_group"]
  <2>1. /\ Moves(m, call)
        /\ thread'[m].point = "get_group" /\ thread'[m].to = g
        /\ thread'[m].member = thread[m].member
    BY <1>1, <1>6, GotoMoves DEF Points
  <2>2. thread' \in [Threads -> Call] /\ thread'[m] = call
    BY <1>1, <2>1, MoveType
  <2> HIDE DEF call
  <2>3. enterLock' \in [Groups -> Threads \cup {Nobody}] /\ enterLock'[g] = m
    BY <1>1, <1>2, <1>6 DEF IInv, GroupTypeOK
  <2>4. \A t \in Threads : CallOK(t)'
    <3>1. CallOK(m)'
      BY <1>1, <1>2, <2>1 DEF CallOK, LeavePoints, EnterPoints
    <3> QED
      BY <1>1, <1>3, <2>1, <3>1, MoveCalls
  <2>5. enabled[g] /\ Size(g) < setting.most
    BY <1>2, <1>6, SettingType, SizeType DEF Refuses
  <2>6. EnterOK(m)' /\ GroupOK(m)'
    BY <1>3, <2>1, <2>3, <2>5 DEF EnterOK, GroupOK, Entering, LeavePoints, Size
  <2>7. \A u \in Members \ {m} :
            Entering(u, (EnterPoints \cup LeavePoints) \ {"enter"}) =>
            enterLock'[thread[u].to] = enterLock[thread[u].to]
    BY <1>2, <1>4, <1>6, CallType, Names DEF IInv, GroupTypeOK, Entering
  <2>8. /\ \A u \in Members : EnterOK(u)' /\ GroupOK(u)'
        /\ \A h \in Groups : ListOK(h)'
    BY <1>1, <1>3, <2>1, <2>2, <2>6, <2>7, EnteringKeeps
  <2> QED
    BY <1>1, <1>3, <2>2, <2>3, <2>4, <2>8 DEF IInv, GroupTypeOK
<1> QED
  BY <1>5, <1>6 DEF EnterLock, Lock

\* leave_group: what m leaves from is the group it is in.
LEMMA GetGroupInv ==
    ASSUME IInv, NEW m \in Members, GetGroup(m)
    PROVE  IInv'
<1> DEFINE call == [thread[m] EXCEPT
                      !.point = IF group[m] = NoGroup THEN "attach" ELSE "leave_member",
                      !.from = group[m]]
<1>1. /\ m \in Threads /\ thread[m] \in Call /\ CallOK(m) /\ EnterOK(m)
      /\ thread[m].point = "get_group" /\ group[m] \in Groups \cup {NoGroup}
  BY CallType, Names DEF IInv, GroupTypeOK, GetGroup, At
<1>2. /\ Moves(m, call)
      /\ call.point = IF group[m] = NoGroup THEN "attach" ELSE "leave_member"
      /\ call.from = group[m] /\ call.to = thread[m].to /\ call.member = thread[m].member
  BY <1>1 DEF GetGroup, Moves, Call, Points
<1> HIDE DEF call
<1>3. /\ thread' \in [Threads -> Call] /\ thread'[m] = call
      /\ UNCHANGED <<setting, list, iter, group, enabled, enterLock, groupLock,
                     memberLock, calls, crashed>>
  BY <1>1, <1>2, MoveType DEF GetGroup
<1>4. thread[m].to # NoGroup
  BY <1>1 DEF CallOK, EnterPoints
<1>5. \A t \in Threads : CallOK(t)'
  <2>1. CallOK(m)'
    BY <1>1, <1>2, <1>3, <1>4 DEF CallOK, EnterPoints, LeavePoints
  <2> QED
    BY <1>1, <1>2, <1>3, <2>1, MoveCalls
<1>6. EnterOK(m)' /\ GroupOK(m)'
  BY <1>1, <1>2, <1>3, <1>4 DEF EnterOK, GroupOK, Entering, EnterPoints,
     LeavePoints, Size
<1>7. /\ \A u \in Members : EnterOK(u)' /\ GroupOK(u)'
      /\ \A h \in Groups : ListOK(h)'
  BY <1>1, <1>2, <1>3, <1>6, EnteringKeeps
<1> QED
  BY <1>3, <1>5, <1>7 DEF IInv, GroupTypeOK

-----------------------------------------------------------------------------
(* Entering, with the list *)

\* Nobody else enters the group that m has m_lockable_enter of.
LEMMA AloneAtDoor ==
    ASSUME IInv, NEW m \in Members, NEW u \in Members \ {m},
           Entering(m, (EnterPoints \cup LeavePoints) \ {"enter"}),
           Entering(u, (EnterPoints \cup LeavePoints) \ {"enter"})
    PROVE  thread[u].to # thread[m].to
BY DEF IInv, EnterOK

LEMMA AttachInv ==
    ASSUME IInv, NEW m \in Members, Attach(m)
    PROVE  IInv'
<1> DEFINE g == thread[m].to
           call == [thread[m] EXCEPT !.point = "set_group"]
<1>1. /\ m \in Threads /\ CallOK(m) /\ EnterOK(m) /\ GroupOK(m)
      /\ thread[m].point = "attach"
  BY Names DEF IInv, Attach, At
<1>2. g \in Groups /\ g # NoGroup
  BY <1>1, CallType DEF CallOK, EnterPoints
<1>3. /\ groupLock[g] = NoGroup /\ groupLock' = [groupLock EXCEPT ![g] = m]
      /\ list' = [list EXCEPT ![g] = Append(@, m)]
      /\ iter' = [iter EXCEPT ![m] = g]
      /\ Goto(m, "set_group")
      /\ UNCHANGED <<setting, group, enabled, enterLock, memberLock, calls, crashed>>
  BY DEF Attach, Nobody, Lock
<1>4. /\ Moves(m, call) /\ thread'[m].point = "set_group" /\ thread'[m].to = g
      /\ thread'[m].member = thread[m].member
  BY <1>1, <1>3, GotoMoves DEF Points
<1>5. /\ thread' \in [Threads -> Call]
      /\ \A u \in Threads \ {m} : thread'[u] = thread[u]
  BY <1>1, <1>4, MoveType
<1> HIDE DEF call
<1>6. /\ group[m] = NoGroup /\ enterLock[g] = m
      /\ \A h \in Groups : m \notin ToSet(list[h])
  <2>1. Entering(m, {"attach", "set_group"})
        /\ Entering(m, (EnterPoints \cup LeavePoints) \ {"enter"})
    BY <1>1, <1>2 DEF Entering, EnterPoints, LeavePoints
  <2>2. group[m] = NoGroup /\ enterLock[g] = m
    BY <1>1, <2>1 DEF GroupOK, EnterOK
  <2>3. \A h \in Groups : ~BelongsTo(m, h)
    BY <1>1, <2>2 DEF BelongsTo
  <2> QED
    BY <2>2, <2>3 DEF IInv, ListOK
<1>7. /\ list[g] \in Seq(Members) /\ IsInjective(list[g])
      /\ list'[g] = Append(list[g], m)
      /\ \A h \in Groups \ {g} : list'[h] = list[h]
      /\ list' \in [Groups -> Seq(Members)]
  BY <1>2, <1>3 DEF IInv, GroupTypeOK, ListOK
<1>8. /\ IsInjective(list'[g])
      /\ \A u : u \in ToSet(list'[g]) <=> u \in ToSet(list[g]) \/ u = m
  BY <1>2, <1>6, <1>7, AppendOne
<1>9. GroupTypeOK'
  <2>1. iter' \in [Members -> Groups \cup {NoGroup}]
    BY <1>2, <1>3 DEF IInv, GroupTypeOK
  <2>2. groupLock' \in [Groups -> Threads \cup {Nobody}]
    BY <1>1, <1>2, <1>3 DEF IInv, GroupTypeOK
  <2> QED
    BY <1>3, <1>5, <1>7, <2>1, <2>2 DEF IInv, GroupTypeOK
<1>10. \A t \in Threads : CallOK(t)'
  <2>1. CallOK(m)'
    BY <1>1, <1>2, <1>4 DEF CallOK, EnterPoints, LeavePoints
  <2> QED
    BY <1>1, <1>3, <1>4, <2>1, MoveCalls
<1>11. EnterOK(m)' /\ GroupOK(m)'
  <2>1. groupLock'[g] = m
    BY <1>2, <1>3 DEF IInv, GroupTypeOK
  <2> QED
    BY <1>3, <1>4, <1>6, <2>1 DEF EnterOK, GroupOK, Entering, LeavePoints, EnterPoints
<1>12. ASSUME NEW u \in Members, u # m PROVE EnterOK(u)' /\ GroupOK(u)'
  <2>1. /\ thread'[u] = thread[u] /\ EnterOK(u) /\ GroupOK(u)
        /\ thread[u].to \in Groups \cup {NoGroup}
    BY <1>5, <1>12, Names, CallType DEF IInv
  <2>2. Entering(u, (EnterPoints \cup LeavePoints) \ {"enter"}) => thread[u].to # g
    BY <1>1, <1>2, <1>12, AloneAtDoor DEF Entering, EnterPoints, LeavePoints
  <2>3. GroupOK(u)'
    BY <1>3, <2>1 DEF GroupOK, Entering
  <2>4. EnterOK(u)'
    <3>1. Entering(u, (EnterPoints \cup LeavePoints) \ {"enter"}) =>
              /\ groupLock'[thread[u].to] = groupLock[thread[u].to]
              /\ list'[thread[u].to] = list[thread[u].to]
      BY <1>2, <1>3, <1>7, <2>1, <2>2 DEF IInv, GroupTypeOK, Entering
    <3> QED
      BY <1>3, <2>1, <3>1 DEF EnterOK, Entering, EnterPoints, LeavePoints, Size
  <2> QED
    BY <2>3, <2>4
<1>13. ASSUME NEW h \in Groups PROVE ListOK(h)'
  <2>1. ListOK(h)
    BY DEF IInv
  <2>2. \A u \in Members : BelongsTo(u, h)' <=> (BelongsTo(u, h) \/ (u = m /\ h = g))
    BY <1>1, <1>2, <1>3, <1>4, <1>5, Names DEF BelongsTo
  <2>3. \A u \in Members \ {m} : iter'[u] = iter[u]
    BY <1>3 DEF IInv, GroupTypeOK
  <2>4. iter'[m] = g
    BY <1>3 DEF IInv, GroupTypeOK
  <2>5. ToSet(list[h]) \subseteq Members
    BY SizeType DEF ToSet
  <2> QED
    BY <1>6, <1>7, <1>8, <2>1, <2>2, <2>3, <2>4, <2>5 DEF ListOK
<1> QED
  BY <1>3, <1>9, <1>10, <1>11, <1>12, <1>13 DEF IInv

LEMMA SetGroupInv ==
    ASSUME IInv, NEW m \in Members, SetGroup(m)
    PROVE  IInv'
<1> DEFINE g == thread[m].to
           call == [thread[m] EXCEPT !.point = "entered"]
<1>1. /\ m \in Threads /\ CallOK(m) /\ EnterOK(m) /\ GroupOK(m)
      /\ thread[m].point = "set_group"
  BY Names DEF IInv, SetGroup, At
<1>2. g \in Groups /\ g # NoGroup
  BY <1>1, CallType DEF CallOK, EnterPoints
<1>3. /\ group' = [group EXCEPT ![m] = g]
      /\ UNCHANGED <<setting, list, iter, enabled, enterLock, groupLock, memberLock,
                     calls, crashed>>
  BY DEF SetGroup
<1>4. /\ Moves(m, call) /\ thread'[m].point = "entered" /\ thread'[m].to = g
      /\ thread'[m].member = thread[m].member
  BY <1>1, GotoMoves DEF SetGroup, Points
<1>5. /\ thread' \in [Threads -> Call]
      /\ \A u \in Threads \ {m} : thread'[u] = thread[u]
  BY <1>1, <1>4, MoveType
<1> HIDE DEF call
<1>6. /\ group' \in [Members -> Groups \cup {NoGroup}]
      /\ group'[m] = g /\ \A u \in Members \ {m} : group'[u] = group[u]
  BY <1>2, <1>3 DEF IInv, GroupTypeOK
<1>7. GroupTypeOK'
  BY <1>3, <1>5, <1>6 DEF IInv, GroupTypeOK
<1>8. \A t \in Threads : CallOK(t)'
  <2>1. CallOK(m)'
    BY <1>1, <1>2, <1>4 DEF CallOK, EnterPoints, LeavePoints
  <2> QED
    BY <1>1, <1>3, <1>4, <2>1, MoveCalls
<1>9. EnterOK(m)' /\ GroupOK(m)'
  BY <1>1, <1>2, <1>3, <1>4, <1>6 DEF EnterOK, GroupOK, Entering, LeavePoints, EnterPoints
<1>10. ASSUME NEW u \in Members, u # m PROVE EnterOK(u)' /\ GroupOK(u)'
  <2>1. thread'[u] = thread[u] /\ EnterOK(u) /\ GroupOK(u) /\ group'[u] = group[u]
    BY <1>5, <1>6, <1>10, Names DEF IInv
  <2> QED
    BY <1>3, <2>1 DEF EnterOK, GroupOK, Entering, Size
<1>11. ASSUME NEW h \in Groups PROVE ListOK(h)'
  <2>1. group[m] = NoGroup
    BY <1>1, <1>2 DEF GroupOK, Entering
  <2>2. \A u \in Members : BelongsTo(u, h)' <=> BelongsTo(u, h)
    BY <1>1, <1>2, <1>4, <1>5, <1>6, <2>1, Names DEF BelongsTo
  <2> QED
    BY <1>3, <2>2 DEF IInv, ListOK
<1> QED
  BY <1>3, <1>7, <1>8, <1>9, <1>10, <1>11 DEF IInv

-----------------------------------------------------------------------------
(* Leaving the list *)

\* The entry of a member is there, and goes.
LEMMA DetachOne ==
    ASSUME IInv, NEW m \in Members, NEW g \in Groups, group[m] = g, Detach(g, m)
    PROVE  /\ UNCHANGED crashed
           /\ group' = [group EXCEPT ![m] = NoGroup]
           /\ list' \in [Groups -> Seq(Members)]
           /\ \A h \in Groups \ {g} : list'[h] = list[h]
           /\ Size(g)' = Size(g) - 1
           /\ IsInjective(list'[g])
           /\ \A u : u \in ToSet(list'[g]) <=> u \in ToSet(list[g]) /\ u # m
<1>1. /\ list \in [Groups -> Seq(Members)] /\ list[g] \in Seq(Members)
      /\ ListOK(g) /\ IsInjective(list[g])
  BY DEF IInv, GroupTypeOK, ListOK
<1>2. m \in ToSet(list[g]) /\ iter[m] = g
  BY <1>1 DEF ListOK, BelongsTo
<1>3. PICK i \in DOMAIN list[g] :
          list[g][i] = m /\ list' = [list EXCEPT ![g] = RemoveAt(@, i)]
  BY <1>2 DEF Detach
<1>4. list'[g] = RemoveAt(list[g], i) /\ \A h \in Groups \ {g} : list'[h] = list[h]
  BY <1>1, <1>3
<1>5. /\ RemoveAt(list[g], i) \in Seq(Members)
      /\ Len(RemoveAt(list[g], i)) = Len(list[g]) - 1
      /\ \A u : u \in ToSet(RemoveAt(list[g], i)) <=> u \in ToSet(list[g]) /\ u # m
      /\ IsInjective(RemoveAt(list[g], i))
  BY <1>1, <1>3, EraseOne
<1> QED
  BY <1>1, <1>2, <1>3, <1>4, <1>5 DEF Detach, Size

\* The lists after m, which is in g, was detached from it.
LEMMA DetachLists ==
    ASSUME IInv, NEW m \in Members, NEW g \in Groups, group[m] = g, Detach(g, m),
           UNCHANGED iter,
           \A u \in Members, h \in Groups :
               (thread'[u].point = "set_group" /\ thread'[u].to = h) <=>
               (thread[u].point = "set_group" /\ thread[u].to = h)
    PROVE  \A h \in Groups : ListOK(h)'
<1> SUFFICES ASSUME NEW h \in Groups PROVE ListOK(h)'
  OBVIOUS
<1>1. ListOK(h) /\ GroupOK(m) /\ CallOK(m)
  BY Names DEF IInv
<1>2. thread[m].point # "set_group"
  BY <1>1, NamesAssumption DEF GroupOK, CallOK, Entering, EnterPoints
<1>3. group \in [Members -> Groups \cup {NoGroup}]
  BY DEF IInv, GroupTypeOK
<1>4. \A u \in Members : BelongsTo(u, h)' <=> BelongsTo(u, h) /\ u # m
  BY <1>2, <1>3, DetachOne DEF BelongsTo
<1>5. h # g => m \notin ToSet(list[h])
  BY <1>1, <1>2 DEF ListOK, BelongsTo
<1>6. CASE h = g
  <2>1. /\ IsInjective(list'[g])
        /\ \A u : u \in ToSet(list'[g]) <=> u \in ToSet(list[g]) /\ u # m
    BY DetachOne, ZenonT(30)
  <2> QED
    BY <1>1, <1>4, <1>6, <2>1 DEF ListOK
<1>7. CASE h # g
  <2>1. list'[h] = list[h]
    BY <1>7, DetachOne
  <2>2. \A u \in Members : u \in ToSet(list[h]) => u # m
    BY <1>5, <1>7
  <2> QED
    BY <1>1, <1>4, <2>1, <2>2 DEF ListOK
<1> QED
  BY <1>6, <1>7

\* What detaching does to a member that enters, and holds no lock of g's list.
LEMMA DetachMembers ==
    ASSUME IInv, NEW m \in Members, NEW g \in Groups, group[m] = g, Detach(g, m),
           NEW u \in Members, thread'[u] = thread[u],
           UNCHANGED <<setting, enabled>>,
           Entering(u, (EnterPoints \cup LeavePoints) \ {"enter"}) =>
               enterLock'[thread[u].to] = enterLock[thread[u].to],
           Entering(u, {"set_group", "entered"}) =>
               groupLock'[thread[u].to] = groupLock[thread[u].to],
           u = m => ~Entering(u, {"entered"})
    PROVE  EnterOK(u)' /\ GroupOK(u)'
<1>1. EnterOK(u) /\ GroupOK(u)
  BY DEF IInv
<1>2. \A h \in Groups : Size(h)' <= Size(h) /\ Size(h) \in Nat /\ Size(h)' \in Int
  <2> SUFFICES ASSUME NEW h \in Groups
               PROVE  Size(h)' <= Size(h) /\ Size(h) \in Nat /\ Size(h)' \in Int
    OBVIOUS
  <2>1. Size(h) \in Nat
    BY SizeType
  <2>2. CASE h = g
    BY <2>1, <2>2, DetachOne DEF Size
  <2>3. CASE h # g
    BY <2>1, <2>3, DetachOne DEF Size
  <2> QED
    BY <2>2, <2>3
<1>3. group'[u] = IF u = m THEN NoGroup ELSE group[u]
  BY DetachOne DEF IInv, GroupTypeOK
<1>4. EnterOK(u)'
  <2>1. setting.most \in Nat
    BY SettingType
  <2>2. Entering(u, {"get_group", "attach"} \cup LeavePoints) =>
            Size(thread[u].to)' < setting.most
    <3> SUFFICES ASSUME Entering(u, {"get_group", "attach"} \cup LeavePoints)
                 PROVE  Size(thread[u].to)' < setting.most
      OBVIOUS
    <3>1. thread[u].to \in Groups
      BY CallType, Names DEF Entering
    <3>2. Size(thread[u].to) < setting.most
      BY <1>1 DEF EnterOK
    <3>3. Size(thread[u].to)' = Len(list'[thread[u].to])
      BY DEF Size
    <3> QED
      BY <1>2, <2>1, <3>1, <3>2
  <2> QED
    BY <1>1, <2>2 DEF EnterOK, Entering, Size
<1>5. GroupOK(u)'
  BY <1>1, <1>3 DEF GroupOK, Entering
<1> QED
  BY <1>4, <1>5

-----------------------------------------------------------------------------
(* The end of entering *)

\* The locks that m gives back are not those of another member that enters.
LEMMA ReturnLocks ==
    ASSUME IInv, NEW m \in Members, thread[m].point = "entered", EnterReturns(m),
           NEW u \in Members \ {m}
    PROVE  /\ thread'[u] = thread[u]
           /\ Entering(u, (EnterPoints \cup LeavePoints) \ {"enter"}) =>
                 enterLock'[thread[u].to] = enterLock[thread[u].to]
           /\ Entering(u, {"set_group", "entered"}) =>
                 groupLock'[thread[u].to] = groupLock[thread[u].to]
<1>1. m \in Threads /\ u \in Threads /\ CallOK(m)
  BY Names DEF IInv
<1>2. thread'[u] = thread[u]
  BY <1>1, ReturnsMoves, MoveType DEF EnterReturns
<1>3. Entering(m, (EnterPoints \cup LeavePoints) \ {"enter"})
  BY <1>1 DEF CallOK, Entering, EnterPoints
<1>4. Entering(u, (EnterPoints \cup LeavePoints) \ {"enter"}) => thread[u].to # thread[m].to
  BY <1>3, AloneAtDoor
<1>5. Entering(u, {"set_group", "entered"}) => thread[u].to # thread[m].to
  BY <1>4 DEF Entering, EnterPoints
<1> QED
  BY <1>2, <1>4, <1>5 DEF EnterReturns, Unlock, IInv, GroupTypeOK

LEMMA ReturnType ==
    ASSUME IInv, NEW m \in Members, thread[m].point = "entered", EnterReturns(m)
    PROVE  /\ thread' \in [Threads -> Call]
           /\ thread'[m].to = NoGroup /\ thread'[m].point = "idle"
           /\ enterLock' \in [Groups -> Threads \cup {Nobody}]
           /\ groupLock' \in [Groups -> Threads \cup {Nobody}]
           /\ \A t \in Threads : CallOK(t)'
           /\ EnterOK(m)' /\ GroupOK(m)'
<1>1. m \in Threads
  BY Names
<1>2. /\ Moves(m, Idle(m)) /\ thread'[m].to = NoGroup /\ thread'[m].point = "idle"
      /\ CallOK(m)'
  BY <1>1, ReturnsMoves DEF EnterReturns
<1>3. thread' \in [Threads -> Call] /\ \A t \in Threads : CallOK(t)'
  BY <1>1, <1>2, MoveType, MoveCalls DEF EnterReturns
<1>4. /\ enterLock' \in [Groups -> Threads \cup {Nobody}]
      /\ groupLock' \in [Groups -> Threads \cup {Nobody}]
  BY DEF EnterReturns, Unlock, Nobody, IInv, GroupTypeOK
<1> QED
  BY <1>2, <1>3, <1>4 DEF EnterOK, GroupOK, Entering

LEMMA EnteredInv ==
    ASSUME IInv, NEW m \in Members, Entered(m)
    PROVE  IInv'
<1>1. /\ thread[m].point = "entered" /\ EnterReturns(m)
      /\ UNCHANGED <<setting, list, iter, group, enabled, memberLock, calls, crashed>>
  BY DEF Entered, At, EnterReturns
<1>2. /\ thread' \in [Threads -> Call]
      /\ thread'[m].to = NoGroup /\ thread'[m].point = "idle"
      /\ enterLock' \in [Groups -> Threads \cup {Nobody}]
      /\ groupLock' \in [Groups -> Threads \cup {Nobody}]
      /\ \A t \in Threads : CallOK(t)'
      /\ EnterOK(m)' /\ GroupOK(m)'
  BY <1>1, ReturnType
<1>3. ASSUME NEW u \in Members, u # m PROVE EnterOK(u)' /\ GroupOK(u)'
  <2>1. EnterOK(u) /\ GroupOK(u)
    BY DEF IInv
  <2>2. /\ thread'[u] = thread[u]
        /\ Entering(u, (EnterPoints \cup LeavePoints) \ {"enter"}) =>
              enterLock'[thread[u].to] = enterLock[thread[u].to]
        /\ Entering(u, {"set_group", "entered"}) =>
              groupLock'[thread[u].to] = groupLock[thread[u].to]
    BY <1>1, <1>3, ReturnLocks
  <2> QED
    BY <1>1, <2>1, <2>2 DEF EnterOK, GroupOK, Entering, Size
<1>4. ASSUME NEW h \in Groups PROVE ListOK(h)'
  <2>1. \A u \in Members : BelongsTo(u, h)' <=> BelongsTo(u, h)
    BY <1>1, <1>2, ReturnLocks DEF BelongsTo
  <2> QED
    BY <1>1, <2>1 DEF IInv, ListOK
<1> QED
  BY <1>1, <1>2, <1>3, <1>4 DEF IInv, GroupTypeOK

\* What is undone is the membership that was just begun: m has been in the
\* group, with its lock, since.
LEMMA EnteredThrowsInv ==
    ASSUME IInv, NEW m \in Members, EnteredThrows(m)
    PROVE  IInv'
<1> DEFINE g == thread[m].to
<1>1. /\ thread[m].point = "entered" /\ EnterReturns(m) /\ Detach(g, m)
      /\ UNCHANGED <<setting, iter, enabled, memberLock, calls>>
  BY DEF EnteredThrows, At, EnterReturns
<1>2. CallOK(m) /\ GroupOK(m) /\ g \in Groups /\ group[m] = g
  <2>1. CallOK(m) /\ GroupOK(m)
    BY Names DEF IInv
  <2> QED
    BY <1>1, <2>1, CallType, Names DEF CallOK, GroupOK, Entering, EnterPoints
<1> HIDE DEF g
<1>3. /\ thread' \in [Threads -> Call]
      /\ thread'[m].to = NoGroup /\ thread'[m].point = "idle"
      /\ enterLock' \in [Groups -> Threads \cup {Nobody}]
      /\ groupLock' \in [Groups -> Threads \cup {Nobody}]
      /\ \A t \in Threads : CallOK(t)'
      /\ EnterOK(m)' /\ GroupOK(m)'
  BY <1>1, ReturnType
<1>4. /\ UNCHANGED crashed
      /\ group' = [group EXCEPT ![m] = NoGroup]
      /\ list' \in [Groups -> Seq(Members)]
  BY <1>1, <1>2, DetachOne
<1>5. ASSUME NEW u \in Members, u # m PROVE EnterOK(u)' /\ GroupOK(u)'
  BY <1>1, <1>2, <1>5, ReturnLocks, DetachMembers, ZenonT(30)
<1>6. \A h \in Groups : ListOK(h)'
  <2>1. \A u \in Members, h \in Groups :
            (thread'[u].point = "set_group" /\ thread'[u].to = h) <=>
            (thread[u].point = "set_group" /\ thread[u].to = h)
    BY <1>1, <1>3, ReturnLocks
  <2> QED
    BY <1>1, <1>2, <2>1, DetachLists
<1>7. group' \in [Members -> Groups \cup {NoGroup}]
  BY <1>4 DEF IInv, GroupTypeOK
<1> QED
  BY <1>1, <1>3, <1>4, <1>5, <1>6, <1>7 DEF IInv, GroupTypeOK

-----------------------------------------------------------------------------
(* Leaving *)

LEMMA LeaveInv ==
    ASSUME IInv, NEW t \in Threads, NEW m \in Members, NEW g \in Groups, Leave(t, m, g)
    PROVE  IInv'
<1> DEFINE call == [point |-> "leave_member", from |-> g, to |-> NoGroup, member |-> m]
<1>1. /\ Moves(t, call) /\ (t \in Members => m = t)
      /\ thread[t].point = "idle"
      /\ UNCHANGED <<setting, list, iter, group, enabled, enterLock, groupLock,
                     memberLock, crashed>>
  BY DEF Leave, Moves, Call, Points, MayCall, At
<1>2. thread' \in [Threads -> Call] /\ thread'[t] = call
  BY <1>1, MoveType
<1>3. \A u \in Threads : CallOK(u)'
  <2>1. CallOK(t)'
    BY <1>1, <1>2 DEF CallOK, EnterPoints, LeavePoints
  <2> QED
    BY <1>1, <2>1, MoveCalls
<1>4. /\ \A u \in Members : EnterOK(u)' /\ GroupOK(u)'
      /\ \A h \in Groups : ListOK(h)'
  BY <1>1, OthersKeep
<1>5. calls' \in [Threads -> 0..MaxCalls]
  BY BoundsAssumption DEF IInv, GroupTypeOK, Leave, MayCall, Called
<1> QED
  BY <1>1, <1>2, <1>3, <1>4, <1>5 DEF IInv, GroupTypeOK

\* A thread that has nothing to leave goes on, or returns.
LEMMA AfterLeaveKeeps ==
    ASSUME IInv, NEW t \in Threads, thread[t].point \in LeavePoints,
           group[thread[t].member] # thread[t].from, AfterLeave(t),
           UNCHANGED <<setting, list, iter, group, enabled, enterLock, groupLock>>
    PROVE  /\ thread' \in [Threads -> Call]
           /\ \A u \in Threads : CallOK(u)'
           /\ \A u \in Members : EnterOK(u)' /\ GroupOK(u)'
           /\ \A h \in Groups : ListOK(h)'
<1>1. CallOK(t) /\ thread[t].point # "set_group"
  BY DEF IInv, LeavePoints
<1>2. CASE thread[t].to = NoGroup
  <2>1. Moves(t, Idle(t)) /\ CallOK(t)'
    BY <1>2, ReturnsMoves DEF AfterLeave
  <2> QED
    BY <1>1, <2>1, MoveType, MoveCalls, OthersKeep, IdleType
<1>3. CASE thread[t].to # NoGroup
  <2> DEFINE call == [thread[t] EXCEPT !.point = "attach"]
  <2>1. /\ t \in Members /\ thread[t].member = t
        /\ EnterOK(t) /\ GroupOK(t)
    BY <1>1, <1>3, Names DEF CallOK, IInv
  <2>2. /\ Moves(t, call) /\ thread'[t].point = "attach"
        /\ thread'[t].to = thread[t].to /\ thread'[t].member = thread[t].member
    BY <1>3, GotoMoves DEF AfterLeave, Points
  <2>3. thread' \in [Threads -> Call] /\ thread'[t] = call
    BY <2>2, MoveType
  <2> HIDE DEF call
  <2>4. \A u \in Threads : CallOK(u)'
    <3>1. CallOK(t)'
      BY <1>1, <1>3, <2>1, <2>2 DEF CallOK, EnterPoints, LeavePoints
    <3> QED
      BY <2>2, <3>1, MoveCalls
  <2>5. group[t] = NoGroup
    BY <1>3, <2>1 DEF GroupOK, Entering
  <2>6. EnterOK(t)' /\ GroupOK(t)'
    BY <1>3, <2>1, <2>2, <2>5
       DEF EnterOK, GroupOK, Entering, EnterPoints, LeavePoints, Size
  <2>7. /\ \A u \in Members : EnterOK(u)' /\ GroupOK(u)'
        /\ \A h \in Groups : ListOK(h)'
    BY <1>1, <2>1, <2>2, <2>3, <2>6, EnteringKeeps
  <2> QED
    BY <2>3, <2>4, <2>7
<1> QED
  BY <1>2, <1>3

LEMMA LeaveMemberInv ==
    ASSUME IInv, NEW t \in Threads, LeaveMember(t)
    PROVE  IInv'
<1> DEFINE m == thread[t].member
<1>1. /\ thread[t].point = "leave_member" /\ m \in Members /\ CallOK(t)
      /\ UNCHANGED <<setting, list, iter, group, enabled, enterLock, groupLock,
                     calls, crashed>>
  BY CallType DEF LeaveMember, At, IInv
<1>2. CASE /\ group[m] = thread[t].from
           /\ memberLock' = Lock(memberLock, m, t)
           /\ Goto(t, "leave_group")
  <2> DEFINE call == [thread[t] EXCEPT !.point = "leave_group"]
  <2>1. /\ Moves(t, call)
        /\ thread'[t].point = "leave_group"
        /\ thread'[t].to = thread[t].to /\ thread'[t].from = thread[t].from
        /\ thread'[t].member = m
    BY <1>2, GotoMoves DEF Points
  <2>2. thread' \in [Threads -> Call] /\ thread'[t] = call
    BY <2>1, MoveType
  <2> HIDE DEF call
  <2>3. \A u \in Threads : CallOK(u)'
    <3>1. CallOK(t)'
      BY <1>1, <2>1 DEF CallOK, EnterPoints, LeavePoints
    <3> QED
      BY <1>1, <2>1, <3>1, MoveCalls
  <2>4. /\ \A u \in Members : EnterOK(u)' /\ GroupOK(u)'
        /\ \A h \in Groups : ListOK(h)'
    <3>1. CASE thread[t].to = NoGroup
      BY <1>1, <2>1, <2>2, <3>1, OthersKeep
    <3>2. CASE thread[t].to # NoGroup
      <4>1. t \in Members /\ EnterOK(t) /\ GroupOK(t)
        BY <1>1, <3>2, Names DEF CallOK, IInv
      <4>2. EnterOK(t)' /\ GroupOK(t)'
        BY <1>1, <2>1, <3>2, <4>1
           DEF EnterOK, GroupOK, Entering, EnterPoints, LeavePoints, Size
      <4> QED
        BY <1>1, <2>1, <2>2, <4>1, <4>2, EnteringKeeps
    <3> QED
      BY <3>1, <3>2
  <2>5. memberLock' \in [Members -> Threads \cup {Nobody}]
    BY <1>1, <1>2 DEF Lock, IInv, GroupTypeOK
  <2> QED
    BY <1>1, <2>2, <2>3, <2>4, <2>5 DEF IInv, GroupTypeOK
<1>3. CASE group[m] # thread[t].from /\ AfterLeave(t) /\ UNCHANGED memberLock
  <2>1. /\ thread' \in [Threads -> Call]
        /\ \A u \in Threads : CallOK(u)'
        /\ \A u \in Members : EnterOK(u)' /\ GroupOK(u)'
        /\ \A h \in Groups : ListOK(h)'
    BY <1>1, <1>3, AfterLeaveKeeps DEF LeavePoints
  <2> QED
    BY <1>1, <1>3, <2>1 DEF IInv, GroupTypeOK
<1> QED
  BY <1>2, <1>3 DEF LeaveMember

\* A member that leaves is not one that has just entered: that one's group is
\* still locked by it.
LEMMA LeavesOther ==
    ASSUME IInv, NEW t \in Threads, LeaveGroup(t), LeavesNow(t)
    PROVE  /\ thread[t].from \in Groups /\ thread[t].member \in Members
           /\ ~Entering(thread[t].member, {"entered"})
<1> DEFINE m == thread[t].member
           g == thread[t].from
<1>1. /\ thread[t].point = "leave_group" /\ CallOK(t) /\ m \in Members
      /\ g \in Groups
  BY CallType DEF LeaveGroup, At, IInv, CallOK, LeavePoints
<1>2. group[m] = g /\ groupLock[g] \in {Nobody, t}
  BY DEF LeavesNow, LeaveGroup, MayLock
<1>3. ASSUME Entering(m, {"entered"}) PROVE FALSE
  <2>1. EnterOK(m) /\ GroupOK(m)
    BY <1>1 DEF IInv
  <2>2. groupLock[g] = m
    BY <1>2, <1>3, <2>1 DEF EnterOK, GroupOK, Entering
  <2>3. m # t
    BY <1>1, <1>3 DEF Entering
  <2> QED
    BY <1>1, <1>2, <2>2, <2>3, Names DEF Nobody
<1> QED
  BY <1>1, <1>3

LEMMA LeaveGroupInv ==
    ASSUME IInv, NEW t \in Threads, LeaveGroup(t)
    PROVE  IInv'
<1> DEFINE m == thread[t].member
           g == thread[t].from
<1>1. /\ thread[t].point = "leave_group" /\ CallOK(t) /\ m \in Members
      /\ AfterLeave(t)
      /\ UNCHANGED <<setting, iter, enabled, enterLock, groupLock, calls>>
  BY CallType DEF LeaveGroup, At, IInv
<1>2. memberLock' \in [Members -> Threads \cup {Nobody}]
  BY DEF LeaveGroup, Unlock, Nobody, IInv, GroupTypeOK
<1>3. CASE ~LeavesNow(t)
  <2>1. UNCHANGED <<list, group, crashed>>
    BY <1>3 DEF LeaveGroup
  <2>2. /\ thread' \in [Threads -> Call]
        /\ \A u \in Threads : CallOK(u)'
        /\ \A u \in Members : EnterOK(u)' /\ GroupOK(u)'
        /\ \A h \in Groups : ListOK(h)'
    BY <1>1, <1>3, <2>1, AfterLeaveKeeps DEF LeavePoints, LeavesNow
  <2> QED
    BY <1>1, <1>2, <2>1, <2>2 DEF IInv, GroupTypeOK
<1>4. CASE LeavesNow(t)
  <2>1. /\ g \in Groups /\ group[m] = g /\ Detach(g, m)
        /\ ~Entering(m, {"entered"})
    BY <1>4, LeavesOther DEF LeaveGroup, LeavesNow
  <2>2. /\ UNCHANGED crashed
        /\ group' = [group EXCEPT ![m] = NoGroup]
        /\ list' \in [Groups -> Seq(Members)]
    BY <1>1, <2>1, DetachOne
  <2>3. group' \in [Members -> Groups \cup {NoGroup}]
    BY <2>2 DEF IInv, GroupTypeOK
  <2>4. \E call : /\ Moves(t, call) /\ thread'[t] = call /\ CallOK(t)'
                  /\ \/ thread[t].to = NoGroup /\ call.to = NoGroup /\ call.point = "idle"
                     \/ /\ thread[t].to # NoGroup /\ call.to = thread[t].to
                        /\ call.point = "attach"
    <3>1. CASE thread[t].to = NoGroup
      <4>1. Moves(t, Idle(t)) /\ thread'[t] = Idle(t) /\ CallOK(t)'
        BY <1>1, <3>1, ReturnsMoves DEF AfterLeave
      <4> QED
        BY <3>1, <4>1, IdleType
    <3>2. CASE thread[t].to # NoGroup
      <4>1. /\ Moves(t, [thread[t] EXCEPT !.point = "attach"])
            /\ thread'[t].point = "attach" /\ thread'[t].to = thread[t].to
            /\ thread'[t].member = m
        BY <1>1, <3>2, GotoMoves DEF AfterLeave, Points
      <4>2. CallOK(t)'
        BY <1>1, <3>2, <4>1 DEF CallOK, EnterPoints, LeavePoints
      <4>3. thread'[t] = [thread[t] EXCEPT !.point = "attach"]
        BY <4>1, MoveType
      <4> QED
        BY <3>2, <4>1, <4>2, <4>3
    <3> QED
      BY <3>1, <3>2
  <2>5. /\ thread' \in [Threads -> Call]
        /\ \A u \in Threads : CallOK(u)'
        /\ \A u \in Threads \ {t} : thread'[u] = thread[u]
        /\ thread'[t].point \in {"idle", "attach"}
        /\ IF thread[t].to = NoGroup
           THEN thread'[t].to = NoGroup
           ELSE thread'[t].point = "attach" /\ thread'[t].to = thread[t].to
    BY <1>1, <2>4, MoveType, MoveCalls
  <2>6. ASSUME NEW u \in Members, u # t PROVE EnterOK(u)' /\ GroupOK(u)'
    BY <1>1, <2>1, <2>5, <2>6, Names, DetachMembers
  <2>7. ASSUME t \in Members PROVE EnterOK(t)' /\ GroupOK(t)'
    <3>1. m = t /\ EnterOK(t) /\ GroupOK(t)
      BY <1>1, <2>7 DEF CallOK, IInv
    <3>2. CASE thread[t].to = NoGroup
      BY <2>5, <3>2 DEF EnterOK, GroupOK, Entering
    <3>3. CASE thread[t].to # NoGroup
      <4>0. PICK h \in Groups : h = thread[t].to
        BY <2>7, <3>3, Names, CallType
      <4>1. enterLock[h] = t /\ enabled[h] /\ Size(h) < setting.most
        BY <1>1, <3>1, <3>3, <4>0
           DEF EnterOK, Entering, EnterPoints, LeavePoints
      <4>2. Size(h)' <= Size(h) /\ Size(h)' \in Int /\ Size(h) \in Nat
        <5>1. Size(h) \in Nat
          BY SizeType
        <5>2. Size(h)' = Size(h) \/ Size(h)' = Size(h) - 1
          <6>1. CASE h = g
            BY <1>1, <2>1, <6>1, DetachOne DEF Size
          <6>2. CASE h # g
            BY <1>1, <2>1, <6>2, DetachOne DEF Size
          <6> QED
            BY <6>1, <6>2
        <5> QED
          BY <5>1, <5>2
      <4>3. Size(h)' < setting.most
        BY <4>1, <4>2, SettingType
      <4>4. group'[t] = NoGroup
        BY <2>2, <2>3, <3>1
      <4>5. EnterOK(t)'
        <5>1. thread'[t].to = h /\ thread'[t].point = "attach"
          BY <2>5, <3>3, <4>0
        <5> QED
          BY <1>1, <4>1, <4>3, <5>1 DEF EnterOK, Entering, Size
      <4> QED
        BY <2>5, <3>3, <4>4, <4>5 DEF GroupOK, Entering, LeavePoints
    <3> QED
      BY <3>2, <3>3
  <2>8. \A h \in Groups : ListOK(h)'
    <3>1. \A u \in Members, h \in Groups :
              (thread'[u].point = "set_group" /\ thread'[u].to = h) <=>
              (thread[u].point = "set_group" /\ thread[u].to = h)
      BY <1>1, <2>5, Names
    <3> QED
      BY <1>1, <2>1, <3>1, DetachLists
  <2> QED
    BY <1>1, <1>2, <2>2, <2>3, <2>5, <2>6, <2>7, <2>8 DEF IInv, GroupTypeOK
<1> QED
  BY <1>3, <1>4

-----------------------------------------------------------------------------
(* What Admin does besides *)

\* Nobody who counts on an open group is at its door while it is switched.
LEMMA EnableInv ==
    ASSUME IInv, NEW g \in Groups, NEW on \in BOOLEAN, Enable(g, on)
    PROVE  IInv'
<1>1. /\ enterLock[g] = NoGroup
      /\ enabled' = [enabled EXCEPT ![g] = on]
      /\ UNCHANGED <<setting, list, iter, group, enterLock, groupLock, memberLock,
                     thread, crashed>>
  BY DEF Enable, Nobody
<1>2. GroupTypeOK'
  <2>1. calls' \in [Threads -> 0..MaxCalls]
    BY Names, BoundsAssumption DEF IInv, GroupTypeOK, Enable, MayCall, Called
  <2>2. enabled' \in [Groups -> BOOLEAN]
    BY <1>1 DEF IInv, GroupTypeOK
  <2> QED
    BY <1>1, <2>1, <2>2 DEF IInv, GroupTypeOK
<1>3. ASSUME NEW u \in Members PROVE EnterOK(u)' /\ GroupOK(u)'
  <2>1. EnterOK(u) /\ GroupOK(u) /\ u # NoGroup
    BY Names DEF IInv
  <2>2. Entering(u, {"get_group", "attach"} \cup LeavePoints) =>
            enabled'[thread[u].to] = enabled[thread[u].to]
    BY <1>1, <2>1 DEF EnterOK, Entering, EnterPoints, LeavePoints, IInv, GroupTypeOK
  <2> QED
    BY <1>1, <2>1, <2>2 DEF EnterOK, GroupOK, Entering, Size
<1>4. \A t \in Threads : CallOK(t)'
  BY <1>1 DEF IInv, CallOK
<1>5. \A h \in Groups : ListOK(h)'
  BY <1>1 DEF IInv, ListOK, BelongsTo
<1> QED
  BY <1>1, <1>2, <1>3, <1>4, <1>5 DEF IInv

LEMMA LeaveAllInv ==
    ASSUME IInv, NEW g \in Groups, LeaveAll(g)
    PROVE  IInv'
<1>1. /\ Admin \in Threads /\ thread[Admin].point = "idle" /\ setting.disbands
      /\ groupLock[g] = NoGroup
      /\ UNCHANGED <<setting, list, iter, group, enabled, enterLock, memberLock, crashed>>
  BY Names DEF LeaveAll, MayCall, At, Nobody
<1>2. calls' \in [Threads -> 0..MaxCalls]
  BY <1>1, BoundsAssumption DEF IInv, GroupTypeOK, LeaveAll, MayCall, Called
<1>3. CASE UNCHANGED <<groupLock, thread>>
  <2>1. \A u \in Members : EnterOK(u)' /\ GroupOK(u)'
    BY <1>1, <1>3 DEF IInv, EnterOK, GroupOK, Entering, Size
  <2>2. \A u \in Threads : CallOK(u)'
    BY <1>1, <1>3 DEF IInv, CallOK
  <2>3. \A h \in Groups : ListOK(h)'
    BY <1>1, <1>3 DEF IInv, ListOK, BelongsTo
  <2> QED
    BY <1>1, <1>2, <1>3, <2>1, <2>2, <2>3 DEF IInv, GroupTypeOK
<1>4. CASE Size(g) # 0
  <2> DEFINE call == [point |-> "all_member", from |-> g, to |-> NoGroup,
                      member |-> Head(list[g])]
  <2>1. /\ groupLock' = Lock(groupLock, g, Admin)
        /\ thread' = [thread EXCEPT ![Admin] = call]
    BY <1>4 DEF LeaveAll
  <2>2. Head(list[g]) \in Members
    <3>1. list[g] \in Seq(Members) /\ list[g] # <<>>
      BY <1>4, SizeType DEF Size
    <3> QED
      BY <3>1
  <2>3. Moves(Admin, call)
    BY <2>1, <2>2 DEF Moves, Call, Points
  <2>4. /\ thread' \in [Threads -> Call] /\ thread'[Admin] = call
        /\ \A u \in Threads \ {Admin} : thread'[u] = thread[u]
    BY <1>1, <2>3, MoveType
  <2>5. /\ groupLock' \in [Groups -> Threads \cup {Nobody}]
        /\ \A h \in Groups \ {g} : groupLock'[h] = groupLock[h]
    BY <1>1, <2>1 DEF Lock, IInv, GroupTypeOK
  <2>6. \A t \in Threads : CallOK(t)'
    <3>1. CallOK(Admin)'
      BY <1>1, <2>4 DEF CallOK, EnterPoints, LeavePoints
    <3> QED
      BY <1>1, <2>3, <3>1, MoveCalls
  <2>7. ASSUME NEW u \in Members PROVE EnterOK(u)' /\ GroupOK(u)'
    <3>1. /\ EnterOK(u) /\ GroupOK(u) /\ u # NoGroup
          /\ thread'[u] = thread[u]
      BY <2>4, Names DEF IInv
    <3>2. Entering(u, {"set_group", "entered"}) =>
              groupLock'[thread[u].to] = groupLock[thread[u].to]
      <4> SUFFICES ASSUME Entering(u, {"set_group", "entered"})
                   PROVE  groupLock'[thread[u].to] = groupLock[thread[u].to]
        OBVIOUS
      <4>1. thread[u].to \in Groups /\ thread[u].to # g
        BY <1>1, <3>1, CallType, Names DEF EnterOK, Entering
      <4> QED
        BY <2>5, <4>1
    <3> QED
      BY <1>1, <3>1, <3>2 DEF EnterOK, GroupOK, Entering, Size
  <2>8. \A h \in Groups : ListOK(h)'
    <3>1. \A u \in Members : thread'[u] = thread[u]
      BY <2>4, Names
    <3> QED
      BY <1>1, <3>1 DEF IInv, ListOK, BelongsTo
  <2> QED
    BY <1>1, <1>2, <2>4, <2>5, <2>6, <2>7, <2>8 DEF IInv, GroupTypeOK
<1> QED
  BY <1>3, <1>4 DEF LeaveAll

\* Only leave_all goes on from an entry that was erased.
LEMMA LeaveAllFirstInv ==
    ASSUME IInv, LeaveAllFirst
    PROVE  IInv'
<1>1. /\ thread[Admin].point = "all_member" /\ crashed' = TRUE
      /\ UNCHANGED <<setting, list, iter, group, enabled, enterLock, groupLock,
                     memberLock, thread, calls>>
  BY DEF LeaveAllFirst, At
<1>2. setting.disbands
  BY <1>1, Names DEF IInv, CallOK
<1>3. /\ GroupTypeOK'
      /\ \A t \in Threads : CallOK(t)'
  BY <1>1 DEF IInv, GroupTypeOK, CallOK
<1>4. /\ \A u \in Members : EnterOK(u)' /\ GroupOK(u)'
      /\ \A h \in Groups : ListOK(h)'
  BY <1>1 DEF IInv, EnterOK, GroupOK, Entering, Size, ListOK, BelongsTo
<1> QED
  BY <1>1, <1>2, <1>3, <1>4 DEF IInv

-----------------------------------------------------------------------------
(* The invariant *)

LEMMA InitInv == Init => IInv
<1> SUFFICES ASSUME GroupInit PROVE IInv
  BY DEF Init
<1> USE DEF GroupInit
<1>1. \A t \in Threads : thread[t] = Idle(t)
  OBVIOUS
<1>2. GroupTypeOK
  <2>1. thread \in [Threads -> Call]
    BY IdleType
  <2>2. list \in [Groups -> Seq(Members)]
    OBVIOUS
  <2>3. calls \in [Threads -> 0..MaxCalls]
    BY BoundsAssumption
  <2> QED
    BY <2>1, <2>2, <2>3 DEF GroupTypeOK, Nobody
<1>3. \A t \in Threads : CallOK(t)
  BY <1>1, IdleType, Names DEF CallOK, EnterPoints, LeavePoints
<1>4. \A m \in Members : EnterOK(m) /\ GroupOK(m)
  BY <1>1, IdleType, Names DEF EnterOK, GroupOK, Entering
<1>5. ASSUME NEW g \in Groups PROVE ListOK(g)
  <2>1. list[g] = <<>> /\ ToSet(list[g]) = {}
    BY DEF ToSet
  <2>2. \A m \in Members : ~BelongsTo(m, g)
    BY <1>1, IdleType, Names DEF BelongsTo
  <2> QED
    BY <2>1, <2>2 DEF ListOK, IsInjective
<1> QED
  BY <1>2, <1>3, <1>4, <1>5 DEF IInv

LEMMA StepInv == IInv /\ [GroupNext]_groupVars => IInv'
<1> SUFFICES ASSUME IInv, [GroupNext]_groupVars PROVE IInv'
  OBVIOUS
<1>1. ASSUME NEW m \in Members, EnterStep(m) PROVE IInv'
  BY <1>1, EnterInv, EnterLockInv, GetGroupInv, AttachInv, SetGroupInv, EnteredInv,
     EnteredThrowsInv DEF EnterStep
<1>2. ASSUME NEW t \in Threads, LeaveStep(t) PROVE IInv'
  BY <1>2, LeaveInv, LeaveMemberInv, LeaveGroupInv DEF LeaveStep
<1>3. CASE AdminStep
  BY <1>3, EnableInv, LeaveAllInv, LeaveAllFirstInv DEF AdminStep
<1>4. CASE UNCHANGED groupVars
  BY <1>4 DEF groupVars, IInv, GroupTypeOK, CallOK, EnterOK, GroupOK, Entering, Size,
     ListOK, BelongsTo
<1> QED
  BY <1>1, <1>2, <1>3, <1>4 DEF GroupNext

\* The locks of group::list, Igroup and Igroupable keep what each call that is
\* under way relies on, and the two records of who is in which group together.
THEOREM Invariant == Spec => []IInv
<1>1. Init => IInv
  BY InitInv
<1>2. IInv /\ [Next]_vars => IInv'
  BY StepInv, ChatStepIsGroupStep
<1> QED
  BY <1>1, <1>2, PTL DEF Spec

\* A group's list has its members, each once, whenever no call holds its lock,
\* and no entry is erased twice or from another list but by leave_all: for any
\* number of groups, members and callers of process_enter and process_leave.
THEOREM ListsAgree == Spec => []MembershipAgrees
<1>1. IInv => MembershipAgrees
  <2> SUFFICES ASSUME IInv, NEW g \in Groups, Unlocked(g)
               PROVE  /\ ToSet(list[g]) = {m \in Members : group[m] = g}
                      /\ IsInjective(list[g])
    BY DEF MembershipAgrees, ListsAreGroups, IInv
  <2>1. ListOK(g)
    BY DEF IInv
  <2>2. ASSUME NEW m \in Members, thread[m].point = "set_group", thread[m].to = g
        PROVE  FALSE
    <3>1. groupLock[g] = m
      BY <2>2, Names DEF IInv, EnterOK, Entering
    <3> QED
      BY <3>1, Names DEF Unlocked, Nobody
  <2>3. ToSet(list[g]) \subseteq Members
    BY SizeType DEF ToSet
  <2> QED
    BY <2>1, <2>2, <2>3 DEF ListOK, BelongsTo
<1> QED
  BY <1>1, Invariant, PTL

-----------------------------------------------------------------------------
(* The door *)

\* Only a member at the end of entering makes a list longer.
LEMMA OnlyAttachGrows ==
    ASSUME IInv, [GroupNext]_groupVars, NEW g \in Groups, Size(g)' > Size(g)
    PROVE  \E m \in Members : Attach(m) /\ thread[m].to = g
<1>1. Size(g) \in Nat
  BY SizeType
<1>2. ASSUME UNCHANGED list PROVE FALSE
  BY <1>1, <1>2 DEF Size
<1>3. ASSUME NEW h \in Groups, NEW m \in Members, group[m] = h, Detach(h, m)
      PROVE  FALSE
  <2>1. CASE h = g
    BY <1>1, <1>3, <2>1, DetachOne DEF Size
  <2>2. CASE h # g
    BY <1>1, <1>3, <2>2, DetachOne DEF Size
  <2> QED
    BY <2>1, <2>2
<1>4. ASSUME NEW m \in Members, EnterStep(m)
      PROVE  Attach(m) /\ thread[m].to = g
  <2>1. CASE Attach(m)
    <3>1. list' = [list EXCEPT ![thread[m].to] = Append(@, m)]
      BY <2>1 DEF Attach
    <3>2. CASE thread[m].to # g
      BY <1>2, <3>1, <3>2, <1>1 DEF Size, IInv, GroupTypeOK
    <3> QED
      BY <2>1, <3>2
  <2>2. CASE EnteredThrows(m)
    <3> DEFINE h == thread[m].to
    <3>1. thread[m].point = "entered" /\ Detach(h, m)
      BY <2>2 DEF EnteredThrows, At
    <3>2. CallOK(m) /\ GroupOK(m)
      BY Names DEF IInv
    <3>3. h \in Groups /\ group[m] = h
      BY <3>1, <3>2, CallType, Names DEF CallOK, GroupOK, Entering, EnterPoints
    <3> QED
      BY <1>3, <3>1, <3>3
  <2>3. CASE ~Attach(m) /\ ~EnteredThrows(m)
    <3>1. UNCHANGED list
      BY <1>4, <2>3 DEF EnterStep, Enter, EnterLock, GetGroup, SetGroup, Entered
    <3> QED
      BY <1>2, <3>1
  <2> QED
    BY <2>1, <2>2, <2>3
<1>5. ASSUME NEW t \in Threads, LeaveStep(t) PROVE FALSE
  <2>1. CASE LeaveGroup(t) /\ LeavesNow(t)
    <3>1. /\ thread[t].from \in Groups /\ thread[t].member \in Members
          /\ group[thread[t].member] = thread[t].from
          /\ Detach(thread[t].from, thread[t].member)
      BY <2>1, LeavesOther DEF LeavesNow, LeaveGroup
    <3> QED
      BY <1>3, <3>1
  <2>2. CASE ~(LeaveGroup(t) /\ LeavesNow(t))
    <3>1. UNCHANGED list
      BY <1>5, <2>2 DEF LeaveStep, Leave, LeaveMember, LeaveGroup
    <3> QED
      BY <1>2, <3>1
  <2> QED
    BY <2>1, <2>2
<1>6. ASSUME AdminStep \/ UNCHANGED groupVars PROVE FALSE
  <2>1. UNCHANGED list
    BY <1>6 DEF AdminStep, LeaveAll, Enable, LeaveAllFirst, groupVars
  <2> QED
    BY <1>2, <2>1
<1> QED
  BY <1>4, <1>5, <1>6 DEF GroupNext

\* However callers meet at the door, a list grows only while its group is
\* open and never beyond m_count_max_member.
THEOREM KeepsItsDoor == Spec => DoorIsKept
<1> DEFINE Kept == \A g \in Groups :
                      Size(g)' > Size(g) => enabled[g] /\ Size(g)' <= setting.most
<1>1. IInv /\ [GroupNext]_groupVars => Kept
  <2> SUFFICES ASSUME IInv, [GroupNext]_groupVars, NEW g \in Groups, Size(g)' > Size(g)
               PROVE  enabled[g] /\ Size(g)' <= setting.most
    OBVIOUS
  <2>1. PICK m \in Members : Attach(m) /\ thread[m].to = g
    BY OnlyAttachGrows
  <2>2. thread[m].point = "attach" /\ list' = [list EXCEPT ![g] = Append(@, m)]
    BY <2>1 DEF Attach, At
  <2>3. enabled[g] /\ Size(g) < setting.most
    <3>1. EnterOK(m) /\ g # NoGroup
      BY DEF IInv
    <3> QED
      BY <2>1, <2>2, <3>1 DEF EnterOK, Entering
  <2>4. Size(g)' = Size(g) + 1 /\ Size(g) \in Nat
    <3>1. list \in [Groups -> Seq(Members)] /\ list[g] \in Seq(Members)
      BY DEF IInv, GroupTypeOK
    <3>2. list'[g] = Append(list[g], m)
      BY <2>2, <3>1
    <3>3. Len(Append(list[g], m)) = Len(list[g]) + 1 /\ Len(list[g]) \in Nat
      BY <3>1
    <3> QED
      BY <3>2, <3>3 DEF Size
  <2> QED
    BY <2>3, <2>4, SettingType
<1>2. IInv /\ [Next]_vars => [Kept]_groupVars
  BY <1>1, ChatStepIsGroupStep
<1> QED
  BY <1>2, Invariant, PTL DEF Spec, DoorIsKept


-----------------------------------------------------------------------------
(* The receivers: the inductive invariant *)

\* The group a member is in is registered with it as soon as entering returns,
\* and none other is, if on_member_entered did not throw.
Registered(m, g) ==
    /\ group[m] = g /\ ~(thread[m].point = "entered" /\ thread[m].to = g) =>
          g \in ToSet(container[m])
    /\ g \in ToSet(container[m]) => group[m] = g \/ Fails("entered")

ReceiversType ==
    /\ container \in [Members -> Seq(Groups)]
    /\ sending \in [Members -> Seq(Groups)]
    /\ \A m \in Members : IsInjective(container[m])
    /\ saidIn \in [Members -> Groups \cup {NoGroup}]

SendingOK(m) ==
    /\ sending[m] # <<>> => thread[m].point = "idle"
    /\ sending[m] # <<>> =>
          group[m] = saidIn[m] \/ (setting.kicks /\ group[m] = NoGroup)
    /\ \A g \in ToSet(sending[m]) :
          saidIn[m] = g \/ (Fails("entered") /\ g \in ToSet(container[m]))

ReceiversInv ==
    /\ ReceiversType
    /\ thread[Admin].point \in LeavePoints => setting.kicks
    /\ ~crashed => \A m \in Members : SendingOK(m) /\ \A g \in Groups : Registered(m, g)

-----------------------------------------------------------------------------
(* Lists of receivers *)

LEMMA RemoveFirstOne ==
    ASSUME NEW S, NEW s \in Seq(S), IsInjective(s), NEW x
    PROVE  /\ RemoveFirst(s, x) \in Seq(S)
           /\ \A y : y \in ToSet(RemoveFirst(s, x)) <=> y \in ToSet(s) /\ y # x
           /\ IsInjective(RemoveFirst(s, x))
<1>1. CASE \E i \in 1..Len(s) : s[i] = x
  <2>1. PICK i \in 1..Len(s) : s[i] = x
    BY <1>1
  <2>2. {j \in 1..Len(s) : s[j] = x} = {i}
    BY <2>1 DEF IsInjective
  <2>3. Min({i}) = i
    BY DEF Min
  <2>4. SelectInSeq(s, LAMBDA v : v = x) = i
    BY <2>2, <2>3 DEF SelectInSeq
  <2>5. RemoveFirst(s, x) = RemoveAt(s, i)
    BY <1>1, <2>4 DEF RemoveFirst
  <2> QED
    BY <2>1, <2>5, EraseOne
<1>2. CASE ~ \E i \in 1..Len(s) : s[i] = x
  BY <1>2 DEF RemoveFirst, ToSet
<1> QED
  BY <1>1, <1>2

\* The operators that MessageTransmitter has of its own instance.
LEMMA SameLists ==
    /\ \A s : Transmitters!ToSet(s) = ToSet(s)
    /\ \A s : Transmitters!IsInjective(s) <=> IsInjective(s)
    /\ \A s, x : Transmitters!RemoveFirst(s, x) = RemoveFirst(s, x)
<1>1. \A s : Transmitters!ToSet(s) = ToSet(s)
  BY DEF Transmitters!ToSet, ToSet
<1>2. \A s : Transmitters!IsInjective(s) <=> IsInjective(s)
  BY DEF Transmitters!IsInjective, IsInjective
<1>3. ASSUME NEW s, NEW x PROVE Transmitters!RemoveFirst(s, x) = RemoveFirst(s, x)
  <2>1. \A i : Transmitters!RemoveAt(s, i) = RemoveAt(s, i)
    BY DEF Transmitters!RemoveAt, RemoveAt
  <2>2. \A S : Transmitters!Min(S) = Min(S)
    BY DEF Transmitters!Min, Min
  <2>3. Transmitters!SelectInSeq(s, LAMBDA v : v = x) = SelectInSeq(s, LAMBDA v : v = x)
    BY <2>2 DEF Transmitters!SelectInSeq, SelectInSeq
  <2> QED
    BY <2>1, <2>3 DEF Transmitters!RemoveFirst, RemoveFirst
<1> QED
  BY <1>1, <1>2, <1>3

LEMMA TailOne ==
    ASSUME NEW S, NEW s \in Seq(S), s # <<>>
    PROVE  /\ Tail(s) \in Seq(S) /\ Head(s) \in ToSet(s)
           /\ ToSet(Tail(s)) \subseteq ToSet(s)
<1>1. Len(s) \in Nat /\ Len(s) > 0 /\ DOMAIN s = 1..Len(s)
  OBVIOUS
<1>2. Head(s) = s[1] /\ 1 \in DOMAIN s
  BY <1>1
<1>3. /\ Tail(s) \in Seq(S) /\ DOMAIN Tail(s) = 1..(Len(s) - 1)
      /\ \A i \in 1..(Len(s) - 1) : Tail(s)[i] = s[i + 1]
  BY <1>1
<1>4. ASSUME NEW i \in 1..(Len(s) - 1) PROVE Tail(s)[i] \in ToSet(s)
  <2>1. i + 1 \in DOMAIN s /\ Tail(s)[i] = s[i + 1]
    BY <1>1, <1>3
  <2> QED
    BY <2>1 DEF ToSet
<1> QED
  BY <1>2, <1>3, <1>4 DEF ToSet

-----------------------------------------------------------------------------
(* Steps that change no membership *)

LEMMA QuietKeeps ==
    ASSUME IInv, ReceiversInv, UNCHANGED <<container, sending, saidIn, group, setting>>,
           ~crashed' => ~crashed,
           NEW t \in Threads, \A u \in Threads \ {t} : thread'[u] = thread[u],
           thread[t].point # "entered",
           ~crashed /\ t \in Members => sending[t] = <<>>,
           t = Admin /\ thread'[t].point \in LeavePoints =>
               setting.kicks \/ thread[t].point \in LeavePoints
    PROVE  ReceiversInv'
<1>1. ReceiversType'
  BY DEF ReceiversInv, ReceiversType
<1>2. thread'[Admin].point \in LeavePoints => setting.kicks
  BY Names DEF ReceiversInv
<1>3. ASSUME ~crashed', NEW m \in Members
      PROVE  SendingOK(m)' /\ \A g \in Groups : Registered(m, g)'
  <2>1. ~crashed /\ SendingOK(m) /\ \A g \in Groups : Registered(m, g)
    BY <1>3 DEF ReceiversInv
  <2>2. CASE m # t
    <3>1. thread'[m] = thread[m]
      BY <2>2, Names
    <3> QED
      BY <2>1, <3>1 DEF SendingOK, Registered, Fails
  <2>3. CASE m = t
    BY <2>1, <2>3 DEF SendingOK, Registered, Fails
  <2> QED
    BY <2>2, <2>3
<1> QED
  BY <1>1, <1>2, <1>3 DEF ReceiversInv

\* Where a thread is that moves while it enters or leaves: not passing on a
\* message.
LEMMA BusyIsNotSending ==
    ASSUME ReceiversInv, ~crashed, NEW m \in Members, thread[m].point # "idle"
    PROVE  sending[m] = <<>>
BY DEF ReceiversInv, SendingOK

LEMMA QuietMemberInv ==
    ASSUME IInv, ReceiversInv, NEW m \in Members, Quiet,
           \/ EnterLock(m) \/ GetGroup(m) \/ Attach(m)
           \/ \E g \in Groups : Free(m) /\ Enter(m, g)
    PROVE  ReceiversInv'
<1>1. m \in Threads /\ m # Admin /\ thread \in [Threads -> Call]
  BY Names DEF IInv, GroupTypeOK
<1>2. /\ UNCHANGED <<container, sending, saidIn, group, setting, crashed>>
      /\ thread[m].point \in {"idle", "enter", "get_group", "attach"}
      /\ \E call : thread' = [thread EXCEPT ![m] = call]
      /\ thread[m].point = "idle" => Free(m)
  BY DEF Quiet, EnterLock, GetGroup, Attach, Enter, MayCall, At, Goto, Returns
<1>3. ~crashed => sending[m] = <<>>
  BY <1>2, BusyIsNotSending DEF Free
<1> QED
  BY <1>1, <1>2, <1>3, QuietKeeps

LEMMA QuietThreadInv ==
    ASSUME IInv, ReceiversInv, NEW t \in Threads, Quiet,
           \/ LeaveMember(t)
           \/ \E m \in Members, g \in Groups : Free(t) /\ Leave(t, m, g)
    PROVE  ReceiversInv'
<1>1. thread \in [Threads -> Call]
  BY DEF IInv, GroupTypeOK
<1>2. /\ UNCHANGED <<container, sending, saidIn, group, setting, crashed>>
      /\ thread[t].point \in {"idle", "leave_member"}
      /\ \E call : thread' = [thread EXCEPT ![t] = call]
  BY DEF Quiet, LeaveMember, Leave, MayCall, At, Goto, Returns, AfterLeave
<1>3. ~crashed /\ t \in Members => sending[t] = <<>>
  BY <1>2, BusyIsNotSending DEF LeaveMember, Free, At
<1>4. t = Admin => setting.kicks \/ thread[t].point \in LeavePoints
  BY Names DEF LeaveMember, Leave, At, LeavePoints
<1> QED
  BY <1>1, <1>2, <1>3, <1>4, QuietKeeps

LEMMA QuietAdminInv ==
    ASSUME IInv, ReceiversInv, Quiet,
           \/ \E g \in Groups : LeaveAll(g) \/ \E on \in BOOLEAN : Enable(g, on)
           \/ LeaveAllFirst
    PROVE  ReceiversInv'
<1>1. thread \in [Threads -> Call] /\ Admin \in Threads /\ Admin \notin Members
  BY Names DEF IInv, GroupTypeOK
<1>2. /\ UNCHANGED <<container, sending, saidIn, group, setting>>
      /\ ~crashed' => ~crashed
      /\ thread[Admin].point \in {"idle", "all_member"}
      /\ \/ UNCHANGED thread
         \/ \E call : thread' = [thread EXCEPT ![Admin] = call] /\ call.point = "all_member"
  BY DEF Quiet, LeaveAll, Enable, LeaveAllFirst, MayCall, At
<1>3. thread'[Admin].point \notin LeavePoints
  BY <1>1, <1>2 DEF LeavePoints
<1>4. \A u \in Threads \ {Admin} : thread'[u] = thread[u]
  BY <1>1, <1>2
<1> QED
  BY <1>1, <1>2, <1>3, <1>4, QuietKeeps

-----------------------------------------------------------------------------
(* Steps that change what a member is in, or what is registered with it *)

\* What is left to show when only one member is concerned.
LEMMA OneMember ==
    ASSUME IInv, ReceiversInv, ~crashed, UNCHANGED setting,
           NEW t \in Threads, \A u \in Threads \ {t} : thread'[u] = thread[u],
           t = Admin => thread'[Admin].point \notin LeavePoints,
           NEW m \in Members, t \in Members => m = t,
           \A u \in Members \ {m} : /\ group'[u] = group[u]
                                    /\ container'[u] = container[u]
                                    /\ sending'[u] = sending[u]
                                    /\ saidIn'[u] = saidIn[u],
           ReceiversType', SendingOK(m)', \A g \in Groups : Registered(m, g)'
    PROVE  ReceiversInv'
<1>1. thread'[Admin].point \in LeavePoints => setting.kicks
  BY Names DEF ReceiversInv
<1>2. ASSUME NEW u \in Members, u # m
      PROVE  SendingOK(u)' /\ \A g \in Groups : Registered(u, g)'
  <2>1. /\ thread'[u] = thread[u] /\ SendingOK(u)
        /\ \A g \in Groups : Registered(u, g)
    BY <1>2, Names DEF ReceiversInv
  <2> QED
    BY <1>2, <2>1 DEF SendingOK, Registered, Fails
<1> QED
  BY <1>1, <1>2 DEF ReceiversInv

LEMMA SetGroupReceivers ==
    ASSUME IInv, ReceiversInv, NEW m \in Members, SetGroup(m), Quiet
    PROVE  ReceiversInv'
<1>1. /\ m \in Threads /\ m # Admin /\ thread[m].point = "set_group" /\ ~crashed
      /\ CallOK(m) /\ GroupOK(m)
      /\ UNCHANGED <<container, sending, saidIn, setting>>
  BY Names DEF IInv, SetGroup, At, Quiet
<1>2. thread[m].to \in Groups /\ group[m] = NoGroup
  BY <1>1, CallType DEF CallOK, EnterPoints, GroupOK, Entering
<1>3. /\ thread'[m].point = "entered" /\ thread'[m].to = thread[m].to
      /\ \A u \in Threads \ {m} : thread'[u] = thread[u]
  BY <1>1, GotoMoves, MoveType DEF SetGroup, Points
<1>4. /\ group'[m] = thread[m].to
      /\ \A u \in Members \ {m} : group'[u] = group[u]
  BY DEF SetGroup, IInv, GroupTypeOK
<1>5. sending[m] = <<>> /\ \A g \in Groups : Registered(m, g)
  BY <1>1, BusyIsNotSending DEF ReceiversInv
<1>6. SendingOK(m)'
  BY <1>1, <1>5 DEF SendingOK, ToSet
<1>7. \A g \in Groups : Registered(m, g)'
  BY <1>1, <1>2, <1>3, <1>4, <1>5 DEF Registered, Fails
<1>8. ReceiversType'
  BY <1>1 DEF ReceiversInv, ReceiversType
<1> QED
  BY <1>1, <1>3, <1>4, <1>6, <1>7, <1>8, OneMember

\* The group is registered before entering returns; it stays so when
\* on_member_entered throws.
LEMMA ChatEnteredInv ==
    ASSUME IInv, ReceiversInv, NEW m \in Members, ChatEntered(m)
    PROVE  ReceiversInv'
<1> DEFINE g == thread[m].to
<1>1. /\ m \in Threads /\ m # Admin /\ thread[m].point = "entered" /\ ~crashed
      /\ CallOK(m) /\ GroupOK(m) /\ EnterReturns(m)
      /\ UNCHANGED <<sending, saidIn, setting>>
  BY Names DEF IInv, ChatEntered, Entered, EnteredThrows, At, EnterReturns
<1>2. g \in Groups /\ group[m] = g
  BY <1>1, CallType DEF CallOK, EnterPoints, GroupOK, Entering
<1>3. /\ thread'[m].point = "idle"
      /\ \A u \in Threads \ {m} : thread'[u] = thread[u]
  BY <1>1, ReturnsMoves, MoveType DEF EnterReturns
<1>4. \/ UNCHANGED group
      \/ Fails("entered") /\ group' = [group EXCEPT ![m] = NoGroup]
  BY <1>1, <1>2, DetachOne DEF ChatEntered, Entered, EnteredThrows
<1>5. group \in [Members -> Groups \cup {NoGroup}]
  BY DEF IInv, GroupTypeOK
<1>6. /\ sending[m] = <<>> /\ \A h \in Groups : Registered(m, h)
      /\ ReceiversType
  BY <1>1, BusyIsNotSending DEF ReceiversInv
<1>7. /\ container' \in [Members -> Seq(Groups)]
      /\ \A u \in Members \ {m} : container'[u] = container[u]
      /\ IsInjective(container'[m])
      /\ \A h : h \in ToSet(container'[m]) <=> h \in ToSet(container[m]) \/ h = g
  <2>1. Transmitters!RegisterMessageable(m, g)
    BY DEF ChatEntered
  <2>2. container \in [Members -> Seq(Groups)] /\ IsInjective(container[m])
    BY <1>6 DEF ReceiversType
  <2>3. CASE g \in ToSet(container[m])
    BY <2>1, <2>2, <2>3, SameLists DEF Transmitters!RegisterMessageable
  <2>4. CASE g \notin ToSet(container[m])
    <3>1. container' = [container EXCEPT ![m] = Append(container[m], g)]
      BY <2>1, <2>2, <2>4, SameLists DEF Transmitters!RegisterMessageable
    <3>2. container[m] \in Seq(Groups)
      BY <2>2
    <3>3. /\ Append(container[m], g) \in Seq(Groups)
          /\ IsInjective(Append(container[m], g))
          /\ \A h : h \in ToSet(Append(container[m], g))
                      <=> h \in ToSet(container[m]) \/ h = g
      BY <1>2, <2>2, <2>4, <3>2, AppendOne
    <3> QED
      BY <2>2, <3>1, <3>3
  <2> QED
    BY <2>3, <2>4
<1> HIDE DEF g
<1>8. ReceiversType'
  BY <1>1, <1>6, <1>7 DEF ReceiversType
<1>9. SendingOK(m)'
  BY <1>1, <1>6 DEF SendingOK, ToSet
<1>10. \A h \in Groups : Registered(m, h)'
  <2> SUFFICES ASSUME NEW h \in Groups PROVE Registered(m, h)'
    OBVIOUS
  <2>1. Registered(m, h) /\ Fails("entered")' = Fails("entered")
    BY <1>1, <1>6 DEF Fails
  <2>2. CASE UNCHANGED group
    BY <1>2, <1>7, <2>1, <2>2 DEF Registered
  <2>3. CASE Fails("entered") /\ group' = [group EXCEPT ![m] = NoGroup]
    BY <1>5, <2>1, <2>3 DEF Registered
  <2> QED
    BY <1>4, <2>2, <2>3
<1>11. \A u \in Members \ {m} : group'[u] = group[u]
  BY <1>4, <1>5
<1> QED
  BY <1>1, <1>3, <1>7, <1>8, <1>9, <1>10, <1>11, OneMember

\* A member that leaves a group is unregistered from it under its lock.
LEMMA ChatLeaveGroupInv ==
    ASSUME IInv, ReceiversInv, NEW t \in Threads, ChatLeaveGroup(t)
    PROVE  ReceiversInv'
<1>0. PICK m \in Members, g \in Groups \cup {NoGroup} :
          m = thread[t].member /\ g = thread[t].from
  BY CallType
<1>1. /\ LeaveGroup(t) /\ thread[t].point = "leave_group" /\ ~crashed
      /\ CallOK(t) /\ (t \in Members => m = t)
      /\ AfterLeave(t) /\ UNCHANGED <<sending, saidIn, setting>>
  BY <1>0 DEF IInv, ChatLeaveGroup, LeaveGroup, At, CallOK
<1>2. /\ thread'[t].point \in {"idle", "attach"}
      /\ \A u \in Threads \ {t} : thread'[u] = thread[u]
  BY ReturnsMoves, GotoMoves, MoveType, <1>1 DEF AfterLeave, Points
<1>3. CASE ~LeavesNow(t)
  <2>1. UNCHANGED <<container, sending, saidIn, group, setting, crashed>>
    BY <1>1, <1>3 DEF ChatLeaveGroup, LeaveGroup
  <2>2. t \in Members => sending[t] = <<>>
    BY <1>1, BusyIsNotSending
  <2> QED
    BY <1>1, <1>2, <2>1, <2>2, QuietKeeps DEF LeavePoints
<1>4. CASE LeavesNow(t)
  <2>1. /\ g \in Groups /\ group[m] = g /\ Detach(g, m)
        /\ ~Entering(m, {"entered"})
    BY <1>0, <1>1, <1>4, LeavesOther DEF LeaveGroup, LeavesNow
  <2>2. /\ group'[m] = NoGroup
        /\ \A u \in Members \ {m} : group'[u] = group[u]
    BY <1>1, <2>1, DetachOne DEF IInv, GroupTypeOK
  <2>3. Transmitters!UnregisterMessageable(m, g)
    BY <1>0, <1>4 DEF ChatLeaveGroup
  <2>4. ReceiversType /\ SendingOK(m) /\ \A h \in Groups : Registered(m, h)
    BY <1>1 DEF ReceiversInv
  <2>5. /\ container' \in [Members -> Seq(Groups)]
        /\ \A u \in Members \ {m} : container'[u] = container[u]
        /\ IsInjective(container'[m])
        /\ \A h : h \in ToSet(container'[m]) <=> h \in ToSet(container[m]) /\ h # g
    <3>1. /\ container \in [Members -> Seq(Groups)] /\ container[m] \in Seq(Groups)
          /\ IsInjective(container[m])
      BY <1>1, <2>4 DEF ReceiversType
    <3>2. container' = [container EXCEPT ![m] = RemoveFirst(container[m], g)]
      BY <1>1, <2>3, <3>1, SameLists
         DEF Transmitters!UnregisterMessageable
    <3>3. /\ RemoveFirst(container[m], g) \in Seq(Groups)
          /\ IsInjective(RemoveFirst(container[m], g))
          /\ \A h : h \in ToSet(RemoveFirst(container[m], g))
                      <=> h \in ToSet(container[m]) /\ h # g
      BY <3>1, RemoveFirstOne
    <3> QED
      BY <1>1, <3>1, <3>2, <3>3
  <2>6. ReceiversType'
    BY <1>1, <2>4, <2>5 DEF ReceiversType
  <2>7. \A h \in Groups : Registered(m, h)'
    <3> SUFFICES ASSUME NEW h \in Groups PROVE Registered(m, h)'
      OBVIOUS
    <3>1. Registered(m, h)
      BY <2>4
    <3>2. Fails("entered")' = Fails("entered")
      BY <1>1 DEF Fails
    <3> QED
      BY <2>1, <2>2, <2>5, <3>1, <3>2 DEF Registered
  <2>8. SendingOK(m)'
    <3>1. CASE t \in Members
      <4>1. sending[m] = <<>>
        BY <1>1, <3>1, BusyIsNotSending
      <4> QED
        BY <1>1, <4>1 DEF SendingOK, ToSet
    <3>2. CASE t = Admin
      <4>1. setting.kicks /\ m # t
        BY <1>1, <3>2 DEF ReceiversInv, LeavePoints
      <4>2. thread'[m] = thread[m]
        BY <1>1, <1>2, <4>1, Names
      <4>3. sending[m] # <<>> => \A h \in ToSet(sending[m]) :
                saidIn[m] = h \/ (Fails("entered") /\ h \in ToSet(container'[m]))
        BY <2>1, <2>4, <2>5 DEF SendingOK
      <4>4. sending[m] = <<>> => ToSet(sending[m]) = {}
        BY DEF ToSet
      <4> QED
        BY <1>1, <2>2, <2>4, <4>1, <4>2, <4>3, <4>4 DEF SendingOK, Fails
    <3> QED
      BY <3>1, <3>2, Names
  <2>9. \A u \in Members \ {m} : sending'[u] = sending[u]
    BY <1>1
  <2> QED
    BY <1>1, <1>2, <2>2, <2>5, <2>6, <2>7, <2>8, <2>9, OneMember DEF LeavePoints
<1> QED
  BY <1>3, <1>4

-----------------------------------------------------------------------------
(* Messages *)

LEMMA ChatMessageInv ==
    ASSUME IInv, ReceiversInv, NEW m \in Members, ChatMessage(m)
    PROVE  ReceiversInv'
<1>1. /\ m \in Threads /\ thread[m].point = "idle" /\ ~crashed
      /\ UNCHANGED <<group, thread, setting, container>>
      /\ sending' = [sending EXCEPT ![m] = container[m]]
      /\ saidIn' = [saidIn EXCEPT ![m] = group[m]]
  BY Names DEF ChatMessage, At, groupVars, Transmitters!TransmitMessage
<1>2. ReceiversType /\ \A g \in Groups : Registered(m, g)
  BY <1>1 DEF ReceiversInv
<1>3. /\ ReceiversType' /\ sending'[m] = container[m] /\ saidIn'[m] = group[m]
      /\ \A u \in Members \ {m} : sending'[u] = sending[u] /\ saidIn'[u] = saidIn[u]
  BY <1>1, <1>2 DEF ReceiversType, IInv, GroupTypeOK
<1>4. SendingOK(m)'
  <2>1. ToSet(container[m]) \subseteq Groups
    BY <1>2 DEF ReceiversType, ToSet
  <2> QED
    BY <1>1, <1>2, <1>3, <2>1 DEF SendingOK, Registered, Fails
<1>5. \A g \in Groups : Registered(m, g)'
  BY <1>1, <1>2 DEF Registered, Fails
<1> QED
  BY <1>1, <1>3, <1>4, <1>5, OneMember, Names

LEMMA ChatOnMessageInv ==
    ASSUME IInv, ReceiversInv, NEW m \in Members, ChatOnMessage(m)
    PROVE  ReceiversInv'
<1>1. /\ m \in Threads /\ ~crashed /\ sending[m] # <<>>
      /\ UNCHANGED <<group, thread, setting, container>>
      /\ sending' = [sending EXCEPT ![m] = Tail(sending[m])]
      /\ saidIn' = [saidIn EXCEPT
             ![m] = IF sending'[m] = <<>> THEN NoGroup ELSE saidIn[m]]
  BY Names DEF ChatOnMessage, groupVars, Transmitters!ProcessMessage
<1>2. ReceiversType /\ SendingOK(m) /\ \A g \in Groups : Registered(m, g)
  BY <1>1 DEF ReceiversInv
<1>3. /\ Tail(sending[m]) \in Seq(Groups)
      /\ ToSet(Tail(sending[m])) \subseteq ToSet(sending[m])
  BY <1>1, <1>2, TailOne DEF ReceiversType
<1>4. /\ ReceiversType' /\ sending'[m] = Tail(sending[m])
      /\ sending'[m] # <<>> => saidIn'[m] = saidIn[m]
      /\ \A u \in Members \ {m} : sending'[u] = sending[u] /\ saidIn'[u] = saidIn[u]
  BY <1>1, <1>2, <1>3 DEF ReceiversType
<1>5. SendingOK(m)'
  <2>1. CASE sending'[m] = <<>>
    BY <2>1 DEF SendingOK, ToSet
  <2>2. CASE sending'[m] # <<>>
    BY <1>1, <1>2, <1>3, <1>4, <2>2 DEF SendingOK, Fails
  <2> QED
    BY <2>1, <2>2
<1>6. \A g \in Groups : Registered(m, g)'
  BY <1>1, <1>2 DEF Registered, Fails
<1> QED
  BY <1>1, <1>4, <1>5, <1>6, OneMember, Names

-----------------------------------------------------------------------------
(* The theorems about the receivers *)

\* Who is registered with whom, and whom a message under way still goes to.
THEOREM ReceiversInvariant == Spec => []ReceiversInv
<1>1. Init => ReceiversInv
  <2> SUFFICES ASSUME Init PROVE ReceiversInv
    OBVIOUS
  <2>1. /\ container = [m \in Members |-> <<>>] /\ sending = [m \in Members |-> <<>>]
        /\ saidIn = [m \in Members |-> NoGroup]
        /\ group = [m \in Members |-> NoGroup]
        /\ \A t \in Threads : thread[t] = Idle(t)
    BY DEF Init, GroupInit, Transmitters!TransmitterInit
  <2>2. ReceiversType
    BY <2>1 DEF ReceiversType, IsInjective
  <2>3. thread[Admin].point = "idle"
    BY <2>1, IdleType, Names
  <2>4. \A m \in Members : SendingOK(m) /\ \A g \in Groups : Registered(m, g)
    BY <2>1 DEF SendingOK, Registered, ToSet
  <2> QED
    BY <2>2, <2>3, <2>4 DEF ReceiversInv, LeavePoints
<1>2. IInv /\ ReceiversInv /\ [Next]_vars => ReceiversInv'
  <2> SUFFICES ASSUME IInv, ReceiversInv, [Next]_vars PROVE ReceiversInv'
    OBVIOUS
  <2>1. ASSUME NEW m \in Members,
               \/ MemberStep(m) \/ ChatMessage(m)
               \/ \E g \in Groups : Free(m) /\ Enter(m, g) /\ Quiet
        PROVE  ReceiversInv'
    BY <2>1, QuietMemberInv, SetGroupReceivers, ChatEnteredInv, ChatMessageInv,
       ChatOnMessageInv DEF MemberStep
  <2>2. ASSUME NEW t \in Threads,
               \/ ThreadStep(t)
               \/ \E m \in Members, g \in Groups : Free(t) /\ Leave(t, m, g) /\ Quiet
        PROVE  ReceiversInv'
    BY <2>2, QuietThreadInv, ChatLeaveGroupInv DEF ThreadStep
  <2>3. ASSUME \/ \E g \in Groups : \/ LeaveAll(g) /\ Quiet
                                    \/ \E on \in BOOLEAN : Enable(g, on) /\ Quiet
               \/ LeaveAllFirst /\ Quiet
        PROVE  ReceiversInv'
    BY <2>3, QuietAdminInv
  <2>4. CASE UNCHANGED vars
    BY <2>4 DEF vars, groupVars, ReceiversInv, ReceiversType, SendingOK, Registered,
       Fails
  <2> QED
    BY <2>1, <2>2, <2>3, <2>4 DEF Next
<1> QED
  BY <1>1, <1>2, Invariant, PTL DEF Spec

\* The groups, their members' lists and locks, the calls under way and both
\* lists of receivers stay well-formed, whatever the calls and the faults.
THEOREM TypeCorrect == Spec => []TypeOK
<1>1. IInv /\ ReceiversInv => TypeOK
  BY DEF IInv, ReceiversInv, ReceiversType, TypeOK, Transmitters!TransmitterTypeOK
<1> QED
  BY <1>1, Invariant, ReceiversInvariant, PTL

\* Whenever a group's lock is free it is registered, once, with each of its
\* members and, unless on_member_entered threw, with nobody else.
THEOREM ReceiversAreMembers == Spec => []ReceiversAgree
<1>1. IInv /\ ReceiversInv => ReceiversAgree
  <2> SUFFICES ASSUME IInv, ReceiversInv PROVE ReceiversAgree
    OBVIOUS
  <2>1. ASSUME ~crashed, NEW g \in Groups, NEW m \in Members, Unlocked(g)
        PROVE  /\ group[m] = g => g \in ToSet(container[m])
               /\ g \in ToSet(container[m]) => group[m] = g \/ Fails("entered")
    <3>1. Registered(m, g)
      BY <2>1 DEF ReceiversInv
    <3>2. ~(thread[m].point = "entered" /\ thread[m].to = g)
      <4>1. EnterOK(m) /\ m # NoGroup
        BY Names DEF IInv
      <4> QED
        BY <2>1, <4>1 DEF EnterOK, Entering, Unlocked, Nobody
    <3> QED
      BY <3>1, <3>2 DEF Registered
  <2> QED
    BY <2>1, SameLists DEF ReceiversAgree, ReceiversAreGroups, Transmitters!RegisteredOnce,
       ReceiversInv, ReceiversType
<1> QED
  BY <1>1, Invariant, ReceiversInvariant, PTL

\* Though a message goes to receivers copied under the lock, it is heard by the
\* group alone that its member was in when it came, also when the member is made
\* to leave meanwhile, apart from what on_member_entered left registered.
THEOREM OnlyMembersSpeak == Spec => OnlyMembersAreHeard
<1> DEFINE Heard ==
      \A m \in Members : LET g == Head(sending[m]) IN
          sending[m] # <<>> /\ sending'[m] = Tail(sending[m]) =>
          \/ /\ saidIn[m] = g
             /\ group[m] = g \/ (setting.kicks /\ group[m] = NoGroup)
          \/ Fails("entered") /\ g \in ToSet(container[m])
<1>1. ReceiversInv /\ Next => Heard
  <2> SUFFICES ASSUME ReceiversInv, Next, NEW m \in Members,
                      sending[m] # <<>>,
                      ~(Fails("entered") /\ Head(sending[m]) \in ToSet(container[m]))
               PROVE  /\ saidIn[m] = Head(sending[m])
                      /\ \/ group[m] = Head(sending[m])
                         \/ setting.kicks /\ group[m] = NoGroup
    OBVIOUS
  <2>1. ~crashed
    BY DEF Next, MemberStep, ThreadStep, ChatEntered, ChatLeaveGroup, ChatMessage,
       ChatOnMessage, EnterLock, GetGroup, Attach, SetGroup, Entered, EnteredThrows,
       Enter, Leave, LeaveMember, LeaveGroup, Enable, LeaveAll, LeaveAllFirst, MayCall, At
  <2>2. SendingOK(m) /\ sending[m] \in Seq(Groups)
    BY <2>1 DEF ReceiversInv, ReceiversType
  <2>3. Head(sending[m]) \in ToSet(sending[m])
    BY <2>2, TailOne
  <2> QED
    BY <2>2, <2>3 DEF SendingOK
<1>2. ReceiversInv /\ [Next]_vars => [Heard]_vars
  BY <1>1
<1> QED
  BY <1>2, ReceiversInvariant, PTL DEF Spec, OnlyMembersAreHeard
=============================================================================
