-------------------------- MODULE TcpSession_proofs --------------------------
(***************************************************************************)
(* Proofs about TcpSession: type correctness and the holds of the first    *)
(* session for every value of the constants; the stages of an attempt, the *)
(* books and the callback protocol for every socket whose first read can   *)
(* be started, or that is started once.                                    *)
(***************************************************************************)
EXTENDS TcpSession, FiniteSets, FiniteSetTheorems, TLAPS

LEMMA ThreadsOfAttempt ==
    ASSUME NEW k \in Attempts
    PROVE  Conn(k) \in Threads /\ Recv(k) \in Threads
BY DEF Threads, Conn, Recv

LEMMA StartBound ==
    ASSUME TypeOK, Start
    PROVE  attempt + 1 \in Attempts
<1>1. Starts \in 1..MaxAttempts
  BY SettingsAssumption DEF TypeOK, Starts
<1> QED
  BY <1>1, MaxAttemptsAssumption DEF Start, TypeOK, Attempts

LEMMA GotoType ==
    ASSUME TypeOK, NEW t \in Threads, NEW p \in ConnPoints \cup RecvPoints,
           Goto(t, p)
    PROVE  pc' \in [Threads -> ConnPoints \cup RecvPoints]
BY DEF TypeOK, Goto

\* A thread goes on to one of its own points.
LEMMA GotoPlace ==
    ASSUME TypeOK, NEW t \in Threads, NEW p \in Points(t), Goto(t, p)
    PROVE  InPlace'
BY DEF TypeOK, InPlace, Goto, Points

LEMMA OwnPoints ==
    ASSUME NEW k \in Attempts
    PROVE  /\ Conn(k) \in Threads /\ Recv(k) \in Threads
           /\ Points(Conn(k)) = ConnPoints /\ Points(Recv(k)) = RecvPoints
BY ThreadsOfAttempt DEF Points, Conn, Recv

LEMMA ConnPlace ==
    ASSUME TypeOK, NEW k \in Attempts, ConnStep(k)
    PROVE  InPlace'
<1> USE OwnPoints
<1>1. CASE ArmFirst(k)
  <2>1. CASE /\ HoldSelf
             /\ pc' = [pc EXCEPT ![Conn(k)] = "count", ![Recv(k)] = "pending"]
    <3>1. \A t \in Threads :
             \/ pc'[t] = "count" /\ t = Conn(k)
             \/ pc'[t] = "pending" /\ t = Recv(k)
             \/ pc'[t] = pc[t]
      BY <2>1 DEF TypeOK
    <3>2. "count" \in ConnPoints /\ "pending" \in RecvPoints
      BY DEF ConnPoints, RecvPoints
    <3> QED
      BY <3>1, <3>2 DEF TypeOK, InPlace
  <2>2. CASE Goto(Conn(k), Catch) \/ Goto(Conn(k), "close_handle")
    BY <2>2, GotoPlace DEF ConnPoints, ClosePoints, Catch
  <2> QED
    BY <1>1, <2>1, <2>2 DEF ArmFirst
<1>2. CASE ~ArmFirst(k)
  <2>1. \E p \in ConnPoints : Goto(Conn(k), p)
    BY <1>2 DEF ConnStep, Register, RequestConnect, ConnectCompletes, CompleteConnect,
       OnConnect, CountSuccess, FailConnect, FailUnregister, FailNone, FailClose,
       Catch, ConnPoints
  <2> QED
    BY <2>1, GotoPlace
<1> QED
  BY <1>1, <1>2

LEMMA RecvPlace ==
    ASSUME TypeOK, NEW k \in Attempts, RecvStep(k) \/ ReadCompletes(k)
    PROVE  InPlace'
<1>1. \E p \in RecvPoints : Goto(Recv(k), p)
  BY DEF RecvStep, ReadCompletes, ReceiveError, Deliver, Rearm, Release, RecvPoints,
     ClosePoints
<1> QED
  BY <1>1, OwnPoints, GotoPlace

LEMMA ClosePlace ==
    ASSUME TypeOK, NEW t \in Threads, CloseStep(t)
    PROVE  InPlace'
<1>1. AfterClose(t) \in Points(t) /\ ClosePoints \subseteq Points(t)
  <2>1. t[1] \in {"conn", "recv"}
    BY DEF Threads
  <2> QED
    BY <2>1 DEF AfterClose, Points, Catch, ConnPoints, RecvPoints
<1>2. \E p \in ClosePoints \cup {AfterClose(t)} : Goto(t, p)
  BY DEF CloseStep, CloseHandle, CloseCas, CloseNotify, CloseUnregister, CloseNone,
     ClosePoints
<1> QED
  BY <1>1, <1>2, GotoPlace

LEMMA TellType ==
    ASSUME TypeOK, NEW k \in Attempts, NEW c \in Callbacks, Tell(k, c)
    PROVE  heard' \in [Attempts -> Seq(Callbacks)]
BY DEF TypeOK, Tell

LEMMA ConnStepType ==
    ASSUME TypeOK, NEW k \in Attempts, ConnStep(k)
    PROVE  TypeOK'
<1>0. InPlace'
  BY ConnPlace
<1> USE <1>0
<1> USE MaxAttemptsAssumption, ThreadsOfAttempt DEF TypeOK, At, Goto
<1>1. CASE Register(k)
  BY <1>1 DEF Register, ConnPoints
<1>2. CASE RequestConnect(k)
  <2>1. k \in 0..MaxAttempts
    BY DEF Attempts
  <2> QED
    BY <1>2, <2>1 DEF RequestConnect, ConnPoints
<1>3. CASE ConnectCompletes(k)
  BY <1>3 DEF ConnectCompletes, ConnPoints
<1>4. CASE CompleteConnect(k)
  BY <1>4 DEF CompleteConnect, ConnPoints, SocketStates
<1>5. CASE OnConnect(k)
  <2>1. heard' \in [Attempts -> Seq(Callbacks)]
    BY <1>5, TellType DEF OnConnect, Callbacks
  <2>2. {Catch, "arm"} \subseteq ConnPoints
    BY DEF ConnPoints, Catch
  <2>3. pc' \in [Threads -> ConnPoints \cup RecvPoints]
    BY <1>5, <2>2 DEF OnConnect
  <2>4. handle' \in 0..MaxAttempts
    BY <1>5 DEF OnConnect
  <2> QED
    BY <1>5, <2>1, <2>3, <2>4 DEF OnConnect
<1>6. CASE ArmFirst(k)
  BY <1>6 DEF ArmFirst, ConnPoints, RecvPoints, ClosePoints, HoldSelf, Catch
<1>7. CASE CountSuccess(k)
  BY <1>7 DEF CountSuccess, ConnPoints
<1>8. CASE FailConnect(k)
  BY <1>8 DEF FailConnect, ConnPoints, Tell, Callbacks
<1>9. CASE FailUnregister(k)
  BY <1>9 DEF FailUnregister, ConnPoints
<1>10. CASE FailNone(k)
  BY <1>10 DEF FailNone, ConnPoints, SocketStates
<1>11. CASE FailClose(k)
  BY <1>11 DEF FailClose, ConnPoints
<1> QED
  BY <1>1, <1>2, <1>3, <1>4, <1>5, <1>6, <1>7, <1>8, <1>9, <1>10, <1>11
     DEF ConnStep

LEMMA RecvStepType ==
    ASSUME TypeOK, NEW k \in Attempts, RecvStep(k) \/ ReadCompletes(k)
    PROVE  TypeOK'
<1>0. InPlace'
  BY RecvPlace
<1> USE <1>0
<1> USE MaxAttemptsAssumption, ThreadsOfAttempt DEF TypeOK, At, Goto
<1>1. CASE ReceiveError(k)
  BY <1>1 DEF ReceiveError, RecvPoints, ClosePoints
<1>2. CASE Deliver(k)
  <2>1. heard' \in [Attempts -> Seq(Callbacks)]
    BY <1>2, TellType DEF Deliver, TellMessage, Callbacks
  <2> QED
    BY <1>2, <2>1 DEF Deliver, RecvPoints, ClosePoints, MoveHold
<1>3. CASE Rearm(k)
  BY <1>3 DEF Rearm, RecvPoints, ClosePoints, HoldSelf
<1>4. CASE Release(k)
  BY <1>4 DEF Release, RecvPoints, ReleaseHold
<1>5. CASE ReadCompletes(k)
  BY <1>5 DEF ReadCompletes, RecvPoints
<1> QED
  BY <1>1, <1>2, <1>3, <1>4, <1>5 DEF RecvStep

LEMMA CloseStepType ==
    ASSUME TypeOK, NEW t \in Threads, CloseStep(t)
    PROVE  TypeOK'
<1>0. InPlace'
  BY ClosePlace
<1> USE <1>0
<1> USE MaxAttemptsAssumption
    DEF TypeOK, At, Goto, ConnPoints, RecvPoints, ClosePoints
<1>1. CASE CloseHandle(t)
  BY <1>1 DEF CloseHandle
<1>2. CASE CloseCas(t)
  BY <1>2 DEF CloseCas, SocketStates, AfterClose, Catch
<1>3. CASE CloseNotify(t)
  <2>1. t[2] \in Attempts
    BY DEF Threads
  <2> QED
    BY <1>3, <2>1 DEF CloseNotify, Tell, Callbacks
<1>4. CASE CloseUnregister(t)
  BY <1>4 DEF CloseUnregister
<1>5. CASE CloseNone(t)
  BY <1>5 DEF CloseNone, SocketStates, AfterClose, Catch
<1> QED
  BY <1>1, <1>2, <1>3, <1>4, <1>5 DEF CloseStep

\* Every reachable state has its type, whatever the faults and the number of
\* attempts.
THEOREM TypeCorrect == Spec => []TypeOK
<1>1. Init => TypeOK
  <2> SUFFICES ASSUME Init PROVE TypeOK
    OBVIOUS
  <2>1. <<>> \in Seq(Callbacks)
    OBVIOUS
  <2>2. heard \in [Attempts -> Seq(Callbacks)]
    BY <2>1 DEF Init
  <2>3. pc \in [Threads -> ConnPoints \cup RecvPoints]
    BY DEF Init, ConnPoints
  <2>4. localHold \in [Attempts -> BOOLEAN]
    BY DEF Init
  <2>6. InPlace
    BY DEF Init, InPlace, Points, ConnPoints, RecvPoints
  <2>5. /\ handle \in 0..MaxAttempts
        /\ attempt \in 0..MaxAttempts
        /\ keep \in Int
    BY MaxAttemptsAssumption DEF Init
  <2> QED
    BY <2>2, <2>3, <2>4, <2>5, <2>6 DEF Init, TypeOK, SocketStates
<1>2. TypeOK /\ [Next]_vars => TypeOK'
  <2> SUFFICES ASSUME TypeOK, [Next]_vars PROVE TypeOK'
    OBVIOUS
  <2>1. CASE Start
    <3>1. attempt + 1 \in Attempts
      BY <2>1, StartBound
    <3>2. InPlace'
      BY <2>1, <3>1, OwnPoints, GotoPlace DEF Start, ConnPoints
    <3> QED
      BY <2>1, <3>1, <3>2, ThreadsOfAttempt, MaxAttemptsAssumption
         DEF Start, TypeOK, SocketStates, ConnPoints, Goto, Tell, Callbacks,
             Attempts
  <2>2. CASE CloseSocket
    BY <2>2, MaxAttemptsAssumption DEF CloseSocket, TypeOK, InPlace
  <2>3. CASE DropRef
    BY <2>3 DEF DropRef, TypeOK, InPlace
  <2>4. CASE Destroy
    BY <2>4, MaxAttemptsAssumption DEF Destroy, TypeOK, SocketStates, InPlace
  <2>5. CASE \E k \in Attempts : ConnStep(k) \/ RecvStep(k) \/ ReadCompletes(k)
    BY <2>5, ConnStepType, RecvStepType
  <2>6. CASE \E t \in Threads : CloseStep(t)
    BY <2>6, CloseStepType
  <2>7. CASE UNCHANGED vars
    BY <2>7 DEF vars, TypeOK, InPlace
  <2> QED
    BY <2>1, <2>2, <2>3, <2>4, <2>5, <2>6, <2>7 DEF Next
<1> QED
  BY <1>1, <1>2, PTL DEF Spec

-----------------------------------------------------------------------------
(* The stages of an attempt *)

\* A socket whose first read may fail to start is started once: the roll-back
\* of such an attempt goes on after the socket may be started again.
ArmsStartOnce == \A s \in Settings : "arm" \in s.faults => s.starts = 1

LEMMA StagesDoApply ==
    ASSUME ArmsStartOnce, TypeOK
    PROVE  StagesApply
BY DEF ArmsStartOnce, TypeOK, StagesApply, Faults, Starts

\* A step leaves what the setting says.
LEMMA SettingStays ==
    ASSUME UNCHANGED setting
    PROVE  /\ Connector' = Connector
           /\ Starts' = Starts
           /\ MayDrop' = MayDrop
           /\ Faults' = Faults
           /\ Reports' = Reports
BY DEF Connector, Starts, MayDrop, Faults, Reports

LEMMA SettingIsFixed ==
    ASSUME [Next]_vars
    PROVE  UNCHANGED setting
BY DEF Next, Start, CloseSocket, DropRef, Destroy, ConnStep, Register,
   RequestConnect, ConnectCompletes, CompleteConnect, OnConnect, ArmFirst,
   CountSuccess, FailConnect, FailUnregister, FailNone, FailClose, RecvStep,
   ReceiveError, Deliver, Rearm, Release, ReadCompletes, CloseStep, CloseHandle,
   CloseCas, CloseNotify, CloseUnregister, CloseNone, vars

\* A thread that can step is one of the current attempt, or ends an old one.
LEMMA ActiveIsCurrent ==
    ASSUME TypeOK, IInv, NEW k \in Attempts
    PROVE  /\ pc[Conn(k)] \notin {"idle", "fail_close", "count", "done"} => k = attempt
           /\ pc[Recv(k)] \notin {"idle", "release", "done"} => k = attempt
BY DEF TypeOK, IInv, AttemptsInTurn, Over, Attempts

\* The stage of the current attempt, as long as the object lives.
LEMMA CurrentStage ==
    ASSUME TypeOK, IInv, ~destroyed, attempt \in Attempts
    PROVE  Stage(attempt)
BY DEF TypeOK, IInv, Attempts

\* Where the connecting thread is tells the stage.
LEMMA ConnTells ==
    ASSUME TypeOK, IInv, ~destroyed, NEW k \in Attempts
    PROVE  /\ pc[Conn(k)] \in {"register", "connect", "pending", "ok", "err"}
              => k = attempt /\ Connecting(k)
           /\ pc[Conn(k)] \in {"on_connect", "arm"} => k = attempt /\ Opening(k)
           /\ pc[Conn(k)] = "fail"
              => k = attempt /\ (Opening(k) \/ RollingBack(k))
           /\ pc[Conn(k)] \in {"fail_unregister", "fail_none"}
              => k = attempt /\ (Failing(k) \/ RollingBack(k))
           /\ pc[Conn(k)] \in ClosePoints => k = attempt /\ RollingBack(k)
<1> SUFFICES ASSUME pc[Conn(k)] \notin {"idle", "fail_close", "count", "done"}
             PROVE  k = attempt /\ (\/ Connecting(k) \/ Failing(k) \/ Opening(k)
                                    \/ RollingBack(k))
  BY DEF Connecting, Failing, Opening, RollingBack, ClosePoints
<1>1. k = attempt /\ Stage(k)
  BY ActiveIsCurrent, CurrentStage
<1> QED
  BY <1>1 DEF Stage, Receiving, Closing, Closed, Stuck, Over

\* And so does where the receive handler is.
LEMMA RecvTells ==
    ASSUME TypeOK, IInv, ~destroyed, NEW k \in Attempts
    PROVE  /\ pc[Recv(k)] \in {"pending", "ok", "err", "rearm", "close_handle",
                               "close_cas", "close_notify"}
              => k = attempt /\ Receiving(k)
           /\ pc[Recv(k)] \in {"close_unregister", "close_none"}
              => k = attempt /\ Closing(k)
<1> SUFFICES ASSUME pc[Recv(k)] \notin {"idle", "release", "done"}
             PROVE  k = attempt /\ (Receiving(k) \/ Closing(k))
  BY DEF Receiving, Closing
<1>1. k = attempt /\ Stage(k)
  BY ActiveIsCurrent, CurrentStage
<1> QED
  BY <1>1 DEF Stage, Connecting, Failing, Opening, RollingBack, Closed, Stuck, Over

\* What Goto and Tell change, spelt out for the threads and the attempts.
LEMMA GotoConn ==
    ASSUME TypeOK, NEW k \in Attempts, NEW p, Goto(Conn(k), p)
    PROVE  /\ pc'[Conn(k)] = p
           /\ \A j \in Attempts \ {k} : pc'[Conn(j)] = pc[Conn(j)]
           /\ \A j \in Attempts : pc'[Recv(j)] = pc[Recv(j)]
BY DEF TypeOK, Goto, Conn, Recv, Threads

LEMMA GotoRecv ==
    ASSUME TypeOK, NEW k \in Attempts, NEW p, Goto(Recv(k), p)
    PROVE  /\ pc'[Recv(k)] = p
           /\ \A j \in Attempts \ {k} : pc'[Recv(j)] = pc[Recv(j)]
           /\ \A j \in Attempts : pc'[Conn(j)] = pc[Conn(j)]
BY DEF TypeOK, Goto, Conn, Recv, Threads

LEMMA AppendLast ==
    ASSUME NEW S, NEW s \in Seq(S), NEW c \in S
    PROVE  /\ Append(s, c) # <<>>
           /\ Append(s, c)[Len(Append(s, c))] = c
OBVIOUS

LEMMA TellLast ==
    ASSUME TypeOK, NEW k \in Attempts, NEW c \in Callbacks, Tell(k, c)
    PROVE  /\ heard'[k] # <<>> /\ heard'[k][Len(heard'[k])] = c
           /\ \A j \in Attempts \ {k} : heard'[j] = heard[j]
<1>1. heard'[k] = Append(heard[k], c)
  BY DEF TypeOK, Tell
<1>2. heard[k] \in Seq(Callbacks)
  BY DEF TypeOK
<1>3. \A j \in Attempts \ {k} : heard'[j] = heard[j]
  BY DEF TypeOK, Tell
<1> QED
  BY <1>1, <1>2, <1>3, AppendLast

\* The other attempts do not notice a step of attempt k.
OthersStay(k) ==
    \A j \in Attempts \ {k} : /\ pc'[Conn(j)] = pc[Conn(j)]
                              /\ pc'[Recv(j)] = pc[Recv(j)]
                              /\ heard'[j] = heard[j]

\* What is left to show for a step of the current attempt.
LEMMA StepInv ==
    ASSUME TypeOK, IInv, NEW k \in Attempts, k = attempt, ~destroyed,
           UNCHANGED <<attempt, appRef, destroyed, setting>>,
           OthersStay(k), Stage(k)'
    PROVE  IInv'
<1>1. k # 0
  BY DEF Attempts
<1>2. AttemptsInTurn'
  BY DEF TypeOK, IInv, AttemptsInTurn, Over, Attempts, OthersStay
<1>3. Stage(attempt)'
  BY DEF Stage, Connecting, Failing, Opening, RollingBack, Receiving, Closing,
         Closed, Stuck, Over, LastIn, Listed
<1> QED
  BY <1>1, <1>2, <1>3, SettingStays DEF IInv

\* A stage takes notice of the handle only to have it closed.
LEMMA ClosingKeepsStage ==
    ASSUME NEW k \in Attempts, Stage(k), handle' \in {handle, 0},
           UNCHANGED <<sockState, registered, attempt, heard, destroyed, setting>>,
           \/ pc'[Conn(k)] = pc[Conn(k)]
           \/ pc[Conn(k)] \in {"count", "fail_close"} /\ pc'[Conn(k)] = "done",
           \/ pc'[Recv(k)] = pc[Recv(k)]
           \/ pc[Recv(k)] = "release" /\ pc'[Recv(k)] = "done"
    PROVE  Stage(k)'
<1> USE SettingStays DEF LastIn, Listed, MayUnlist
<1>1. CASE Connecting(k) \/ Opening(k) \/ Failing(k)
  BY <1>1 DEF Stage, Connecting, Opening, Failing
<1>2. CASE RollingBack(k)
  BY <1>2 DEF Stage, RollingBack, ClosePoints
<1>3. CASE Receiving(k) \/ Closing(k)
  BY <1>3 DEF Stage, Receiving, Closing
<1>4. CASE Closed(k) \/ Stuck(k)
  BY <1>4 DEF Stage, Closed, Stuck, Over
<1> QED
  BY <1>1, <1>2, <1>3, <1>4 DEF Stage

\* A step that closes the handle at most, or the last one of a completion
\* handler, perhaps long after its attempt: no stage can tell.
LEMMA QuietStep ==
    ASSUME TypeOK, IInv, handle' \in {handle, 0},
           UNCHANGED <<sockState, registered, attempt, heard, destroyed, setting>>,
           MayDrop \/ appRef',
           \A j \in Attempts :
              /\ \/ pc'[Conn(j)] = pc[Conn(j)]
                 \/ pc[Conn(j)] \in {"count", "fail_close"} /\ pc'[Conn(j)] = "done"
              /\ \/ pc'[Recv(j)] = pc[Recv(j)]
                 \/ pc[Recv(j)] = "release" /\ pc'[Recv(j)] = "done"
    PROVE  IInv'
<1>1. AttemptsInTurn'
  BY DEF IInv, AttemptsInTurn, Over
<1>2. attempt # 0 /\ ~destroyed => Stage(attempt)'
  <2> SUFFICES ASSUME attempt # 0, ~destroyed PROVE Stage(attempt)'
    OBVIOUS
  <2>1. PICK k \in Attempts : k = attempt
    BY DEF TypeOK, Attempts
  <2>2. Stage(k)'
    BY <2>1, CurrentStage, ClosingKeepsStage
  <2> QED
    BY <2>1, <2>2
       DEF Stage, Connecting, Failing, Opening, RollingBack, Receiving, Closing,
           Closed, Stuck, Over, LastIn, Listed
<1> QED
  BY <1>1, <1>2, SettingStays DEF IInv

LEMMA ConnStepInv ==
    ASSUME TypeOK, IInv, NEW k \in Attempts, ConnStep(k)
    PROVE  IInv'
<1> USE SettingStays DEF At, Listed, LastIn
<1>1. CASE Register(k)
  <2>1. k = attempt /\ Connecting(k)
    BY <1>1, ConnTells DEF Register
  <2>2. OthersStay(k)
    BY <1>1, GotoConn DEF Register, OthersStay
  <2>3. Connecting(k)'
    BY <1>1, <2>1, GotoConn DEF Register, Connecting
  <2> QED
    BY <1>1, <2>1, <2>2, <2>3, StepInv DEF Register, Stage
<1>2. CASE RequestConnect(k)
  <2>1. k = attempt /\ Connecting(k)
    BY <1>2, ConnTells DEF RequestConnect
  <2>2. OthersStay(k)
    BY <1>2, GotoConn DEF RequestConnect, OthersStay
  <2>3. Connecting(k)'
    BY <1>2, <2>1, GotoConn DEF RequestConnect, Connecting
  <2> QED
    BY <1>2, <2>1, <2>2, <2>3, StepInv DEF RequestConnect, Stage
<1>3. CASE ConnectCompletes(k)
  <2>1. k = attempt /\ Connecting(k)
    BY <1>3, ConnTells DEF ConnectCompletes
  <2>2. OthersStay(k)
    BY <1>3, GotoConn DEF ConnectCompletes, OthersStay
  <2>3. Connecting(k)'
    BY <1>3, <2>1, GotoConn DEF ConnectCompletes, Connecting
  <2> QED
    BY <1>3, <2>1, <2>2, <2>3, StepInv DEF ConnectCompletes, Stage
<1>4. CASE CompleteConnect(k)
  <2>1. k = attempt /\ Connecting(k)
    BY <1>4, ConnTells DEF CompleteConnect
  <2>2. OthersStay(k)
    BY <1>4, GotoConn DEF CompleteConnect, OthersStay
  <2>3. Opening(k)' \/ Stuck(k)'
    BY <1>4, <2>1, GotoConn
       DEF CompleteConnect, Connecting, Opening, Stuck, Over
  <2> QED
    BY <1>4, <2>1, <2>2, <2>3, StepInv DEF CompleteConnect, Stage
<1>5. CASE OnConnect(k)
  <2>1. k = attempt /\ Opening(k)
    BY <1>5, ConnTells DEF OnConnect
  <2>2. OthersStay(k) /\ LastIn(k, {"connect"})'
    BY <1>5, GotoConn, TellLast DEF OnConnect, OthersStay, Callbacks
  <2>3. CASE Goto(Conn(k), "arm")
    <3>1. Opening(k)'
      BY <1>5, <2>1, <2>2, <2>3, GotoConn DEF OnConnect, Opening
    <3> QED
      BY <1>5, <2>1, <2>2, <3>1, StepInv DEF OnConnect, Stage
  <2>4. CASE OnConnectFault \in Faults /\ Goto(Conn(k), Catch) /\ handle' = 0
    <3>1. IF Connector THEN Opening(k)' ELSE Failing(k)'
      BY <1>5, <2>1, <2>2, <2>4, GotoConn
         DEF OnConnect, Opening, Failing, MayUnlist, Catch, OnConnectFault, Reports
    <3> QED
      BY <1>5, <2>1, <2>2, <3>1, StepInv DEF OnConnect, Stage
  <2> QED
    BY <1>5, <2>3, <2>4 DEF OnConnect
<1>6. CASE ArmFirst(k)
  <2>1. k = attempt /\ Opening(k)
    BY <1>6, ConnTells DEF ArmFirst
  <2>2. CASE "alloc" \in Faults /\ Goto(Conn(k), Catch)
    <3>1. OthersStay(k)
      BY <1>6, <2>2, GotoConn DEF ArmFirst, OthersStay
    <3>2. IF Connector THEN Opening(k)' ELSE Failing(k)'
      BY <1>6, <2>1, <2>2, GotoConn
         DEF ArmFirst, Opening, Failing, MayUnlist, Catch, Reports
    <3> QED
      BY <1>6, <2>1, <3>1, <3>2, StepInv DEF ArmFirst, Stage
  <2>3. CASE pc' = [pc EXCEPT ![Conn(k)] = "count", ![Recv(k)] = "pending"]
    <3>1. /\ pc'[Conn(k)] = "count" /\ pc'[Recv(k)] = "pending"
          /\ \A j \in Attempts \ {k} : /\ pc'[Conn(j)] = pc[Conn(j)]
                                      /\ pc'[Recv(j)] = pc[Recv(j)]
      BY <2>3 DEF TypeOK, Threads, Conn, Recv
    <3>2. OthersStay(k)
      BY <1>6, <3>1 DEF ArmFirst, OthersStay
    <3>3. Receiving(k)'
      BY <1>6, <2>1, <3>1 DEF ArmFirst, Opening, Receiving
    <3> QED
      BY <1>6, <2>1, <3>2, <3>3, StepInv DEF ArmFirst, Stage
  <2>4. CASE "arm" \in Faults /\ Goto(Conn(k), "close_handle")
    <3>1. OthersStay(k)
      BY <1>6, <2>4, GotoConn DEF ArmFirst, OthersStay
    <3>2. RollingBack(k)'
      BY <1>6, <2>1, <2>4, GotoConn
         DEF ArmFirst, Opening, RollingBack, ClosePoints
    <3> QED
      BY <1>6, <2>1, <3>1, <3>2, StepInv DEF ArmFirst, Stage
  <2> QED
    BY <1>6, <2>2, <2>3, <2>4 DEF ArmFirst
<1>7. CASE CountSuccess(k) \/ FailClose(k)
  <2>1. /\ pc[Conn(k)] \in {"count", "fail_close"} /\ Goto(Conn(k), "done")
        /\ handle' \in {handle, 0}
    BY <1>7 DEF CountSuccess, FailClose
  <2> QED
    BY <1>7, <2>1, GotoConn, QuietStep DEF CountSuccess, FailClose, IInv
<1>8. CASE FailConnect(k)
  <2>1. k = attempt /\ (Connecting(k) \/ Opening(k) \/ RollingBack(k))
    BY <1>8, ConnTells DEF FailConnect
  <2>2. OthersStay(k) /\ LastIn(k, {"fail"})'
    BY <1>8, GotoConn, TellLast DEF FailConnect, OthersStay, Callbacks
  <2>3. CASE Connecting(k) \/ Opening(k)
    <3>1. Failing(k)'
      BY <1>8, <2>2, <2>3, GotoConn
         DEF FailConnect, Connecting, Opening, Failing, MayUnlist
    <3> QED
      BY <1>8, <2>1, <2>2, <3>1, StepInv DEF FailConnect, Stage
  <2>4. CASE RollingBack(k)
    <3>1. RollingBack(k)'
      BY <1>8, <2>4, GotoConn DEF FailConnect, RollingBack, ClosePoints
    <3> QED
      BY <1>8, <2>1, <2>2, <3>1, StepInv DEF FailConnect, Stage
  <2> QED
    BY <2>1, <2>3, <2>4
<1>9. CASE FailUnregister(k)
  <2>1. k = attempt /\ (Failing(k) \/ RollingBack(k))
    BY <1>9, ConnTells DEF FailUnregister
  <2>2. OthersStay(k)
    BY <1>9, GotoConn DEF FailUnregister, OthersStay
  <2>3. Failing(k)' \/ RollingBack(k)'
    BY <1>9, <2>1, GotoConn
       DEF FailUnregister, Failing, RollingBack, MayUnlist, ClosePoints
  <2> QED
    BY <1>9, <2>1, <2>2, <2>3, StepInv DEF FailUnregister, Stage
<1>10. CASE FailNone(k)
  <2>1. k = attempt /\ (Failing(k) \/ RollingBack(k))
    BY <1>10, ConnTells DEF FailNone
  <2>2. OthersStay(k)
    BY <1>10, GotoConn DEF FailNone, OthersStay
  <2>3. ~registered /\ pc[Recv(k)] = "idle" /\ (Reports => LastIn(k, {"fail"}))
    BY <1>10, <2>1 DEF FailNone, Failing, RollingBack, Reports
  <2>4. Closed(k)'
    BY <1>10, <2>3, GotoConn DEF FailNone, Closed, Over
  <2> QED
    BY <1>10, <2>1, <2>2, <2>4, StepInv DEF FailNone, Stage
<1> QED
  BY <1>1, <1>2, <1>3, <1>4, <1>5, <1>6, <1>7, <1>8, <1>9, <1>10 DEF ConnStep

LEMMA RecvStepInv ==
    ASSUME TypeOK, IInv, NEW k \in Attempts, RecvStep(k) \/ ReadCompletes(k)
    PROVE  IInv'
<1> USE SettingStays DEF At, Listed, LastIn
<1>1. CASE ReceiveError(k)
  <2>1. k = attempt /\ Receiving(k)
    BY <1>1, RecvTells DEF ReceiveError
  <2>2. OthersStay(k)
    BY <1>1, GotoRecv DEF ReceiveError, OthersStay
  <2>3. Receiving(k)'
    BY <1>1, <2>1, GotoRecv DEF ReceiveError, Receiving
  <2> QED
    BY <1>1, <2>1, <2>2, <2>3, StepInv DEF ReceiveError, Stage
<1>2. CASE Deliver(k)
  <2>1. k = attempt /\ Receiving(k)
    BY <1>2, RecvTells DEF Deliver
  <2>2. OthersStay(k)
    BY <1>2, GotoRecv, TellLast DEF Deliver, OthersStay, Callbacks, TellMessage
  <2>3. Receiving(k)'
    BY <1>2, <2>1, GotoRecv, TellLast
       DEF Deliver, Receiving, Callbacks, TellMessage
  <2> QED
    BY <1>2, <2>1, <2>2, <2>3, StepInv DEF Deliver, Stage
<1>3. CASE Rearm(k)
  <2>1. k = attempt /\ Receiving(k)
    BY <1>3, RecvTells DEF Rearm
  <2>2. OthersStay(k)
    BY <1>3, GotoRecv DEF Rearm, OthersStay
  <2>3. Receiving(k)'
    BY <1>3, <2>1, GotoRecv DEF Rearm, Receiving
  <2> QED
    BY <1>3, <2>1, <2>2, <2>3, StepInv DEF Rearm, Stage
<1>4. CASE Release(k)
  BY <1>4, GotoRecv, QuietStep DEF Release, IInv
<1>5. CASE ReadCompletes(k)
  <2>1. k = attempt /\ Receiving(k)
    BY <1>5, RecvTells DEF ReadCompletes
  <2>2. OthersStay(k)
    BY <1>5, GotoRecv DEF ReadCompletes, OthersStay
  <2>3. Receiving(k)'
    BY <1>5, <2>1, GotoRecv DEF ReadCompletes, Receiving
  <2> QED
    BY <1>5, <2>1, <2>2, <2>3, StepInv DEF ReadCompletes, Stage
<1> QED
  BY <1>1, <1>2, <1>3, <1>4, <1>5 DEF RecvStep

\* process_closesocket, run by the receive handler.
LEMMA CloseRecvInv ==
    ASSUME TypeOK, IInv, NEW k \in Attempts, CloseStep(Recv(k))
    PROVE  IInv'
<1> USE SettingStays DEF At, Listed, LastIn
<1>1. CASE CloseHandle(Recv(k))
  <2>1. k = attempt /\ Receiving(k)
    BY <1>1, RecvTells DEF CloseHandle
  <2>2. OthersStay(k)
    BY <1>1, GotoRecv DEF CloseHandle, OthersStay
  <2>3. Receiving(k)'
    BY <1>1, <2>1, GotoRecv DEF CloseHandle, Receiving
  <2> QED
    BY <1>1, <2>1, <2>2, <2>3, StepInv DEF CloseHandle, Stage
<1>2. CASE CloseCas(Recv(k))
  <2>1. k = attempt /\ Receiving(k)
    BY <1>2, RecvTells DEF CloseCas
  <2>2. OthersStay(k)
    BY <1>2, GotoRecv DEF CloseCas, OthersStay
  <2>3. Receiving(k)' \/ Stuck(k)'
    BY <1>2, <2>1, GotoRecv
       DEF CloseCas, Receiving, Stuck, Over, AfterClose, Recv
  <2> QED
    BY <1>2, <2>1, <2>2, <2>3, StepInv DEF CloseCas, Stage
<1>3. CASE CloseNotify(Recv(k))
  <2>1. k = attempt /\ Receiving(k)
    BY <1>3, RecvTells DEF CloseNotify
  <2>2. Tell(k, "disconnect")
    BY <1>3 DEF CloseNotify, Recv
  <2>3. OthersStay(k)
    BY <1>3, <2>2, GotoRecv, TellLast DEF CloseNotify, OthersStay, Callbacks
  <2>4. Closing(k)'
    BY <1>3, <2>1, <2>2, GotoRecv, TellLast
       DEF CloseNotify, Receiving, Closing, Callbacks
  <2> QED
    BY <1>3, <2>1, <2>3, <2>4, StepInv DEF CloseNotify, Stage
<1>4. CASE CloseUnregister(Recv(k))
  <2>1. k = attempt /\ Closing(k)
    BY <1>4, RecvTells DEF CloseUnregister
  <2>2. OthersStay(k)
    BY <1>4, GotoRecv DEF CloseUnregister, OthersStay
  <2>3. Closing(k)'
    BY <1>4, <2>1, GotoRecv DEF CloseUnregister, Closing
  <2> QED
    BY <1>4, <2>1, <2>2, <2>3, StepInv DEF CloseUnregister, Stage
<1>5. CASE CloseNone(Recv(k))
  <2>1. k = attempt /\ Closing(k)
    BY <1>5, RecvTells DEF CloseNone
  <2>2. OthersStay(k)
    BY <1>5, GotoRecv DEF CloseNone, OthersStay
  <2>3. Closed(k)'
    BY <1>5, <2>1, GotoRecv DEF CloseNone, Closing, Closed, Over, AfterClose, Recv
  <2> QED
    BY <1>5, <2>1, <2>2, <2>3, StepInv DEF CloseNone, Stage
<1> QED
  BY <1>1, <1>2, <1>3, <1>4, <1>5 DEF CloseStep

\* process_closesocket, run because the first read could not be started.
LEMMA CloseConnInv ==
    ASSUME TypeOK, IInv, NEW k \in Attempts, CloseStep(Conn(k))
    PROVE  IInv'
<1> USE SettingStays DEF At, Listed
<1>1. k = attempt /\ RollingBack(k) /\ ~destroyed
  BY ConnTells DEF CloseStep, CloseHandle, CloseCas, CloseNotify,
                   CloseUnregister, CloseNone, ClosePoints
<1>2. PICK p : Goto(Conn(k), p)
  BY DEF CloseStep, CloseHandle, CloseCas, CloseNotify, CloseUnregister, CloseNone
<1>3. UNCHANGED <<attempt, appRef, destroyed, setting>>
  BY DEF CloseStep, CloseHandle, CloseCas, CloseNotify, CloseUnregister, CloseNone
<1>4. UNCHANGED heard \/ Tell(k, "disconnect")
  BY DEF CloseStep, CloseHandle, CloseCas, CloseNotify, CloseUnregister,
         CloseNone, Conn
<1>5. OthersStay(k)
  BY <1>2, <1>4, GotoConn, TellLast DEF OthersStay, Callbacks
<1>6. AfterClose(Conn(k)) \in {"fail", "fail_none"} /\ (AfterClose(Conn(k)) = "fail" <=> Connector)
  BY DEF AfterClose, Catch, Conn
<1>7. RollingBack(k)'
  <2>1. pc'[Recv(k)] = pc[Recv(k)] /\ pc'[Conn(k)] = p
    BY <1>2, GotoConn
  <2>2. CASE CloseHandle(Conn(k))
    BY <1>1, <2>1, <2>2, GotoConn DEF CloseHandle, RollingBack, ClosePoints
  <2>3. CASE CloseCas(Conn(k))
    BY <1>1, <1>6, <2>1, <2>3, GotoConn DEF CloseCas, RollingBack, ClosePoints
  <2>4. CASE CloseNotify(Conn(k))
    BY <1>1, <2>1, <2>4, GotoConn DEF CloseNotify, RollingBack, ClosePoints
  <2>5. CASE CloseUnregister(Conn(k))
    BY <1>1, <2>1, <2>5, GotoConn DEF CloseUnregister, RollingBack, ClosePoints
  <2>6. CASE CloseNone(Conn(k))
    BY <1>1, <1>6, <2>1, <2>6, GotoConn DEF CloseNone, RollingBack, ClosePoints
  <2> QED
    BY <2>2, <2>3, <2>4, <2>5, <2>6 DEF CloseStep
<1> QED
  BY <1>1, <1>3, <1>5, <1>7, StepInv DEF Stage

LEMMA StartInv ==
    ASSUME StagesApply, TypeOK, IInv, Start
    PROVE  IInv'
<1> USE SettingStays
<1>1. PICK k \in Attempts : k = attempt + 1 /\ k # 0
  BY StartBound DEF TypeOK
<1>2. attempt # 0 => Closed(attempt)
  <2> SUFFICES ASSUME attempt # 0 PROVE Closed(attempt)
    OBVIOUS
  <2>1. Stage(attempt)
    BY DEF IInv, Start
  <2>2. ~RollingBack(attempt)
    <3>1. attempt \in Nat /\ attempt < Starts
      BY DEF Start, TypeOK
    <3>2. Starts # 1
      BY <3>1
    <3> QED
      BY <3>2 DEF RollingBack, StagesApply
  <2> QED
    BY <2>1, <2>2 DEF Start, Stage, Connecting, Failing, Opening, Receiving,
                      Closing, Stuck
<1>3. /\ pc'[Conn(k)] = IF Connector THEN "register" ELSE "connect"
      /\ \A j \in Attempts \ {k} : pc'[Conn(j)] = pc[Conn(j)]
      /\ \A j \in Attempts : pc'[Recv(j)] = pc[Recv(j)]
  BY <1>1, GotoConn DEF Start
<1>4. /\ heard'[k] # <<>> /\ heard'[k][Len(heard'[k])] = "request"
      /\ \A j \in Attempts \ {k} : heard'[j] = heard[j]
  BY <1>1, TellLast DEF Start, Callbacks
<1>5. AttemptsInTurn'
  BY <1>1, <1>2, <1>3, <1>4 DEF Start, TypeOK, IInv, AttemptsInTurn, Closed,
                                Over, Attempts
<1>6. ~registered /\ pc[Recv(k)] = "idle"
  BY <1>1, <1>2 DEF Start, IInv, Closed, AttemptsInTurn, TypeOK, Attempts
<1>7. Connecting(k)'
  BY <1>1, <1>3, <1>4, <1>6 DEF Start, Connecting, LastIn, Listed
<1>8. Connecting(attempt)'
  BY <1>1, <1>7 DEF Start, Connecting, LastIn, Listed
<1>9. (attempt <= Starts)'
  BY SettingsAssumption DEF Start, TypeOK, Starts
<1> QED
  BY <1>1, <1>5, <1>8, <1>9 DEF Start, Stage, IInv

\* Earlier attempts are over, later ones have not begun, and the current one
\* is in a stage, in every reachable state.
THEOREM ProtocolInvariant ==
    ASSUME ArmsStartOnce
    PROVE  Spec => []IInv
<1>1. Init => IInv
  <2> SUFFICES ASSUME Init PROVE IInv
    OBVIOUS
  <2>1. Starts \in 1..MaxAttempts
    BY SettingsAssumption DEF Init, Starts
  <2> QED
    BY <2>1, MaxAttemptsAssumption
       DEF Init, IInv, AttemptsInTurn, Attempts, Threads, Conn, Recv
<1>2. TypeOK /\ IInv /\ [Next]_vars => IInv'
  <2> SUFFICES ASSUME TypeOK, IInv, [Next]_vars PROVE IInv'
    OBVIOUS
  <2> StagesApply
    BY StagesDoApply
  <2>1. CASE Start
    BY <2>1, StartInv
  <2>2. CASE CloseSocket \/ DropRef \/ UNCHANGED vars
    BY <2>2, QuietStep DEF CloseSocket, DropRef, vars, IInv
  <2>3. CASE Destroy
    BY <2>3, SettingStays DEF Destroy, Referenced, IInv, AttemptsInTurn, Over
  <2>4. CASE \E k \in Attempts : ConnStep(k) \/ RecvStep(k) \/ ReadCompletes(k)
    BY <2>4, ConnStepInv, RecvStepInv
  <2>5. CASE \E t \in Threads : CloseStep(t)
    <3>1. PICK t \in Threads : CloseStep(t)
      BY <2>5
    <3>2. PICK k \in Attempts : t = Conn(k) \/ t = Recv(k)
      BY DEF Threads, Conn, Recv
    <3> QED
      BY <3>1, <3>2, CloseConnInv, CloseRecvInv
  <2> QED
    BY <2>1, <2>2, <2>3, <2>4, <2>5 DEF Next
<1> QED
  BY <1>1, <1>2, TypeCorrect, PTL DEF Spec

\* A socket that may be started again is listed nowhere any more, for any
\* number of attempts, connected either way.
THEOREM UnlistedWhenRestartable ==
    ASSUME ArmsStartOnce
    PROVE  Spec => []RestartableIsUnlisted
<1>1. TypeOK /\ IInv => RestartableIsUnlisted
  BY DEF TypeOK, IInv, RestartableIsUnlisted, Stage, Connecting, Failing,
         Opening, RollingBack, Receiving, Closing, Closed, Stuck
<1> QED
  BY <1>1, TypeCorrect, ProtocolInvariant, PTL

-----------------------------------------------------------------------------
(* The books: the connector's list and the keep statistic *)

\* The statistic is kept by two threads: the connecting one counts a session
\* when it has begun, perhaps after the receive handler has taken it out again.
Counts == Faults \cap {"arm", "weak_cas"} = {}
Counted == {k \in Attempts : pc[Conn(k)] = "done" /\ pc[Recv(k)] # "idle"}
Notified == {k \in Attempts :
                pc[Recv(k)] \in {"close_unregister", "close_none", "release", "done"}}

\* A success is counted of an attempt that reads, and of no other.
SuccessesRead ==
    \A k \in Attempts : /\ pc[Conn(k)] = "count" => pc[Recv(k)] # "idle"
                        /\ pc[Conn(k)] = "fail_close" => pc[Recv(k)] = "idle"

KeepInv ==
    Counts => /\ SuccessesRead
              /\ ~destroyed => keep = Cardinality(Counted) - Cardinality(Notified)
              /\ destroyed => KeepBalanced

LEMMA AccountsFinite ==
    /\ IsFiniteSet(Counted) /\ Cardinality(Counted) \in Nat
    /\ IsFiniteSet(Notified) /\ Cardinality(Notified) \in Nat
<1>1. IsFiniteSet(Attempts)
  BY MaxAttemptsAssumption, FS_Interval DEF Attempts
<1>2. Counted \subseteq Attempts /\ Notified \subseteq Attempts
  BY DEF Counted, Notified
<1>3. IsFiniteSet(Counted) /\ IsFiniteSet(Notified)
  BY <1>1, <1>2, FS_Subset
<1> QED
  BY <1>3, FS_CardinalityType

\* Between handlers, the account and the state are one.
LEMMA AccountBalances ==
    ASSUME TypeOK, IInv, ~destroyed, Counts, Quiet,
           keep = Cardinality(Counted) - Cardinality(Notified)
    PROVE  keep = IF sockState = "ESTABLISHED" THEN 1 ELSE 0
<1>1. \A k \in Attempts : /\ pc[Conn(k)] \in {"idle", "pending", "done"}
                          /\ pc[Recv(k)] \in {"idle", "pending", "done"}
  BY ThreadsOfAttempt DEF Quiet
<1>2. \A k \in Attempts : k # attempt => (k \in Counted <=> k \in Notified)
  BY <1>1 DEF TypeOK, IInv, AttemptsInTurn, Over, Attempts, Counted, Notified
<1>3. CASE attempt = 0
  <2>1. Counted = Notified
    BY <1>2, <1>3 DEF Counted, Notified, Attempts
  <2> QED
    BY <1>3, <2>1, AccountsFinite DEF IInv
<1>4. CASE attempt # 0
  <2>1. attempt \in Attempts
    BY <1>4 DEF TypeOK, Attempts
  <2>2. Stage(attempt)
    BY <2>1, CurrentStage
  <2>3. CASE Receiving(attempt)
    <3>1. pc[Conn(attempt)] = "done" /\ pc[Recv(attempt)] = "pending"
      BY <1>1, <2>1, <2>3 DEF Receiving
    <3>2. Counted = Notified \cup {attempt} /\ attempt \notin Notified
      BY <1>2, <2>1, <3>1 DEF Counted, Notified
    <3>3. Cardinality(Counted) = Cardinality(Notified) + 1
      BY <3>2, AccountsFinite, FS_AddElement
    <3> QED
      BY <2>3, <3>1, <3>3, AccountsFinite DEF Receiving
  <2>4. CASE ~Receiving(attempt)
    <3>1. sockState # "ESTABLISHED" /\ (attempt \in Counted <=> attempt \in Notified)
      BY <1>1, <2>1, <2>2, <2>4
         DEF Stage, Connecting, Failing, Opening, RollingBack, Closing, Closed,
             Stuck, Over, Counts, ClosePoints, Counted, Notified
    <3>2. Counted = Notified
      BY <1>2, <2>1, <3>1 DEF Counted, Notified
    <3> QED
      BY <3>1, <3>2, AccountsFinite
  <2> QED
    BY <2>3, <2>4
<1> QED
  BY <1>3, <1>4

\* A step that moves one thread, and where it moves it counts: then the account
\* is what it was, with the one change the step makes to the statistic.
LEMMA ConnMoveKeeps ==
    ASSUME TypeOK, KeepInv, Counts, ~destroyed, UNCHANGED <<setting, destroyed>>,
           NEW k \in Attempts, NEW p, Goto(Conn(k), p), pc[Conn(k)] # "done",
           p = "count" => pc[Recv(k)] # "idle",
           p = "fail_close" => pc[Recv(k)] = "idle",
           keep' = IF p = "done" /\ pc[Recv(k)] # "idle" THEN keep + 1 ELSE keep
    PROVE  KeepInv'
<1>1. /\ pc'[Conn(k)] = p
      /\ \A j \in Attempts \ {k} : pc'[Conn(j)] = pc[Conn(j)]
      /\ \A j \in Attempts : pc'[Recv(j)] = pc[Recv(j)]
  BY GotoConn
<1>2. SuccessesRead'
  BY <1>1 DEF KeepInv, SuccessesRead
<1>3. Notified' = Notified
  BY <1>1 DEF Notified
<1>4. k \notin Counted
  BY DEF Counted
<1>5. Counted' = IF p = "done" /\ pc[Recv(k)] # "idle" THEN Counted \cup {k} ELSE Counted
  BY <1>1, <1>4 DEF Counted
<1>6. Cardinality(Counted)' = IF p = "done" /\ pc[Recv(k)] # "idle"
                              THEN Cardinality(Counted) + 1 ELSE Cardinality(Counted)
  BY <1>4, <1>5, AccountsFinite, FS_AddElement
<1>7. keep' = Cardinality(Counted)' - Cardinality(Notified)'
  BY <1>3, <1>6, AccountsFinite DEF KeepInv, TypeOK
<1> QED
  BY <1>2, <1>7 DEF KeepInv

LEMMA RecvMoveKeeps ==
    ASSUME TypeOK, KeepInv, Counts, ~destroyed, UNCHANGED <<setting, destroyed>>,
           NEW k \in Attempts, NEW p, Goto(Recv(k), p), pc[Recv(k)] # "idle",
           p # "idle",
           \/ /\ k \in Notified
                 <=> p \in {"close_unregister", "close_none", "release", "done"}
              /\ keep' = keep
           \/ k \notin Notified /\ p = "close_unregister" /\ keep' = keep - 1
    PROVE  KeepInv'
<1>1. /\ pc'[Recv(k)] = p
      /\ \A j \in Attempts \ {k} : pc'[Recv(j)] = pc[Recv(j)]
      /\ \A j \in Attempts : pc'[Conn(j)] = pc[Conn(j)]
  BY GotoRecv
<1>2. SuccessesRead'
  BY <1>1 DEF KeepInv, SuccessesRead
<1>3. Counted' = Counted
  BY <1>1 DEF Counted
<1>4. CASE keep' = keep /\ (k \in Notified
              <=> p \in {"close_unregister", "close_none", "release", "done"})
  <2>1. Notified' = Notified
    BY <1>1, <1>4 DEF Notified
  <2> QED
    BY <1>2, <1>3, <1>4, <2>1 DEF KeepInv
<1>5. CASE k \notin Notified /\ p = "close_unregister" /\ keep' = keep - 1
  <2>1. Notified' = Notified \cup {k}
    BY <1>1, <1>5 DEF Notified
  <2>2. Cardinality(Notified)' = Cardinality(Notified) + 1
    BY <1>5, <2>1, AccountsFinite, FS_AddElement
  <2>3. keep' = Cardinality(Counted)' - Cardinality(Notified)'
    BY <1>3, <1>5, <2>2, AccountsFinite DEF KeepInv, TypeOK
  <2> QED
    BY <1>2, <2>3 DEF KeepInv
<1> QED
  BY <1>4, <1>5

LEMMA ConnStepKeeps ==
    ASSUME TypeOK, IInv, KeepInv, NEW k \in Attempts, ConnStep(k)
    PROVE  KeepInv'
<1> USE SettingStays DEF At
<1> SUFFICES ASSUME Counts PROVE KeepInv'
  BY DEF ConnStep, Register, RequestConnect, ConnectCompletes, CompleteConnect,
     OnConnect, ArmFirst, CountSuccess, FailConnect, FailUnregister, FailNone,
     FailClose, KeepInv, Counts
<1>1. ~destroyed /\ UNCHANGED <<setting, destroyed>> /\ pc[Conn(k)] # "done"
  BY DEF ConnStep, Register, RequestConnect, ConnectCompletes, CompleteConnect,
     OnConnect, ArmFirst, CountSuccess, FailConnect, FailUnregister, FailNone,
     FailClose
<1>2. CASE \/ Register(k) \/ RequestConnect(k) \/ ConnectCompletes(k)
           \/ OnConnect(k) \/ FailConnect(k) \/ FailUnregister(k)
  <2>1. PICK p : Goto(Conn(k), p) /\ p \notin {"count", "fail_close", "done"}
    BY <1>2 DEF Register, RequestConnect, ConnectCompletes, OnConnect,
                FailConnect, FailUnregister, Catch
  <2>2. keep' = keep
    BY <1>2 DEF Register, RequestConnect, ConnectCompletes, OnConnect,
                FailConnect, FailUnregister
  <2> QED
    BY <1>1, <2>1, <2>2, ConnMoveKeeps
<1>3. CASE CompleteConnect(k)
  <2>1. Connecting(k)
    BY <1>3, ConnTells DEF CompleteConnect
  <2>2. Goto(Conn(k), "on_connect") /\ keep' = keep
    BY <1>3, <2>1 DEF CompleteConnect, Connecting, Counts
  <2> QED
    BY <1>1, <2>2, ConnMoveKeeps
<1>4. CASE ArmFirst(k)
  <2>1. CASE \E p \in {"fail", "fail_none"} : Goto(Conn(k), p)
    BY <1>1, <1>4, <2>1, ConnMoveKeeps DEF ArmFirst
  <2>2. CASE pc' = [pc EXCEPT ![Conn(k)] = "count", ![Recv(k)] = "pending"]
    <3>1. /\ pc'[Conn(k)] = "count" /\ pc'[Recv(k)] = "pending"
          /\ \A j \in Attempts \ {k} : /\ pc'[Conn(j)] = pc[Conn(j)]
                                      /\ pc'[Recv(j)] = pc[Recv(j)]
      BY <2>2 DEF TypeOK, Threads, Conn, Recv
    <3>2. pc[Conn(k)] = "arm" /\ pc[Recv(k)] = "idle"
      BY <1>4, ConnTells DEF ArmFirst, Opening
    <3>3. SuccessesRead'
      BY <3>1 DEF KeepInv, SuccessesRead
    <3>4. Counted' = Counted /\ Notified' = Notified
      BY <3>1, <3>2 DEF Counted, Notified
    <3> QED
      BY <1>1, <1>4, <3>3, <3>4 DEF KeepInv, ArmFirst
  <2> QED
    BY <1>4, <2>1, <2>2 DEF ArmFirst, Catch, Counts
<1>5. CASE CountSuccess(k)
  <2>1. pc[Recv(k)] # "idle"
    BY <1>5 DEF CountSuccess, KeepInv, SuccessesRead
  <2> QED
    BY <1>1, <1>5, <2>1, ConnMoveKeeps DEF CountSuccess
<1>6. CASE FailNone(k)
  <2>1. pc[Recv(k)] = "idle"
    BY <1>6, ConnTells DEF FailNone, Failing, RollingBack
  <2> QED
    BY <1>1, <1>6, <2>1, ConnMoveKeeps DEF FailNone
<1>7. CASE FailClose(k)
  <2>1. pc[Recv(k)] = "idle"
    BY <1>7 DEF FailClose, KeepInv, SuccessesRead
  <2> QED
    BY <1>1, <1>7, <2>1, ConnMoveKeeps DEF FailClose
<1> QED
  BY <1>2, <1>3, <1>4, <1>5, <1>6, <1>7 DEF ConnStep

LEMMA RecvStepKeeps ==
    ASSUME TypeOK, IInv, KeepInv, NEW k \in Attempts,
           RecvStep(k) \/ ReadCompletes(k) \/ CloseStep(Recv(k))
    PROVE  KeepInv'
<1> USE SettingStays DEF At
<1>1. ~destroyed /\ UNCHANGED <<setting, destroyed>> /\ pc[Recv(k)] # "idle"
  BY DEF RecvStep, ReceiveError, Deliver, Rearm, Release, ReadCompletes,
     CloseStep, CloseHandle, CloseCas, CloseNotify, CloseUnregister, CloseNone
<1> SUFFICES ASSUME Counts PROVE KeepInv'
  BY <1>1 DEF KeepInv, Counts
<1>2. CASE \/ ReceiveError(k) \/ Deliver(k) \/ Rearm(k) \/ ReadCompletes(k)
           \/ CloseHandle(Recv(k))
  <2>1. PICK p : /\ Goto(Recv(k), p)
                 /\ p \in {"pending", "ok", "err", "rearm", "close_handle", "close_cas"}
    BY <1>2 DEF ReceiveError, Deliver, Rearm, ReadCompletes, CloseHandle
  <2>2. keep' = keep /\ k \notin Notified
    BY <1>2 DEF ReceiveError, Deliver, Rearm, ReadCompletes, CloseHandle, Notified
  <2> QED
    BY <1>1, <2>1, <2>2, RecvMoveKeeps
<1>3. CASE Release(k) \/ CloseUnregister(Recv(k)) \/ CloseNone(Recv(k))
  <2>1. PICK p \in {"done", "close_none", "release"} : Goto(Recv(k), p)
    BY <1>3 DEF Release, CloseUnregister, CloseNone, AfterClose, Recv
  <2>2. keep' = keep /\ k \in Notified
    BY <1>3 DEF Release, CloseUnregister, CloseNone, Notified
  <2> QED
    BY <1>1, <2>1, <2>2, RecvMoveKeeps
<1>4. CASE CloseCas(Recv(k))
  <2>1. Receiving(k)
    BY <1>4, RecvTells DEF CloseCas
  <2>2. Goto(Recv(k), "close_notify") /\ keep' = keep /\ k \notin Notified
    BY <1>4, <2>1 DEF CloseCas, Receiving, Counts, Notified
  <2> QED
    BY <1>1, <2>2, RecvMoveKeeps
<1>5. CASE CloseNotify(Recv(k))
  <2>1. /\ Goto(Recv(k), "close_unregister") /\ keep' = keep - 1
        /\ k \notin Notified
    BY <1>5 DEF CloseNotify, Notified
  <2> QED
    BY <1>1, <2>1, RecvMoveKeeps
<1> QED
  BY <1>2, <1>3, <1>4, <1>5 DEF RecvStep, CloseStep

\* An object that is destroyed while its socket is established takes it out of
\* the statistic itself.
LEMMA DestroyKeeps ==
    ASSUME TypeOK, IInv, KeepInv, Destroy
    PROVE  KeepInv'
<1> SUFFICES ASSUME Counts, Quiet PROVE SuccessesRead /\ KeepBalanced'
  BY SettingStays DEF Destroy, KeepInv, Counts, SuccessesRead, KeepBalanced, Quiet
<1>1. keep = IF sockState = "ESTABLISHED" THEN 1 ELSE 0
  BY AccountBalances DEF Destroy, KeepInv
<1> QED
  BY <1>1 DEF Destroy, KeepInv, KeepBalanced

\* Nor does anything else touch threads or statistic.
LEMMA OthersKeep ==
    ASSUME TypeOK, IInv, KeepInv, Start \/ CloseSocket \/ DropRef \/ UNCHANGED vars
    PROVE  KeepInv'
<1>1. CASE CloseSocket \/ DropRef \/ UNCHANGED vars
  BY <1>1 DEF CloseSocket, DropRef, vars, KeepInv, Counts, SuccessesRead, Faults,
     Counted, Notified, KeepBalanced, Quiet
<1>2. CASE Start
  <2> SUFFICES ASSUME Counts PROVE KeepInv'
    BY <1>2, SettingStays DEF Start, KeepInv, Counts
  <2>1. PICK k \in Attempts : k = attempt + 1
    BY <1>2, StartBound
  <2>2. PICK p \in {"register", "connect"} : Goto(Conn(k), p)
    BY <1>2, <2>1 DEF Start
  <2>3. pc[Conn(k)] = "idle"
    BY <2>1 DEF IInv, AttemptsInTurn, TypeOK, Attempts
  <2>4. UNCHANGED <<setting, destroyed, keep>> /\ ~destroyed
    BY <1>2 DEF Start
  <2>5. keep' = IF p = "done" /\ pc[Recv(k)] # "idle" THEN keep + 1 ELSE keep
    BY <2>4
  <2> QED
    BY <2>2, <2>3, <2>4, <2>5, ConnMoveKeeps
<1> QED
  BY <1>1, <1>2

\* The connector's list has every session while it is open, and the statistic
\* is right whenever no handler runs, however often a socket is started,
\* whichever way it is connected and whatever its callbacks throw.
THEOREM BooksAreKept ==
    ASSUME ArmsStartOnce
    PROVE  Spec => []BooksAgree
<1>1. Init => KeepInv
  <2> SUFFICES ASSUME Init PROVE KeepInv
    OBVIOUS
  <2>1. SuccessesRead /\ Counted = {} /\ Notified = {}
    BY ThreadsOfAttempt DEF Init, SuccessesRead, Counted, Notified
  <2>2. Cardinality(Counted) = 0 /\ Cardinality(Notified) = 0
    BY <2>1, FS_EmptySet
  <2> QED
    BY <2>1, <2>2 DEF Init, KeepInv
<1>2. TypeOK /\ IInv /\ KeepInv /\ [Next]_vars => KeepInv'
  <2> SUFFICES ASSUME TypeOK, IInv, KeepInv, [Next]_vars PROVE KeepInv'
    OBVIOUS
  <2>1. CASE Start \/ CloseSocket \/ DropRef \/ UNCHANGED vars
    BY <2>1, OthersKeep
  <2>2. CASE Destroy
    BY <2>2, DestroyKeeps
  <2>3. CASE \E k \in Attempts : ConnStep(k) \/ RecvStep(k) \/ ReadCompletes(k)
    BY <2>3, ConnStepKeeps, RecvStepKeeps
  <2>4. CASE \E t \in Threads : CloseStep(t)
    <3>1. PICK t \in Threads : CloseStep(t)
      BY <2>4
    <3>2. PICK k \in Attempts : t = Conn(k) \/ t = Recv(k)
      BY DEF Threads, Conn, Recv
    <3>3. CASE t = Recv(k)
      BY <3>1, <3>3, RecvStepKeeps
    <3>4. CASE t = Conn(k)
      <4>1. ~Counts /\ UNCHANGED setting
        BY <3>1, <3>4, ConnTells
           DEF CloseStep, CloseHandle, CloseCas, CloseNotify, CloseUnregister,
               CloseNone, At, ClosePoints, RollingBack, Counts
      <4> QED
        BY <4>1, SettingStays DEF KeepInv, Counts
    <3> QED
      BY <3>2, <3>3, <3>4
  <2> QED
    BY <2>1, <2>2, <2>3, <2>4 DEF Next
<1>3. TypeOK /\ IInv /\ KeepInv => BooksAgree
  <2> SUFFICES ASSUME TypeOK, IInv, KeepInv PROVE EstablishedIsListed /\ KeepBalanced
    BY DEF BooksAgree
  <2>1. EstablishedIsListed
    BY DEF TypeOK, IInv, Attempts, EstablishedIsListed, Stage, Connecting,
       Failing, Opening, RollingBack, Receiving, Closing, Closed, Stuck, Listed,
       MayUnlist
  <2>2. KeepBalanced
    BY AccountBalances DEF KeepBalanced, KeepInv, Counts
  <2> QED
    BY <2>1, <2>2
<1> QED
  BY <1>1, <1>2, <1>3, TypeCorrect, ProtocolInvariant, PTL DEF Spec

-----------------------------------------------------------------------------
(* The holds of the first session, of any socket and with any faults *)

\* Before the handler has handled what it received m_hold_async is set; from
\* then on the handler may hold the object instead.
HeldRead ==
    /\ pc[Recv(1)] \in {"pending", "ok", "err"} => holdAsync
    /\ pc[Recv(1)] \in Outstanding => ~destroyed /\ (holdAsync \/ localHold[1])

\* As long as there is one attempt, nothing runs for another.
OneAttempt ==
    \A k \in Attempts : k # 1 => pc[Conn(k)] = "idle" /\ pc[Recv(k)] = "idle"

HoldInv == attempt <= 1 /\ "arm" \notin Faults => OneAttempt /\ HeldRead

LEMMA AttemptOne == 1 \in Attempts
BY MaxAttemptsAssumption DEF Attempts

\* A step of the connecting thread.
LEMMA ConnStepHolds ==
    ASSUME TypeOK, HoldInv, attempt <= 1, "arm" \notin Faults,
           NEW k \in Attempts, ConnStep(k)
    PROVE  OneAttempt' /\ HeldRead'
<1>1. pc[Conn(k)] \notin {"idle", "done"} /\ ~destroyed
  BY DEF ConnStep, Register, RequestConnect, ConnectCompletes, CompleteConnect,
     OnConnect, ArmFirst, CountSuccess, FailConnect, FailUnregister, FailNone,
     FailClose, At
<1>2. k = 1 /\ OneAttempt /\ HeldRead
  BY <1>1 DEF HoldInv, OneAttempt
<1>3. CASE ArmFirst(k)
  <2>1. \/ /\ holdAsync'
           /\ pc' = [pc EXCEPT ![Conn(1)] = "count", ![Recv(1)] = "pending"]
        \/ UNCHANGED holdAsync /\ \E p : Goto(Conn(1), p)
    BY <1>2, <1>3 DEF ArmFirst, HoldSelf
  <2>2. UNCHANGED <<localHold, destroyed>>
    BY <1>3 DEF ArmFirst
  <2>3. CASE \E p : Goto(Conn(1), p)
    BY <1>2, <2>1, <2>2, <2>3, AttemptOne, GotoConn, ThreadsOfAttempt
       DEF OneAttempt, HeldRead, Outstanding, RecvPoints, ClosePoints, TypeOK,
           Conn, Recv, Goto
  <2>4. CASE /\ holdAsync'
             /\ pc' = [pc EXCEPT ![Conn(1)] = "count", ![Recv(1)] = "pending"]
    <3>1. /\ pc'[Recv(1)] = "pending"
          /\ \A j \in Attempts \ {1} : /\ pc'[Conn(j)] = pc[Conn(j)]
                                      /\ pc'[Recv(j)] = pc[Recv(j)]
      BY <2>4, AttemptOne, ThreadsOfAttempt DEF TypeOK, Conn, Recv
    <3> QED
      BY <1>1, <1>2, <2>2, <2>4, <3>1 DEF OneAttempt, HeldRead
  <2> QED
    BY <2>1, <2>3, <2>4
<1>4. CASE ~ArmFirst(k)
  <2>1. /\ UNCHANGED <<holdAsync, localHold, destroyed>>
        /\ \E p : Goto(Conn(1), p)
    BY <1>2, <1>4 DEF ConnStep, Register, RequestConnect, ConnectCompletes,
       CompleteConnect, OnConnect, CountSuccess, FailConnect, FailUnregister,
       FailNone, FailClose
  <2> QED
    BY <1>2, <2>1, AttemptOne, GotoConn DEF OneAttempt, HeldRead
<1> QED
  BY <1>3, <1>4

\* A step of the receive handler.
LEMMA RecvStepHolds ==
    ASSUME TypeOK, HoldInv, attempt <= 1, "arm" \notin Faults,
           NEW k \in Attempts, RecvStep(k) \/ ReadCompletes(k)
    PROVE  OneAttempt' /\ HeldRead'
<1>1. pc[Recv(k)] # "idle" /\ ~destroyed
  BY DEF RecvStep, ReceiveError, Deliver, Rearm, Release, ReadCompletes, At
<1>2. k = 1 /\ OneAttempt /\ HeldRead /\ 1 \in Attempts
  BY <1>1, AttemptOne DEF HoldInv, OneAttempt
<1>3. UNCHANGED destroyed /\ \E p : Goto(Recv(1), p)
  BY <1>2 DEF RecvStep, ReceiveError, Deliver, Rearm, Release, ReadCompletes
<1>4. OneAttempt'
  BY <1>2, <1>3, GotoRecv DEF OneAttempt
<1>5. CASE ReceiveError(1) \/ ReadCompletes(1)
  <2>1. /\ pc[Recv(1)] \in {"pending", "err"} /\ UNCHANGED holdAsync
    BY <1>5 DEF ReceiveError, ReadCompletes, At
  <2> QED
    BY <1>1, <1>2, <1>3, <1>4, <2>1 DEF HeldRead
<1>6. CASE Deliver(1)
  <2>1. holdAsync /\ pc'[Recv(1)] \in {"rearm", "close_handle"}
    BY <1>2, <1>6, GotoRecv DEF Deliver, At, HeldRead
  <2>2. holdAsync' \/ localHold'[1]
    BY <1>2, <1>6, <2>1 DEF Deliver, MoveHold, TypeOK
  <2> QED
    BY <1>1, <1>3, <1>4, <2>1, <2>2 DEF HeldRead
<1>7. CASE Rearm(1)
  <2>1. CASE holdAsync' = TRUE
    BY <1>1, <1>3, <1>4, <2>1 DEF HeldRead
  <2>2. CASE Goto(Recv(1), "close_handle") /\ UNCHANGED <<holdAsync, localHold>>
    <3>1. pc'[Recv(1)] = "close_handle" /\ pc[Recv(1)] = "rearm"
      BY <1>2, <1>7, <2>2, GotoRecv DEF Rearm, At
    <3>2. "rearm" \in Outstanding
      BY DEF Outstanding, RecvPoints
    <3> QED
      BY <1>1, <1>2, <1>3, <1>4, <2>2, <3>1, <3>2 DEF HeldRead
  <2> QED
    BY <1>7, <2>1, <2>2 DEF Rearm, HoldSelf
<1>8. CASE Release(1)
  <2>1. pc'[Recv(1)] = "done"
    BY <1>2, <1>8, GotoRecv DEF Release
  <2> QED
    BY <1>4, <2>1 DEF HeldRead, Outstanding
<1> QED
  BY <1>2, <1>5, <1>6, <1>7, <1>8 DEF RecvStep

\* process_closesocket moves its thread on, and no hold.
LEMMA CloseStepHolds ==
    ASSUME TypeOK, HoldInv, attempt <= 1, "arm" \notin Faults,
           NEW t \in Threads, CloseStep(t)
    PROVE  OneAttempt' /\ HeldRead'
<1>1. /\ pc[t] \in ClosePoints /\ ~destroyed
      /\ UNCHANGED <<holdAsync, localHold, destroyed>>
      /\ \E p : Goto(t, p)
  BY DEF CloseStep, CloseHandle, CloseCas, CloseNotify, CloseUnregister, CloseNone,
     At, ClosePoints
<1>2. PICK k \in Attempts : t = Conn(k) \/ t = Recv(k)
  BY DEF Threads, Conn, Recv
<1>3. k = 1 /\ OneAttempt /\ HeldRead
  BY <1>1, <1>2 DEF HoldInv, OneAttempt, ClosePoints
<1>4. CASE t = Conn(k)
  BY <1>1, <1>3, <1>4, GotoConn DEF OneAttempt, HeldRead
<1>5. CASE t = Recv(k)
  <2>1. OneAttempt'
    BY <1>1, <1>3, <1>5, GotoRecv DEF OneAttempt
  <2>2. holdAsync \/ localHold[1]
    <3>1. pc[Recv(1)] \in Outstanding
      BY <1>1, <1>3, <1>5 DEF Outstanding, RecvPoints, ClosePoints
    <3> QED
      BY <1>3, <3>1 DEF HeldRead
  <2>3. pc'[Recv(1)] \notin {"pending", "ok", "err"}
    <3>1. \E p \in ClosePoints \cup {AfterClose(t)} : Goto(t, p)
      BY DEF CloseStep, CloseHandle, CloseCas, CloseNotify, CloseUnregister,
         CloseNone, ClosePoints
    <3>2. AfterClose(t) = "release"
      BY <1>5 DEF AfterClose, Recv
    <3> QED
      BY <1>3, <1>5, <3>1, <3>2, GotoRecv DEF ClosePoints
  <2> QED
    BY <1>1, <2>1, <2>2, <2>3 DEF HeldRead
<1> QED
  BY <1>2, <1>4, <1>5

\* What the holds of the first session are is an invariant.
THEOREM HoldInvariant == Spec => []HoldInv
<1>1. Init => HoldInv
  <2> SUFFICES ASSUME Init PROVE OneAttempt /\ HeldRead
    BY DEF HoldInv
  <2>1. \A k \in Attempts : pc[Conn(k)] = "idle" /\ pc[Recv(k)] = "idle"
    BY ThreadsOfAttempt DEF Init
  <2> QED
    BY <2>1, AttemptOne DEF OneAttempt, HeldRead, Outstanding
<1>2. TypeOK /\ HoldInv /\ [Next]_vars => HoldInv'
  <2> SUFFICES ASSUME TypeOK, HoldInv, [Next]_vars, attempt' <= 1, "arm" \notin Faults'
               PROVE  OneAttempt' /\ HeldRead'
    BY DEF HoldInv
  <2>1. UNCHANGED setting /\ "arm" \notin Faults
    BY SettingIsFixed, SettingStays
  <2>2. CASE Start
    <3>1. attempt = 0 /\ attempt' = 1
      BY <2>2 DEF Start, TypeOK
    <3>2. /\ OneAttempt /\ HeldRead /\ 1 \in Attempts
          /\ UNCHANGED <<holdAsync, localHold, destroyed>>
          /\ \E p : Goto(Conn(1), p)
      BY <2>1, <2>2, <3>1, AttemptOne DEF HoldInv, Start
    <3> QED
      BY <3>2, GotoConn DEF OneAttempt, HeldRead
  <2>3. CASE ~Start
    <3>1. attempt <= 1
      BY <2>3 DEF Next, CloseSocket, DropRef, Destroy, ConnStep, Register,
         RequestConnect, ConnectCompletes, CompleteConnect, OnConnect, ArmFirst,
         CountSuccess, FailConnect, FailUnregister, FailNone, FailClose, RecvStep,
         ReceiveError, Deliver, Rearm, Release, ReadCompletes, CloseStep, CloseHandle,
         CloseCas, CloseNotify, CloseUnregister, CloseNone, vars
    <3>2. OneAttempt /\ HeldRead
      BY <2>1, <3>1 DEF HoldInv
    <3>3. CASE CloseSocket \/ DropRef \/ UNCHANGED vars
      BY <3>2, <3>3 DEF CloseSocket, DropRef, vars, OneAttempt, HeldRead
    <3>4. CASE Destroy
      BY <3>2, <3>4, AttemptOne DEF Destroy, Referenced, OneAttempt, HeldRead
    <3>5. CASE \E k \in Attempts : ConnStep(k) \/ RecvStep(k) \/ ReadCompletes(k)
      BY <2>1, <3>1, <3>5, ConnStepHolds, RecvStepHolds
    <3>6. CASE \E t \in Threads : CloseStep(t)
      BY <2>1, <3>1, <3>6, CloseStepHolds
    <3> QED
      BY <2>3, <3>3, <3>4, <3>5, <3>6 DEF Next
  <2> QED
    BY <2>2, <2>3
<1> QED
  BY <1>1, <1>2, TypeCorrect, PTL DEF Spec

\* A read that is outstanding, or whose handler has not let go, holds an object
\* that has been started once, whatever fails, but for a read that cannot be
\* started: no handler runs on an object that is gone.
THEOREM ReadsAreHeld == Spec => []HoldCoversRead
<1>1. TypeOK /\ HoldInv => HoldCoversRead
  <2> SUFFICES ASSUME TypeOK, attempt <= 1, "arm" \notin Faults,
                      OneAttempt, HeldRead,
                      NEW k \in Attempts, pc[Recv(k)] \in Outstanding
               PROVE  (holdAsync \/ localHold[k]) /\ ~destroyed
    BY DEF HoldInv, HoldCoversRead, HoldCoversEveryRead, NoUseAfterFree
  <2>1. k = 1
    BY DEF OneAttempt, Outstanding
  <2> QED
    BY <2>1 DEF HeldRead
<1> QED
  BY <1>1, TypeCorrect, HoldInvariant, PTL


-----------------------------------------------------------------------------
(* The socket implements SessionProtocol *)

\* A socket no connector lists is kept by its holds alone once the application
\* drops it, and a second start may undo the holds of the first.
KeptToTheEnd == \A s \in Settings : s.connector \/ ~s.mayDrop \/ s.starts = 1

\* A step that makes no callback and neither begins nor ends an attempt.
LEMMA SilentStep ==
    ASSUME Reports, Reports', UNCHANGED <<attempt, heard>>,
           (sockState # "NONE") = (sockState' # "NONE")
    PROVE  UNCHANGED Protocol!pvars
BY DEF Protocol!pvars

\* A socket that is not to report everything maps to one that does nothing.
LEMMA UnreportedStep ==
    ASSUME ~Reports, ~Reports'
    PROVE  UNCHANGED Protocol!pvars
BY DEF Protocol!pvars

\* A callback of the current attempt.
LEMMA CallbackStep ==
    ASSUME Reports, Reports', NEW c, attempt \in Attempts, sockState # "NONE",
           UNCHANGED <<attempt, sockState>>, Tell(attempt, c)
    PROVE  Protocol!Tell(c)
BY DEF Protocol!Tell, Tell

LEMMA LastInProtocol ==
    ASSUME Reports, attempt \in Attempts, NEW S, LastIn(attempt, S)
    PROVE  Protocol!LastHeardIn(S)
BY DEF LastIn, Protocol!LastHeardIn, Protocol!LastOf, Protocol!Attempts, Attempts

\* The end of an attempt.
LEMMA FinishStep ==
    ASSUME Reports, Reports', attempt \in Attempts, sockState # "NONE",
           sockState' = "NONE",
           UNCHANGED <<attempt, heard>>, LastIn(attempt, {"fail", "disconnect"})
    PROVE  Protocol!Finish
BY LastInProtocol DEF Protocol!Finish

\* What reports knows neither of these faults.
LEMMA ReportsExcludes ==
    ASSUME Reports
    PROVE  "arm" \notin Faults /\ "weak_cas" \notin Faults
BY DEF Reports

LEMMA ConnStepProtocol ==
    ASSUME Reports, Reports', TypeOK, IInv, NEW k \in Attempts, ConnStep(k)
    PROVE  Protocol!PNext \/ UNCHANGED Protocol!pvars
<1> USE ReportsExcludes DEF At
<1>1. CASE \/ Register(k) \/ RequestConnect(k) \/ ConnectCompletes(k)
           \/ ArmFirst(k) \/ CountSuccess(k) \/ FailUnregister(k)
           \/ FailClose(k)
  BY <1>1, SilentStep
     DEF Register, RequestConnect, ConnectCompletes, ArmFirst, CountSuccess,
         FailUnregister, FailClose
<1>2. CASE CompleteConnect(k)
  BY <1>2, SilentStep DEF CompleteConnect
<1>3. CASE OnConnect(k)
  <2>1. k = attempt /\ Opening(k)
    BY <1>3, ConnTells DEF OnConnect
  <2>2. Protocol!LastHeardIn({"request"})
    BY <1>3, <2>1, LastInProtocol DEF OnConnect, Opening
  <2>3. Protocol!Tell("connect")
    BY <1>3, <2>1, CallbackStep DEF OnConnect, Opening
  <2> QED
    BY <2>2, <2>3 DEF Protocol!PNext, Protocol!Connect
<1>4. CASE FailConnect(k)
  <2>1. k = attempt /\ (Connecting(k) \/ Opening(k))
    BY <1>4, ConnTells DEF FailConnect, RollingBack
  <2>2. LastIn(k, {"request", "connect"})
    BY <1>4, <2>1 DEF Connecting, Opening, LastIn
  <2>3. Protocol!LastHeardIn({"request", "connect"})
    BY <2>1, <2>2, LastInProtocol
  <2>4. Protocol!Tell("fail")
    BY <1>4, <2>1, CallbackStep DEF FailConnect, Connecting, Opening
  <2> QED
    BY <2>3, <2>4 DEF Protocol!PNext, Protocol!Fail
<1>5. CASE FailNone(k)
  <2>1. k = attempt /\ Failing(k)
    BY <1>5, ConnTells DEF FailNone, RollingBack
  <2>2. LastIn(k, {"fail", "disconnect"})
    BY <2>1 DEF Failing, LastIn
  <2>3. Protocol!Finish
    BY <1>5, <2>1, <2>2, FinishStep DEF FailNone, Failing
  <2> QED
    BY <2>3 DEF Protocol!PNext
<1> QED
  BY <1>1, <1>2, <1>3, <1>4, <1>5 DEF ConnStep

LEMMA RecvStepProtocol ==
    ASSUME Reports, Reports', TypeOK, IInv, NEW k \in Attempts, RecvStep(k) \/ ReadCompletes(k)
    PROVE  Protocol!PNext \/ UNCHANGED Protocol!pvars
<1> USE DEF At
<1>1. CASE ReceiveError(k) \/ Rearm(k) \/ Release(k) \/ ReadCompletes(k)
  BY <1>1, SilentStep DEF ReceiveError, Rearm, Release, ReadCompletes
<1>2. CASE Deliver(k)
  <2>1. k = attempt /\ Receiving(k)
    BY <1>2, RecvTells DEF Deliver
  <2>2. CASE UNCHANGED heard
    BY <1>2, <2>2, SilentStep DEF Deliver
  <2>3. CASE Tell(k, "message") /\ LastIn(k, {"connect"})
    <3>1. Protocol!LastHeardIn({"connect"})
      BY <2>1, <2>3, LastInProtocol
    <3>2. Protocol!Tell("message")
      BY <1>2, <2>1, <2>3, CallbackStep DEF Deliver, Receiving
    <3> QED
      BY <3>1, <3>2 DEF Protocol!PNext, Protocol!Message
  <2> QED
    BY <1>2, <2>1, <2>2, <2>3 DEF Deliver, TellMessage, Receiving, LastIn
<1> QED
  BY <1>1, <1>2 DEF RecvStep

LEMMA CloseStepProtocol ==
    ASSUME Reports, Reports', TypeOK, IInv, NEW k \in Attempts,
           CloseStep(Recv(k))
    PROVE  Protocol!PNext \/ UNCHANGED Protocol!pvars
<1> USE ReportsExcludes DEF At
<1>1. CASE CloseHandle(Recv(k)) \/ CloseUnregister(Recv(k))
  BY <1>1, SilentStep DEF CloseHandle, CloseUnregister
<1>2. CASE CloseCas(Recv(k))
  BY <1>2, SilentStep DEF CloseCas
<1>3. CASE CloseNotify(Recv(k))
  <2>1. k = attempt /\ Receiving(k)
    BY <1>3, RecvTells DEF CloseNotify
  <2>2. Protocol!LastHeardIn({"connect", "message"})
    BY <2>1, LastInProtocol DEF Receiving
  <2>3. Protocol!Tell("disconnect")
    BY <1>3, <2>1, CallbackStep DEF CloseNotify, Receiving, Recv
  <2> QED
    BY <2>2, <2>3 DEF Protocol!PNext, Protocol!Disconnect
<1>4. CASE CloseNone(Recv(k))
  <2>1. k = attempt /\ Closing(k)
    BY <1>4, RecvTells DEF CloseNone
  <2>2. LastIn(k, {"fail", "disconnect"})
    BY <2>1 DEF Closing, LastIn
  <2>3. Protocol!Finish
    BY <1>4, <2>1, <2>2, FinishStep DEF CloseNone, Closing
  <2> QED
    BY <2>3 DEF Protocol!PNext
<1> QED
  BY <1>1, <1>2, <1>3, <1>4 DEF CloseStep

LEMMA StartProtocol ==
    ASSUME Reports, Reports', TypeOK, IInv, Start
    PROVE  Protocol!Request
<1>1. attempt + 1 \in Attempts
  BY StartBound
<1>2. heard[attempt + 1] = <<>>
  BY <1>1 DEF IInv, AttemptsInTurn, TypeOK, Attempts
<1>3. heard' = [heard EXCEPT ![attempt + 1] = Append(<<>>, "request")]
  BY <1>1, <1>2 DEF Start, Tell, TypeOK
<1>4. Append(<<>>, "request") = <<"request">>
  OBVIOUS
<1>5. heard' = [heard EXCEPT ![attempt + 1] = <<"request">>]
  BY <1>3, <1>4, Zenon
<1> QED
  BY <1>1, <1>5 DEF Start, Protocol!Request, Protocol!Attempts, Attempts

\* A socket that is destroyed is not in the middle of a session: its connector
\* keeps it, or the application does, or the hold of its only read.
LEMMA NotDestroyedAlive ==
    ASSUME KeptToTheEnd, Reports, TypeOK, IInv, HoldInv, Destroy
    PROVE  sockState # "ESTABLISHED"
<1> SUFFICES ASSUME sockState = "ESTABLISHED" PROVE FALSE
  OBVIOUS
<1>1. PICK k \in Attempts : k = attempt
  BY DEF Destroy, TypeOK, IInv, Attempts
<1>2. pc[Conn(k)] \in {"idle", "done"} /\ ~registered /\ ~appRef /\ ~destroyed
  BY DEF Destroy, Referenced
<1>3. Receiving(k)
  BY <1>1, <1>2, CurrentStage, ReportsExcludes
     DEF Stage, Connecting, Failing, Opening, RollingBack, Closing, Closed, Stuck,
         ClosePoints
<1>4. ~Connector /\ MayDrop
  BY <1>2, <1>3 DEF Receiving, Listed, IInv
<1>5. Starts = 1
  BY <1>4 DEF KeptToTheEnd, TypeOK, Connector, MayDrop, Starts
<1>6. attempt <= 1 /\ k = 1
  BY <1>1, <1>5 DEF IInv, Attempts
<1>7. pc[Recv(1)] \in Outstanding
  BY <1>3, <1>6 DEF Receiving, Outstanding, RecvPoints, ClosePoints
<1>8. holdAsync \/ localHold[1]
  BY <1>6, <1>7, ReportsExcludes DEF HoldInv, HeldRead
<1> QED
  BY <1>1, <1>6, <1>8 DEF Destroy, Referenced

\* The application gets the callbacks SessionProtocol promises, and only those,
\* for any number of attempts, either way of connecting and any interleaving of
\* the handlers with each other and with a restart.
THEOREM ImplementsProtocol ==
    ASSUME ArmsStartOnce, KeptToTheEnd
    PROVE  Spec => CallbackProtocol
<1>1. Init => Protocol!PInit
  BY DEF Init, Protocol!PInit, Protocol!Attempts, Attempts
<1>2. TypeOK /\ IInv /\ HoldInv /\ [Next]_vars
      => [Protocol!PNext]_(Protocol!pvars)
  <2> SUFFICES ASSUME TypeOK, IInv, HoldInv, [Next]_vars
               PROVE  Protocol!PNext \/ UNCHANGED Protocol!pvars
    OBVIOUS
  <2>1. Reports' = Reports
    BY SettingIsFixed, SettingStays
  <2>2. CASE ~Reports
    BY <2>1, <2>2, UnreportedStep
  <2>3. CASE Reports
    <3> Reports /\ Reports'
      BY <2>1, <2>3
    <3>1. CASE Start
      BY <3>1, StartProtocol DEF Protocol!PNext
    <3>2. CASE CloseSocket \/ DropRef \/ UNCHANGED vars
      BY <3>2, SilentStep DEF CloseSocket, DropRef, vars
    <3>3. CASE Destroy
      BY <3>3, NotDestroyedAlive, SilentStep DEF Destroy
    <3>4. CASE \E k \in Attempts : ConnStep(k) \/ RecvStep(k) \/ ReadCompletes(k)
      BY <3>4, ConnStepProtocol, RecvStepProtocol
    <3>5. CASE \E t \in Threads : CloseStep(t)
      <4>1. PICK t \in Threads : CloseStep(t)
        BY <3>5
      <4>2. PICK k \in Attempts : t = Conn(k) \/ t = Recv(k)
        BY DEF Threads, Conn, Recv
      <4>3. t = Recv(k)
        BY <4>1, <4>2, ConnTells, ReportsExcludes
           DEF CloseStep, CloseHandle, CloseCas, CloseNotify, CloseUnregister,
               CloseNone, At, ClosePoints, RollingBack
      <4> QED
        BY <4>1, <4>3, CloseStepProtocol
    <3> QED
      BY <3>1, <3>2, <3>3, <3>4, <3>5 DEF Next
  <2> QED
    BY <2>2, <2>3
<1> QED
  BY <1>1, <1>2, TypeCorrect, ProtocolInvariant, HoldInvariant, PTL
     DEF Spec, CallbackProtocol, Protocol!PSpec

=============================================================================
