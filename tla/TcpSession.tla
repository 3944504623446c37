----------------------------- MODULE TcpSession -----------------------------
(***************************************************************************)
(* The life of one client socket object of CGDK.asio: Nsocket_tcp over     *)
(* Isocket_tcp, connected either by a Nconnector (which keeps it in its    *)
(* socket list) or by itself as a Nconnect_requestable.                    *)
(*                                                                         *)
(* The object outlives a session: when it is back in state NONE it may be  *)
(* connected again.  Each winning start() is an attempt, and an attempt    *)
(* has two threads: "conn", the caller of start() and then the completion  *)
(* handler of async_connect, and "recv", the chain of completion handlers  *)
(* of async_read_some.  Any io thread may run a handler, so handlers of    *)
(* one object interleave freely with each other and with the application.  *)
(***************************************************************************)
EXTENDS Integers, Sequences

CONSTANTS
    MaxAttempts,   \* bound: how often the application may start an object
    Settings       \* the settings an object may live in, see below

ASSUME MaxAttemptsAssumption == MaxAttempts \in Nat \ {0}

(***************************************************************************)
(* "on_connect"  the application's on_connect throws, in a connector's      *)
(* "on_connect_self"  socket or in a Nconnect_requestable                  *)
(* "on_message"  the application's on_message, or the framing, throws      *)
(* "alloc"       alloc_shared_buffer throws before the first read          *)
(* "arm"         async_read_some throws instead of starting a read         *)
(* "weak_cas"    compare_exchange_weak fails although the value matches    *)
(***************************************************************************)
AllFaults == {"on_connect", "on_connect_self", "on_message", "alloc", "arm",
              "weak_cas"}

\* Who connects the object, a Nconnector or itself; how often; whether the
\* application may drop its reference and rely on the holds; what may go wrong.
ASSUME SettingsAssumption ==
    Settings \subseteq [connector : BOOLEAN, starts : 1..MaxAttempts,
                       mayDrop : BOOLEAN, faults : SUBSET AllFaults]

Attempts == 1..MaxAttempts
Threads == {"conn", "recv"} \X Attempts
Conn(k) == <<"conn", k>>
Recv(k) == <<"recv", k>>

SocketStates == {"NONE", "SYN", "CLOSING", "ESTABLISHED"}
Callbacks == {"request", "connect", "message", "fail", "disconnect"}

\* Where a thread is: "idle" before the attempt, "pending" while its
\* asynchronous operation is outstanding, "ok" and "err" when the operation
\* completed and its handler has not run yet, "done" at the end.
ClosePoints == {"close_handle", "close_cas", "close_notify",
                "close_unregister", "close_none"}
ConnPoints == {"idle", "register", "connect", "pending", "ok", "err",
               "on_connect", "arm", "count", "fail", "fail_unregister",
               "fail_none", "fail_close", "done"} \cup ClosePoints
RecvPoints == {"idle", "pending", "ok", "err", "rearm", "release", "done"}
              \cup ClosePoints
Outstanding == RecvPoints \ {"idle", "done"}

VARIABLES
    sockState,    \* m_socket_state
    handle,       \* m_socket: 0 when closed, else the attempt it serves
    registered,   \* m_pconnective is set and the connector lists the socket
    holdAsync,    \* m_hold_async holds the object itself
    localHold,    \* a receive handler's local hold_async, by attempt
    attempt,      \* attempts started so far
    pc,           \* where each thread is
    heard,        \* the callbacks the application got, by attempt
    keep,         \* this object's share of statistics_connect_keep
    appRef,       \* the application still has its shared_ptr
    destroyed,    \* the destructor ran
    setting       \* the setting of this object, fixed when it is created

vars == <<sockState, handle, registered, holdAsync, localHold, attempt, pc,
          heard, keep, appRef, destroyed, setting>>

Connector == setting.connector
Starts == setting.starts
MayDrop == setting.mayDrop
Faults == setting.faults

\* The connecting thread and the receive handlers keep to their own points.
Points(t) == IF t[1] = "conn" THEN ConnPoints ELSE RecvPoints
InPlace == \A t \in Threads : pc[t] \in Points(t)

TypeOK ==
    /\ sockState \in SocketStates
    /\ handle \in 0..MaxAttempts
    /\ registered \in BOOLEAN
    /\ holdAsync \in BOOLEAN
    /\ localHold \in [Attempts -> BOOLEAN]
    /\ attempt \in 0..MaxAttempts
    /\ pc \in [Threads -> ConnPoints \cup RecvPoints] /\ InPlace
    /\ heard \in [Attempts -> Seq(Callbacks)]
    /\ keep \in Int
    /\ appRef \in BOOLEAN
    /\ destroyed \in BOOLEAN
    /\ setting \in Settings

Init ==
    /\ sockState = "NONE"
    /\ handle = 0
    /\ registered = FALSE
    /\ holdAsync = FALSE
    /\ localHold = [k \in Attempts |-> FALSE]
    /\ attempt = 0
    /\ pc = [t \in Threads |-> "idle"]
    /\ heard = [k \in Attempts |-> <<>>]
    /\ keep = 0
    /\ appRef = TRUE
    /\ destroyed = FALSE
    /\ setting \in Settings

Goto(t, point) == pc' = [pc EXCEPT ![t] = point]
At(t, point) == pc[t] = point /\ ~destroyed
Tell(k, callback) == heard' = [heard EXCEPT ![k] = Append(@, callback)]

HoldSelf == holdAsync' = TRUE

MoveHold_Dropped(k) == holdAsync' = FALSE /\ UNCHANGED localHold
MoveHold(k) ==
    /\ localHold' = [localHold EXCEPT ![k] = holdAsync]
    /\ holdAsync' = FALSE

ReleaseHold(k) ==
    /\ holdAsync' = FALSE
    /\ localHold' = [localHold EXCEPT ![k] = FALSE]

-----------------------------------------------------------------------------
(* Starting an attempt *)

\* start() or request_connect(): NONE -> SYN, then on_request_connect.
Start ==
    LET k == attempt + 1 IN
    /\ appRef /\ ~destroyed
    /\ attempt < Starts
    /\ sockState = "NONE"
    /\ sockState' = "SYN"
    /\ attempt' = k
    /\ Tell(k, "request")
    /\ Goto(Conn(k), IF Connector THEN "register" ELSE "connect")
    /\ UNCHANGED <<handle, registered, holdAsync, localHold, keep, appRef,
                   destroyed, setting>>

\* process_register_socket: throws when the socket already has a connective.
Register(k) ==
    /\ At(Conn(k), "register")
    /\ IF registered
       THEN /\ Goto(Conn(k), "fail")
            /\ UNCHANGED registered
       ELSE /\ Goto(Conn(k), "connect")
            /\ registered' = TRUE
    /\ UNCHANGED <<sockState, handle, holdAsync, localHold, attempt, heard,
                   keep, appRef, destroyed, setting>>

\* async_connect opens the handle when it is closed; a failing open is
\* reported to the handler.
RequestConnect(k) ==
    /\ At(Conn(k), "connect")
    /\ \/ /\ handle' = k
          /\ Goto(Conn(k), "pending")
       \/ /\ handle = 0
          /\ UNCHANGED handle
          /\ Goto(Conn(k), "err")
    /\ UNCHANGED <<sockState, registered, holdAsync, localHold, attempt, heard,
                   keep, appRef, destroyed, setting>>

\* The kernel finishes the connection; closing the handle aborts it.
ConnectCompletes(k) ==
    /\ At(Conn(k), "pending")
    /\ \/ handle = k /\ Goto(Conn(k), "ok")
       \/ Goto(Conn(k), "err")
    /\ UNCHANGED <<sockState, handle, registered, holdAsync, localHold,
                   attempt, heard, keep, appRef, destroyed, setting>>

-----------------------------------------------------------------------------
(* The connect completion handler *)

\* Where an exception out of process_complete_connect is caught: Nconnector
\* reports it with on_fail_connect, Nconnect_requestable does not.
Catch_Listed == "fail_none"
Catch == IF Connector THEN "fail" ELSE "fail_none"

\* process_complete_connect, first part: SYN -> ESTABLISHED.  When the
\* exchange fails the function returns and its caller counts a success.
CompleteConnect(k) ==
    /\ At(Conn(k), "ok")
    /\ \/ /\ sockState = "SYN"
          /\ sockState' = "ESTABLISHED"
          /\ Goto(Conn(k), "on_connect")
       \/ /\ sockState # "SYN" \/ "weak_cas" \in Faults
          /\ UNCHANGED sockState
          /\ Goto(Conn(k), "count")
    /\ UNCHANGED <<handle, registered, holdAsync, localHold, attempt, heard,
                   keep, appRef, destroyed, setting>>

OnConnectFault == IF Connector THEN "on_connect" ELSE "on_connect_self"

\* on_connect; when it throws only the native handle is closed.
OnConnect(k) ==
    /\ At(Conn(k), "on_connect")
    /\ Tell(k, "connect")
    /\ \/ Goto(Conn(k), "arm") /\ UNCHANGED handle
       \/ /\ OnConnectFault \in Faults
          /\ Goto(Conn(k), Catch)
          /\ handle' = 0
    /\ UNCHANGED <<sockState, registered, holdAsync, localHold, attempt, keep,
                   appRef, destroyed, setting>>

\* Buffer and first process_receive_async.
ArmFirst(k) ==
    /\ At(Conn(k), "arm")
    /\ \/ /\ HoldSelf
          /\ pc' = [pc EXCEPT ![Conn(k)] = "count", ![Recv(k)] = "pending"]
       \/ /\ "alloc" \in Faults
          /\ Goto(Conn(k), Catch)
          /\ UNCHANGED holdAsync
       \/ /\ "arm" \in Faults
          /\ Goto(Conn(k), "close_handle")
          /\ holdAsync' = FALSE
    /\ UNCHANGED <<sockState, handle, registered, localHold, attempt, heard,
                   keep, appRef, destroyed, setting>>

\* A bug: the success is counted only if the session is still established.
CountSuccess_IfStill(k) ==
    /\ At(Conn(k), "count")
    /\ keep' = IF sockState = "ESTABLISHED" THEN keep + 1 ELSE keep
    /\ Goto(Conn(k), "done")
    /\ UNCHANGED <<sockState, handle, registered, holdAsync, localHold,
                   attempt, heard, appRef, destroyed, setting>>

\* ++statistics_connect_keep, after the session began and perhaps ended.
CountSuccess(k) ==
    /\ At(Conn(k), "count")
    /\ keep' = keep + 1
    /\ Goto(Conn(k), "done")
    /\ UNCHANGED <<sockState, handle, registered, holdAsync, localHold,
                   attempt, heard, appRef, destroyed, setting>>

\* Both completion handlers call process_fail_connect on an error.
FailConnect(k) ==
    /\ At(Conn(k), "err") \/ At(Conn(k), "fail")
    /\ Tell(k, "fail")
    /\ Goto(Conn(k), IF Connector THEN "fail_unregister" ELSE "fail_none")
    /\ UNCHANGED <<sockState, handle, registered, holdAsync, localHold,
                   attempt, keep, appRef, destroyed, setting>>

FailUnregister(k) ==
    /\ At(Conn(k), "fail_unregister")
    /\ registered' = FALSE
    /\ Goto(Conn(k), "fail_none")
    /\ UNCHANGED <<sockState, handle, holdAsync, localHold, attempt, heard,
                   keep, appRef, destroyed, setting>>

FailNone(k) ==
    /\ At(Conn(k), "fail_none")
    /\ sockState' = "NONE"
    /\ Goto(Conn(k), IF Connector THEN "fail_close" ELSE "done")
    /\ UNCHANGED <<handle, registered, holdAsync, localHold, attempt, heard,
                   keep, appRef, destroyed, setting>>

\* Only Nconnector closes the handle, and after the socket is NONE again.
FailClose(k) ==
    /\ At(Conn(k), "fail_close")
    /\ handle' = 0
    /\ Goto(Conn(k), "done")
    /\ UNCHANGED <<sockState, registered, holdAsync, localHold, attempt, heard,
                   keep, appRef, destroyed, setting>>

-----------------------------------------------------------------------------
(* process_closesocket, run by a receive handler or by a failing first read *)

CloseHandle(t) ==
    /\ At(t, "close_handle")
    /\ handle' = 0
    /\ Goto(t, "close_cas")
    /\ UNCHANGED <<sockState, registered, holdAsync, localHold, attempt, heard,
                   keep, appRef, destroyed, setting>>

\* A bug: the handler ends without letting go of the object.
AfterClose_Held(t) == IF t[1] = "recv" THEN "done" ELSE Catch
\* A bug: a receive handler reports a failed connect as well.
AfterClose_Fails(t) == Catch
\* What follows the call of process_closesocket.
AfterClose(t) == IF t[1] = "recv" THEN "release" ELSE Catch

\* A bug: NONE at once, with the callback and the unregistering still to come.
CloseCas_None(t) ==
    /\ At(t, "close_cas")
    /\ sockState = "ESTABLISHED"
    /\ sockState' = "NONE"
    /\ Goto(t, "close_notify")
    /\ UNCHANGED <<handle, registered, holdAsync, localHold, attempt, heard,
                   keep, appRef, destroyed, setting>>

\* ESTABLISHED -> CLOSING; who loses the exchange does nothing more.
CloseCas(t) ==
    /\ At(t, "close_cas")
    /\ \/ /\ sockState = "ESTABLISHED"
          /\ sockState' = "CLOSING"
          /\ Goto(t, "close_notify")
       \/ /\ sockState # "ESTABLISHED" \/ "weak_cas" \in Faults
          /\ UNCHANGED sockState
          /\ Goto(t, AfterClose(t))
    /\ UNCHANGED <<handle, registered, holdAsync, localHold, attempt, heard,
                   keep, appRef, destroyed, setting>>

CloseNotify(t) ==
    /\ At(t, "close_notify")
    /\ keep' = keep - 1
    /\ Tell(t[2], "disconnect")
    /\ Goto(t, "close_unregister")
    /\ UNCHANGED <<sockState, handle, registered, holdAsync, localHold,
                   attempt, appRef, destroyed, setting>>

CloseUnregister(t) ==
    /\ At(t, "close_unregister")
    /\ registered' = FALSE
    /\ Goto(t, "close_none")
    /\ UNCHANGED <<sockState, handle, holdAsync, localHold, attempt, heard,
                   keep, appRef, destroyed, setting>>

CloseNone(t) ==
    /\ At(t, "close_none")
    /\ sockState' = "NONE"
    /\ Goto(t, AfterClose(t))
    /\ UNCHANGED <<handle, registered, holdAsync, localHold, attempt, heard,
                   keep, appRef, destroyed, setting>>

-----------------------------------------------------------------------------
(* The receive handler *)

\* Data, end of stream or reset from the peer, or the abort of a closed handle.
ReadCompletes(k) ==
    /\ At(Recv(k), "pending")
    /\ \/ handle = k /\ Goto(Recv(k), "ok")
       \/ Goto(Recv(k), "err")
    /\ UNCHANGED <<sockState, handle, registered, holdAsync, localHold,
                   attempt, heard, keep, appRef, destroyed, setting>>

ReceiveError(k) ==
    /\ At(Recv(k), "err")
    /\ Goto(Recv(k), "close_handle")
    /\ UNCHANGED <<sockState, handle, registered, holdAsync, localHold,
                   attempt, heard, keep, appRef, destroyed, setting>>

\* "message" is appended once for a run of messages, to keep heard finite.
TellMessage(k) ==
    IF heard[k] # <<>> /\ heard[k][Len(heard[k])] = "message"
    THEN UNCHANGED heard
    ELSE Tell(k, "message")

\* The framing loop: zero or more messages, then nothing, a partial message
\* (which moves m_hold_async to the handler's local) or an exception.
Deliver(k) ==
    /\ At(Recv(k), "ok")
    /\ UNCHANGED heard \/ TellMessage(k)
    /\ \/ Goto(Recv(k), "rearm") /\ UNCHANGED <<holdAsync, localHold>>
       \/ Goto(Recv(k), "rearm") /\ MoveHold(k)
       \/ /\ "on_message" \in Faults
          /\ Goto(Recv(k), "close_handle")
          /\ UNCHANGED <<holdAsync, localHold>>
    /\ UNCHANGED <<sockState, handle, registered, attempt, keep, appRef,
                   destroyed, setting>>

\* A bug: a handle found closed ends the handler without process_closesocket.
Rearm_Silent(k) ==
    /\ At(Recv(k), "rearm")
    /\ IF handle # 0
       THEN HoldSelf /\ Goto(Recv(k), "pending") /\ UNCHANGED localHold
       ELSE ReleaseHold(k) /\ Goto(Recv(k), "done")
    /\ UNCHANGED <<sockState, handle, registered, attempt, heard, keep, appRef,
                   destroyed, setting>>

\* Under m_lock_socket: read again while the handle is open, else close.
Rearm(k) ==
    /\ At(Recv(k), "rearm")
    /\ \/ /\ handle # 0
          /\ HoldSelf
          /\ localHold' = [localHold EXCEPT ![k] = FALSE]
          /\ Goto(Recv(k), "pending")
       \/ /\ handle = 0
          /\ Goto(Recv(k), "close_handle")
          /\ UNCHANGED <<holdAsync, localHold>>
       \/ /\ handle # 0 /\ "arm" \in Faults
          /\ holdAsync' = FALSE
          /\ Goto(Recv(k), "close_handle")
          /\ UNCHANGED localHold
    /\ UNCHANGED <<sockState, handle, registered, attempt, heard, keep, appRef,
                   destroyed, setting>>

\* The handler lets go of the object after process_closesocket returned.
Release(k) ==
    /\ At(Recv(k), "release")
    /\ ReleaseHold(k)
    /\ Goto(Recv(k), "done")
    /\ UNCHANGED <<sockState, handle, registered, attempt, heard, keep, appRef,
                   destroyed, setting>>

-----------------------------------------------------------------------------
(* The application and the end of the object *)

\* closesocket(), by a holder of the socket or through the connector's list.
CloseSocket ==
    /\ appRef \/ registered
    /\ handle # 0 /\ ~destroyed
    /\ handle' = 0
    /\ UNCHANGED <<sockState, registered, holdAsync, localHold, attempt, pc,
                   heard, keep, appRef, destroyed, setting>>

DropRef ==
    /\ MayDrop /\ appRef
    /\ appRef' = FALSE
    /\ UNCHANGED <<sockState, handle, registered, holdAsync, localHold,
                   attempt, pc, heard, keep, destroyed, setting>>

\* The shared_ptrs to the object; the connect handler carries one.
Referenced ==
    \/ appRef \/ registered \/ holdAsync
    \/ \E k \in Attempts : \/ localHold[k]
                           \/ pc[Conn(k)] \notin {"idle", "done"}

\* ~Nsocket_tcp runs process_closesocket; on_disconnect is the empty one.
Destroy ==
    /\ ~Referenced /\ ~destroyed
    /\ destroyed' = TRUE
    /\ handle' = 0
    /\ IF sockState = "ESTABLISHED"
       THEN keep' = keep - 1 /\ sockState' = "NONE"
       ELSE UNCHANGED <<keep, sockState>>
    /\ UNCHANGED <<registered, holdAsync, localHold, attempt, pc, heard,
                   appRef, setting>>

-----------------------------------------------------------------------------
ConnStep(k) ==
    \/ Register(k) \/ RequestConnect(k) \/ ConnectCompletes(k)
    \/ CompleteConnect(k) \/ OnConnect(k) \/ ArmFirst(k) \/ CountSuccess(k)
    \/ FailConnect(k) \/ FailUnregister(k) \/ FailNone(k) \/ FailClose(k)

CloseStep(t) ==
    \/ CloseHandle(t) \/ CloseCas(t) \/ CloseNotify(t)
    \/ CloseUnregister(t) \/ CloseNone(t)

\* A handler that runs; ReadCompletes is up to the peer while the handle is
\* open.
RecvStep(k) == ReceiveError(k) \/ Deliver(k) \/ Rearm(k) \/ Release(k)

Next ==
    \/ Start \/ CloseSocket \/ DropRef \/ Destroy
    \/ \E k \in Attempts : ConnStep(k) \/ RecvStep(k) \/ ReadCompletes(k)
    \/ \E t \in Threads : CloseStep(t)

\* The io threads run every handler to its end, async_connect completes
\* after the kernel's timeout at the latest, and a closed handle aborts its
\* read.  Nothing obliges the application or the peer.
Fairness ==
    /\ \A k \in Attempts :
          /\ WF_vars(ConnStep(k))
          /\ WF_vars(RecvStep(k))
          /\ WF_vars(handle # k /\ ReadCompletes(k))
    /\ \A t \in Threads : WF_vars(CloseStep(t))
    /\ WF_vars(Destroy)

Spec == Init /\ [][Next]_vars
FairSpec == Spec /\ Fairness

-----------------------------------------------------------------------------
(* Properties *)

\* While a read is outstanding or its handler has not let go, the object is
\* held (Nsocket_tcp.cpp:181), by m_hold_async or by the handler's local.  A
\* read that cannot be started lets go before its handler has closed.
HoldCoversEveryRead ==
    "arm" \notin Faults =>
    \A k \in Attempts :
        pc[Recv(k)] \in Outstanding => holdAsync \/ localHold[k]

\* No completion handler of a session runs on a destroyed object.
NoUseAfterFree ==
    destroyed /\ "arm" \notin Faults =>
    \A k \in Attempts : pc[Recv(k)] \notin Outstanding

\* Both are so for an object that has not been started again: no handler runs
\* on memory that is gone.
HoldCoversRead == attempt <= 1 => HoldCoversEveryRead /\ NoUseAfterFree

\* A socket that may be started again is listed nowhere any more, so that
\* registering it cannot fail and the old list keeps no reference to it.
RestartableIsUnlisted == sockState = "NONE" => ~registered

\* close_connectable_all reaches every open established socket of a connector;
\* the roll-back of a failed allocation unlists it before it is closed.
EstablishedIsListed ==
    Connector /\ sockState = "ESTABLISHED" /\ handle # 0 /\ "alloc" \notin Faults
    => registered

\* Between handlers the keep statistic counts the established sockets, unless
\* the session of a failing connect was closed before it was counted.
Quiet == \A t \in Threads : pc[t] \in {"idle", "pending", "done"}
KeepBalanced ==
    Quiet /\ Faults \cap {"arm", "weak_cas"} = {} =>
    keep = IF sockState = "ESTABLISHED" THEN 1 ELSE 0

\* What the process keeps about its sockets agrees with their states: the
\* connector's list while a session is open, the statistic between handlers.
BooksAgree == EstablishedIsListed /\ KeepBalanced

\* The application's callbacks follow SessionProtocol: in order, complete, and
\* never those of two attempts at once; as long as every read can be started,
\* no exchange fails spuriously and a connector reports what else goes wrong.
Reports ==
    Faults \subseteq {"on_connect", "on_message"}
                    \cup IF Connector THEN {"alloc"} ELSE {}
Protocol == INSTANCE SessionProtocol
    WITH attempt <- IF Reports THEN attempt ELSE 0,
         busy <- Reports /\ sockState # "NONE",
         heard <- IF Reports THEN heard ELSE [k \in Attempts |-> <<>>]
CallbackProtocol == Protocol!PSpec

\* A socket whose handle was closed under it leaves ESTABLISHED, and with
\* CallbackProtocol has been told so, while the application keeps it alive.
ClosedIsReported ==
    "weak_cas" \notin Faults /\ []appRef => (sockState = "ESTABLISHED" /\ handle = 0 ~> sockState = "NONE")

\* An object nobody uses any more is freed: no path forgets its hold.  A weak
\* exchange that fails leaves it in the list for ever.
NoLeak ==
    "weak_cas" \notin Faults =>
    (<>[](~appRef /\ handle = 0) => <>destroyed)

-----------------------------------------------------------------------------
(* Why the books agree and the protocol holds: the stages of the current     *)
(* attempt.  Every stage fixes the state, both threads, the last callback    *)
(* and the listing.                                                          *)

LastIn(k, S) == heard[k] # <<>> /\ heard[k][Len(heard[k])] \in S

\* A socket that connects itself is never listed.
Listed(isListed) == registered <=> Connector /\ isListed

Over(k) == /\ pc[Conn(k)] \in {"fail_close", "count", "done"}
           /\ pc[Recv(k)] \in {"idle", "release", "done"}

Connecting(k) ==
    /\ sockState = "SYN"
    /\ pc[Conn(k)] \in {"register", "connect", "pending", "ok", "err"}
    /\ pc[Recv(k)] = "idle"
    /\ LastIn(k, {"request"})
    /\ Listed(pc[Conn(k)] # "register")
    /\ pc[Conn(k)] = "register" => Connector

\* An established socket that is about to be unlisted was closed, unless its
\* buffer could not be allocated.
MayUnlist == handle = 0 \/ "alloc" \in Faults

Failing(k) ==
    /\ sockState \in {"SYN", "ESTABLISHED"}
    /\ pc[Conn(k)] \in {"fail_unregister", "fail_none"}
    /\ pc[Recv(k)] = "idle"
    /\ Reports => LastIn(k, {"fail"})
    /\ Listed(pc[Conn(k)] = "fail_unregister")
    /\ sockState = "ESTABLISHED" => MayUnlist

Opening(k) ==
    /\ sockState = "ESTABLISHED"
    /\ pc[Conn(k)] \in {"on_connect", "arm", "fail"}
    /\ pc[Recv(k)] = "idle"
    /\ LastIn(k, IF pc[Conn(k)] = "on_connect" THEN {"request"} ELSE {"connect"})
    /\ Listed(TRUE)
    /\ pc[Conn(k)] = "fail" => MayUnlist

\* The first read could not be started.
RollingBack(k) ==
    /\ "arm" \in Faults
    /\ registered => Connector
    /\ pc[Conn(k)] \in ClosePoints \cup {"fail", "fail_unregister", "fail_none"}
    /\ pc[Recv(k)] = "idle"
    /\ pc[Conn(k)] \in {"close_handle", "close_cas"} => sockState = "ESTABLISHED"
    /\ pc[Conn(k)] \in {"close_notify", "close_unregister", "close_none"}
       => sockState = "CLOSING"
    /\ pc[Conn(k)] \notin ClosePoints => sockState \in {"NONE", "ESTABLISHED"}
    /\ pc[Conn(k)] = "close_handle" => Listed(TRUE)
    /\ pc[Conn(k)] # "close_handle" => handle = 0
    /\ pc[Conn(k)] \in {"close_none", "fail_none"} \/ sockState = "NONE"
       => ~registered

Receiving(k) ==
    /\ sockState = IF pc[Recv(k)] = "close_notify" THEN "CLOSING" ELSE "ESTABLISHED"
    /\ pc[Conn(k)] \in {"count", "done"}
    /\ pc[Recv(k)] \in {"pending", "ok", "err", "rearm", "close_handle",
                        "close_cas", "close_notify"}
    /\ LastIn(k, {"connect", "message"})
    /\ Listed(TRUE)

Closing(k) ==
    /\ sockState = "CLOSING"
    /\ pc[Conn(k)] \in {"count", "done"}
    /\ pc[Recv(k)] \in {"close_unregister", "close_none"}
    /\ LastIn(k, {"disconnect"})
    /\ Listed(pc[Recv(k)] = "close_unregister")

Closed(k) ==
    /\ sockState = "NONE"
    /\ Over(k)
    /\ Reports => LastIn(k, {"fail", "disconnect"})
    /\ ~registered

\* An exchange failed spuriously, and its handler went on as if another thread
\* had been first.
Stuck(k) ==
    /\ "weak_cas" \in Faults
    /\ sockState \in {"SYN", "ESTABLISHED"}
    /\ Over(k)
    /\ Listed(TRUE)

Stage(k) == \/ Connecting(k) \/ Failing(k) \/ Opening(k) \/ RollingBack(k)
            \/ Receiving(k) \/ Closing(k) \/ Closed(k) \/ Stuck(k)

AttemptsInTurn ==
    \A k \in Attempts :
        /\ k > attempt => /\ pc[Conn(k)] = "idle" /\ pc[Recv(k)] = "idle"
                          /\ heard[k] = <<>>
        /\ k < attempt => Over(k)

\* The inductive invariant: earlier attempts are over, later ones have not
\* begun, and the current one is in a stage.
IInv ==
    /\ attempt <= Starts
    /\ MayDrop \/ appRef
    /\ AttemptsInTurn
    /\ destroyed => ~registered /\ handle = 0
    /\ ~destroyed => IF attempt = 0 THEN sockState = "NONE" /\ ~registered
                                    ELSE Stage(attempt)

\* A read that cannot be started rolls the attempt back after the socket may
\* be started again: what is said of the stages is so without that fault, or
\* for a socket that is started once.
StagesApply == "arm" \in Faults => Starts = 1
=============================================================================
