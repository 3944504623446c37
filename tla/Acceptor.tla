------------------------------ MODULE Acceptor ------------------------------
(***************************************************************************)
(* Nacceptor: start() opens an accept socket and sets accept instances to  *)
(* work, each of which accepts one connection after the other; close()     *)
(* closes the sessions and then the accept socket, whereupon the instances *)
(* are meant to remove themselves.  An instance holds the acceptor, the    *)
(* acceptor its instances and, as a Nconnective, its sessions, which hold  *)
(* it in turn.  One application thread starts, another one closes, any io  *)
(* thread runs a completion handler.  A session that is established goes   *)
(* on as in TcpSession; only its end is seen here.                         *)
(***************************************************************************)
EXTENDS Integers, FiniteSets

CONSTANTS
    MaxWorkers,      \* bound: hardware_concurrency
    MaxStarts,       \* bound: calls of start()
    MaxConnections,  \* bound: connections the kernel accepts
    Settings         \* the settings a behaviour may have, see below

(***************************************************************************)
(* "accept"      accepting fails although the accept socket is open        *)
(* "create"      process_create_socket throws                              *)
(* "on_connect"  on_connect throws                                         *)
(* "alloc"       the receive buffer cannot be allocated                    *)
(* "arm"         the first async_read_some throws                          *)
(* "weak_cas"    compare_exchange_weak fails although the value is right   *)
(***************************************************************************)
AllFaults == {"accept", "create", "on_connect", "alloc", "arm", "weak_cas"}

ASSUME BoundsAssumption ==
    MaxWorkers \in Nat \ {0} /\ MaxStarts \in Nat \ {0} /\ MaxConnections \in Nat

\* How many instances a start() creates, how often it is called, and what may
\* go wrong.
ASSUME SettingsAssumption ==
    Settings \subseteq [workers : 1..MaxWorkers, starts : 0..MaxStarts,
                       faults : SUBSET AllFaults]

Contexts == 1..MaxStarts
Connections == 1..MaxConnections
Instances == Contexts \X (1..MaxWorkers)

\* An instance: not created, in start(), waiting, in its handler, removed, or
\* left in the list without an accept.
Points == {"none", "fresh", "pending", "err", "register", "connect",
           "on_connect", "arm", "unregister", "none_state", "again", "gone",
           "lost"}
Registered == Points \ {"none", "gone"}
SessionStates == {"NONE", "SYN", "ESTABLISHED", "CLOSING"}

VARIABLES
    setting,     \* the setting of this behaviour
    context,     \* m_accept_context, 0 when it is null
    listening,   \* the accept sockets that are open
    starts,      \* calls of start() so far
    starter,     \* start(): the instances left to create, and where it is
    closer,      \* close(): where it is, the copied list, the context it took
    closed,      \* close() returned and start() was not called since
    instance,    \* m_list_instance: where each instance is
    accepting,   \* the context each instance was given
    serving,     \* the connection each instance handles
    connections, \* connections accepted so far
    session,     \* m_socket_state of each accepted socket
    handle,      \* the accepted sockets whose handle is open
    listed,      \* m_list_sockets
    reading,     \* the sessions with a read outstanding
    appRef,      \* the application holds the acceptor
    freed,       \* the destructor ran: with the mutex free or "locked"
    crashed      \* a null accept context was used, or an exception ended it

vars == <<setting, context, listening, starts, starter, closer, closed,
          instance, accepting, serving, connections, session, handle, listed,
          reading, appRef, freed, crashed>>

sessionVars == <<connections, session, handle, listed, reading>>
instanceVars == <<instance, accepting, serving>>
controlVars == <<context, listening, starts, starter, closer, closed>>
objectVars == <<setting, appRef, freed, crashed>>

TypeOK ==
    /\ setting \in Settings
    /\ context \in {0} \cup Contexts
    /\ listening \subseteq Contexts
    /\ starts \in 0..MaxStarts
    /\ starter \in [point : {"idle", "request", "accept"}, left : 0..MaxWorkers]
    /\ closer \in [point : {"idle", "sockets", "take", "close"},
                   copy : SUBSET Connections, context : {0} \cup Contexts]
    /\ closed \in BOOLEAN
    /\ instance \in [Instances -> Points]
    /\ accepting \in [Instances -> {0} \cup Contexts]
    /\ serving \in [Instances -> {0} \cup Connections]
    /\ connections \in 0..MaxConnections
    /\ session \in [Connections -> SessionStates]
    /\ handle \subseteq Connections
    /\ listed \subseteq Connections
    /\ reading \subseteq Connections
    /\ appRef \in BOOLEAN
    /\ freed \in {"no", "yes", "locked"}
    /\ crashed \in BOOLEAN

Init ==
    /\ setting \in Settings
    /\ context = 0 /\ listening = {} /\ starts = 0
    /\ starter = [point |-> "idle", left |-> 0]
    /\ closer = [point |-> "idle", copy |-> {}, context |-> 0]
    /\ closed = FALSE
    /\ instance = [i \in Instances |-> "none"]
    /\ accepting = [i \in Instances |-> 0]
    /\ serving = [i \in Instances |-> 0]
    /\ connections = 0
    /\ session = [c \in Connections |-> "NONE"]
    /\ handle = {} /\ listed = {} /\ reading = {}
    /\ appRef = TRUE /\ freed = "no" /\ crashed = FALSE

Alive == freed = "no" /\ ~crashed
Goto(i, point) == instance' = [instance EXCEPT ![i] = point]
At(i, point) == instance[i] = point /\ Alive
Workers == setting.workers
faults == setting.faults
Fails(fault) == fault \in faults

\* process_accept throws when it cannot create a socket, or take it from NONE
\* to SYN.
AcceptThrows == Fails("create") \/ Fails("weak_cas")

-----------------------------------------------------------------------------
(* start() *)

\* The accept socket is opened and becomes m_accept_context; one that is there
\* already is left to its instances.
Start ==
    /\ appRef /\ Alive /\ starter.point = "idle" /\ starts < setting.starts
    /\ starts' = starts + 1
    /\ context' = starts'
    /\ listening' = listening \cup {starts'}
    /\ starter' = [point |-> "request", left |-> Workers]
    /\ closed' = FALSE
    /\ UNCHANGED <<closer, instanceVars, sessionVars, objectVars>>

\* The instance the starting thread is about to create or to set to work.
Created == <<starts, starter.left>>

\* process_instance_register: the instance copies m_accept_context.
RegisterInstance ==
    /\ Alive /\ starter.point = "request"
    /\ Goto(Created, "fresh")
    /\ accepting' = [accepting EXCEPT ![Created] = context]
    /\ starter' = [starter EXCEPT !.point = "accept"]
    /\ UNCHANGED <<context, listening, starts, closer, closed, serving,
                   sessionVars, objectVars>>

\* async_accept of an instance: on a closed accept socket it fails.
Accepting(i) == Goto(i, IF accepting[i] \in listening THEN "pending" ELSE "err")

\* A bug: the counter is decremented twice in a round.
NextInstance_Twice ==
    starter' = [point |-> IF starter.left = 1 THEN "idle" ELSE "request",
                left |-> starter.left - 2]

NextInstance ==
    starter' = [point |-> IF starter.left = 1 THEN "idle" ELSE "request",
                left |-> starter.left - 1]

\* process_accept, called by start().  An instance registered after close()
\* took the context has none.
StartInstance ==
    /\ Alive /\ starter.point = "accept"
    /\ \/ /\ accepting[Created] # 0
          /\ Accepting(Created)
          /\ UNCHANGED crashed
       \/ /\ accepting[Created] = 0
          /\ crashed' = TRUE
          /\ UNCHANGED instance
       \/ /\ AcceptThrows
          /\ Goto(Created, "gone")
          /\ UNCHANGED crashed
    /\ NextInstance
    /\ UNCHANGED <<context, listening, starts, closer, closed, accepting,
                   serving, sessionVars, setting, appRef, freed>>

-----------------------------------------------------------------------------
(* The accept handler *)

\* The kernel has a connection.
AcceptCompletes(i) ==
    /\ At(i, "pending") /\ accepting[i] \in listening
    /\ connections < MaxConnections
    /\ connections' = connections + 1
    /\ serving' = [serving EXCEPT ![i] = connections']
    /\ session' = [session EXCEPT ![connections'] = "SYN"]
    /\ handle' = handle \cup {connections'}
    /\ Goto(i, "register")
    /\ UNCHANGED <<accepting, listed, reading, controlVars, objectVars>>

\* Accepting failed: no more handles, or the accept socket was closed.
AcceptFails(i) ==
    /\ At(i, "pending")
    /\ accepting[i] \notin listening \/ Fails("accept")
    /\ Goto(i, "err")
    /\ UNCHANGED <<accepting, serving, controlVars, sessionVars, objectVars>>

\* Who holds the acceptor apart from instance i.
HeldWithout(i) ==
    \/ appRef \/ listed # {}
    \/ \E j \in Instances \ {i} : instance[j] \in Registered

\* A bug: the instance accepts again whatever the error is.
AcceptError_Retries(i) ==
    /\ At(i, "err")
    /\ Goto(i, "pending")
    /\ UNCHANGED <<accepting, serving, controlVars, sessionVars, objectVars>>

\* process_instance_unregister under the mutex: the instance goes and with it
\* perhaps the last reference to the acceptor, whose destructor closes what
\* m_accept_context still holds.
AcceptError(i) ==
    /\ At(i, "err")
    /\ Goto(i, "gone")
    /\ IF HeldWithout(i)
       THEN UNCHANGED <<freed, listening>>
       ELSE freed' = "locked" /\ listening' = listening \ {context}
    /\ UNCHANGED <<accepting, serving, context, starts, starter, closer,
                   closed, sessionVars, setting, appRef, crashed>>

\* A bug: the session is established without being in the list.
RegisterSocket_Unlisted(i) ==
    /\ At(i, "register")
    /\ Goto(i, "connect")
    /\ UNCHANGED <<accepting, serving, sessionVars, controlVars, objectVars>>

RegisterSocket(i) ==
    /\ At(i, "register")
    /\ listed' = listed \cup {serving[i]}
    /\ Goto(i, "connect")
    /\ UNCHANGED <<accepting, serving, connections, session, handle, reading,
                   controlVars, objectVars>>

\* process_complete_connect returns when the exchange fails: the connection
\* stays in the list, in state SYN, and nothing is ever read from it.
CompleteConnect(i) ==
    /\ At(i, "connect")
    /\ \/ /\ session' = [session EXCEPT ![serving[i]] = "ESTABLISHED"]
          /\ Goto(i, "on_connect")
       \/ Fails("weak_cas") /\ Goto(i, "again") /\ UNCHANGED session
    /\ UNCHANGED <<accepting, serving, connections, handle, listed, reading,
                   controlVars, objectVars>>

\* on_connect; a throwing one has the native handle closed.
OnConnect(i) ==
    /\ At(i, "on_connect")
    /\ \/ Goto(i, "arm") /\ UNCHANGED handle
       \/ /\ Fails("on_connect")
          /\ Goto(i, "unregister")
          /\ handle' = handle \ {serving[i]}
    /\ UNCHANGED <<accepting, serving, connections, session, listed, reading,
                   controlVars, objectVars>>

\* process_closesocket as far as the exchange, which may fail.
Closes(c) ==
    /\ handle' = handle \ {c}
    /\ \/ session' = [session EXCEPT ![c] = "CLOSING"]
       \/ Fails("weak_cas") /\ UNCHANGED session

\* The first read.  When it cannot be started the session is closed, in the
\* accept handler.
ArmFirst(i) ==
    /\ At(i, "arm")
    /\ \/ /\ Goto(i, "again")
          /\ reading' = reading \cup {serving[i]}
          /\ UNCHANGED <<session, handle>>
       \/ /\ Fails("alloc")
          /\ Goto(i, "unregister")
          /\ UNCHANGED <<session, handle, reading>>
       \/ /\ Fails("arm")
          /\ Goto(i, "unregister")
          /\ Closes(serving[i])
          /\ UNCHANGED reading
    /\ UNCHANGED <<accepting, serving, connections, listed, controlVars,
                   objectVars>>

\* A bug: the roll-back leaves the socket in the list.
Unregister_Not(i) ==
    /\ At(i, "unregister") /\ session[serving[i]] # "CLOSING"
    /\ Goto(i, "none_state")
    /\ UNCHANGED <<accepting, serving, sessionVars, controlVars, objectVars>>

\* The exception is caught, after a process_closesocket that was called: the
\* socket leaves the list ...
Unregister(i) ==
    /\ At(i, "unregister") /\ session[serving[i]] # "CLOSING"
    /\ listed' = listed \ {serving[i]}
    /\ Goto(i, "none_state")
    /\ UNCHANGED <<accepting, serving, connections, session, handle, reading,
                   controlVars, objectVars>>

\* ... and is in state NONE; the handle goes with the object, at the latest.
RollBackNone(i) ==
    /\ At(i, "none_state")
    /\ session' = [session EXCEPT ![serving[i]] = "NONE"]
    /\ handle' = handle \ {serving[i]}
    /\ Goto(i, "again")
    /\ UNCHANGED <<accepting, serving, connections, listed, reading,
                   controlVars, objectVars>>

\* A bug: a worker accepts one connection and no more.
Again_Once(i) ==
    /\ At(i, "again")
    /\ serving' = [serving EXCEPT ![i] = 0]
    /\ Goto(i, "gone")
    /\ UNCHANGED <<accepting, sessionVars, controlVars, objectVars>>

\* process_accept again.  What it throws leaves the handler: it ends the
\* program, as no io thread catches it, or in an application thread that
\* called run_executor() and catches it, only the handler.
Again(i) ==
    /\ At(i, "again")
    /\ serving' = [serving EXCEPT ![i] = 0]
    /\ \/ Accepting(i) /\ UNCHANGED crashed
       \/ AcceptThrows /\ Goto(i, "lost") /\ UNCHANGED crashed
       \/ AcceptThrows /\ crashed' = TRUE /\ UNCHANGED instance
    /\ UNCHANGED <<accepting, sessionVars, controlVars, setting, appRef, freed>>

-----------------------------------------------------------------------------
(* close() *)

\* destroy_connectable_all copies the list ...
CloseCopy ==
    /\ appRef /\ Alive /\ closer.point = "idle"
    /\ closer' = [closer EXCEPT !.point = "sockets", !.copy = listed]
    /\ UNCHANGED <<context, listening, starts, starter, closed, instanceVars,
                   sessionVars, objectVars>>

\* ... and closes the sockets it copied, one by one.
CloseSocket ==
    /\ Alive /\ closer.point = "sockets"
    /\ \E c \in closer.copy :
          /\ closer' = [closer EXCEPT !.copy = @ \ {c}]
          /\ handle' = handle \ {c}
    /\ UNCHANGED <<context, listening, starts, starter, closed, instanceVars,
                   connections, session, listed, reading, objectVars>>

\* Under the mutex: take the context.
CloseTake ==
    /\ Alive /\ closer.point = "sockets" /\ closer.copy = {}
    /\ closer' = [closer EXCEPT !.point = IF context = 0 THEN "idle" ELSE "close",
                                !.context = context]
    /\ context' = 0
    /\ closed' = (context = 0)
    /\ UNCHANGED <<listening, starts, starter, instanceVars, sessionVars,
                   objectVars>>

CloseContext ==
    /\ Alive /\ closer.point = "close"
    /\ listening' = listening \ {closer.context}
    /\ closer' = [closer EXCEPT !.point = "idle", !.context = 0]
    /\ closed' = (context = 0)
    /\ UNCHANGED <<context, starts, starter, instanceVars, sessionVars,
                   objectVars>>

-----------------------------------------------------------------------------
(* The sessions and the end of the acceptor *)

\* process_closesocket of an established session, run by its receive handler
\* when the handle is closed or the peer ends the session.
SessionEnds(c) ==
    /\ ~crashed /\ c \in reading
    /\ session[c] = "ESTABLISHED"
    /\ Closes(c)
    /\ reading' = reading \ {c}
    /\ UNCHANGED <<connections, listed, instanceVars, controlVars, objectVars>>

\* Nothing but the session holds the acceptor any more.
LastSession(c) ==
    /\ ~appRef /\ listed = {c}
    /\ \A i \in Instances : instance[i] \notin Registered

\* process_connective_closesocket holds the acceptor while it unregisters, so
\* that the destructor runs afterwards and with no mutex locked.
SessionUnregisters(c) ==
    /\ ~crashed /\ session[c] = "CLOSING"
    /\ session' = [session EXCEPT ![c] = "NONE"]
    /\ listed' = listed \ {c}
    /\ IF LastSession(c)
       THEN freed' = "yes" /\ listening' = listening \ {context}
       ELSE UNCHANGED <<freed, listening>>
    /\ UNCHANGED <<connections, handle, reading, instanceVars, context, starts,
                   starter, closer, closed, setting, appRef, crashed>>

\* The application lets go of the acceptor.
DropRef ==
    /\ appRef /\ Alive
    /\ starter.point = "idle" /\ closer.point = "idle"
    /\ appRef' = FALSE
    /\ IF listed = {} /\ \A i \in Instances : instance[i] \notin Registered
       THEN freed' = "yes" /\ listening' = listening \ {context}
       ELSE UNCHANGED <<freed, listening>>
    /\ UNCHANGED <<context, starts, starter, closer, closed, instanceVars,
                   sessionVars, setting, crashed>>

-----------------------------------------------------------------------------
StarterStep == RegisterInstance \/ StartInstance
HandlerStep(i) ==
    \/ AcceptError(i) \/ RegisterSocket(i) \/ CompleteConnect(i)
    \/ OnConnect(i) \/ ArmFirst(i) \/ Unregister(i) \/ RollBackNone(i)
    \/ Again(i)
CloserStep == CloseSocket \/ CloseTake \/ CloseContext

Next ==
    \/ Start \/ CloseCopy \/ DropRef
    \/ StarterStep \/ CloserStep
    \/ \E i \in Instances : HandlerStep(i) \/ AcceptCompletes(i) \/ AcceptFails(i)
    \/ \E c \in Connections : SessionEnds(c) \/ SessionUnregisters(c)

\* Calls return, handlers run to their end, closing an accept socket aborts
\* its accepts and closing a session's handle its read.  No peer is obliged
\* to connect, nor the application to start, close or let go.
Fairness ==
    /\ WF_vars(StarterStep) /\ WF_vars(CloserStep)
    /\ \A i \in Instances :
          /\ WF_vars(HandlerStep(i))
          /\ WF_vars(accepting[i] \notin listening /\ AcceptFails(i))
    /\ \A c \in Connections :
          /\ WF_vars(c \notin handle /\ SessionEnds(c))
          /\ WF_vars(SessionUnregisters(c))

Spec == Init /\ [][Next]_vars
FairSpec == Spec /\ Fairness

-----------------------------------------------------------------------------
(* Properties *)

InHandler(i) == instance[i] \in Points \ {"none", "gone", "lost", "pending"}
Established(c) == session[c] = "ESTABLISHED" /\ c \in handle

\* close() and Nconnective::send reach every open session of the acceptor,
\* from before the application hears of it.
EstablishedIsListed ==
    "alloc" \notin faults => \A c \in Connections : Established(c) => c \in listed

\* And a session that is over leaves no entry in the list behind.
ListedIsLive ==
    \A c \in listed : session[c] # "NONE" \/ \E i \in Instances : serving[i] = c

\* The list is that of the sessions that are open.
ListAgrees == EstablishedIsListed /\ ListedIsLive

\* While the acceptor is open every worker waits for a connection or handles
\* one, unless accepting failed or process_accept threw.
FullStrength ==
    /\ starter.point = "idle" /\ context # 0 /\ freed = "no" /\ ~crashed
    /\ faults \cap {"accept", "create", "weak_cas"} = {}
    => \A w \in 1..Workers :
          instance[<<context, w>>] = "pending" \/ InHandler(<<context, w>>)

\* Closing an accept socket removes its instances from the list (the comment
\* at Nacceptor.cpp:79), except one whose last accept could not be started.
InstancesDrain ==
    \A i \in Instances :
        (accepting[i] # 0 /\ accepting[i] \notin listening)
        ~> (instance[i] \in {"gone", "lost"} \/ crashed)

\* Once everything is closed and over, the acceptor is freed when the
\* application lets go of it: the references do not stay a circle, unless an
\* exchange failed and a session stays in the list for good.
Over ==
    /\ ~Fails("weak_cas") /\ ~appRef /\ listening = {} /\ handle = {}
    /\ \A i \in Instances : instance[i] # "lost"
AcceptorIsFreed == <>[]Over => <>(freed # "no" \/ crashed)

\* What the comment of close() says: it closes all sockets that are connected
\* by this acceptor (Nacceptor.cpp:53).
CloseEndsSessions ==
    closed /\ (\A i \in Instances : ~InHandler(i)) =>
    \A c \in Connections : ~Established(c)

=============================================================================
