--------------------------- MODULE Acceptor_proofs ---------------------------
(***************************************************************************)
(* Proofs about Acceptor, for any number of workers, starts, connections   *)
(* and any faults: type correctness, and the inductive invariant IInv from *)
(* which ListAgrees and FullStrength follow.                               *)
(***************************************************************************)
EXTENDS Acceptor, TLAPS

USE BoundsAssumption

(* The inductive invariant *)

\* start() has an instance left to create.
StarterBounds ==
    starter.point # "idle" => starts \in Contexts /\ starter.left \in 1..Workers

\* Where an instance has a connection of its own.
Serves == {"register", "connect", "on_connect", "arm", "unregister",
           "none_state", "again"}

ServingOwn ==
    /\ \A i \in Instances : serving[i] \in 0..connections
    /\ \A i \in Instances : instance[i] \in Serves \ {"again"} => serving[i] # 0
    /\ \A i, j \in Instances : serving[i] = serving[j] /\ serving[i] # 0 => i = j

\* What the kernel has not accepted yet.
Unborn ==
    \A c \in Connections :
        c > connections => session[c] = "NONE" /\ c \notin listed \cup reading

\* How far the session of each instance has come.
Stage(i, point, state) ==
    instance[i] = point =>
        session[serving[i]] = state /\ serving[i] \notin reading

Rolling(i, point) ==
    instance[i] = point => Fails("alloc") \/ serving[i] \notin handle

Stages ==
    \A i \in Instances :
        /\ Stage(i, "register", "SYN")
        /\ Stage(i, "connect", "SYN")
        /\ Stage(i, "on_connect", "ESTABLISHED")
        /\ Stage(i, "arm", "ESTABLISHED")
        /\ instance[i] \in {"connect", "on_connect", "arm"} => serving[i] \in listed
        /\ Rolling(i, "unregister") /\ Rolling(i, "none_state")
        /\ instance[i] = "none_state" => serving[i] \notin listed

ListedIsBegun == \A c \in listed : session[c] # "NONE"

\* Instances at work on the accept socket of the last start().
AtWork(w) ==
    /\ instance[<<starts, w>>] \in {"pending"} \cup Serves
    /\ accepting[<<starts, w>>] = starts

ContextIsLast ==
    /\ context \in {0, starts}
    /\ closer.context <= starts
    /\ closer.point = "close" /\ context # 0 => closer.context # context

Strength ==
    context # 0 /\ freed = "no" /\ faults \cap {"accept", "create", "weak_cas"} = {} =>
        /\ context \in listening
        /\ \A w \in 1..Workers :
              starter.point = "idle" \/ w > starter.left => AtWork(w)
        /\ starter.point = "accept" =>
              /\ instance[Created] = "fresh"
              /\ accepting[Created] = starts

IInv ==
    /\ TypeOK
    /\ StarterBounds
    /\ ServingOwn
    /\ Unborn
    /\ Stages
    /\ ListedIsBegun
    /\ EstablishedIsListed
    /\ ContextIsLast
    /\ Strength

-----------------------------------------------------------------------------
(* Facts every step needs *)

LEMMA SettingsType == TypeOK => Workers \in Nat /\ Workers \in 1..MaxWorkers
BY SettingsAssumption DEF TypeOK, Workers

LEMMA CreatedIsInstance ==
    ASSUME IInv, starter.point # "idle"
    PROVE  /\ Created \in Instances
           /\ starts \in Contexts
           /\ starter.left \in 1..MaxWorkers
<1>1. TypeOK /\ StarterBounds
  BY DEF IInv
<1> QED
  BY <1>1, SettingsType DEF StarterBounds, Created, Instances

\* The connection of an instance that has one.
LEMMA ServingIsConnection ==
    ASSUME IInv, NEW i \in Instances, instance[i] \in Serves \ {"again"}
    PROVE  serving[i] \in Connections /\ serving[i] <= connections
<1>1. serving[i] \in 0..connections /\ serving[i] # 0 /\ connections \in 0..MaxConnections
  BY DEF IInv, ServingOwn, TypeOK
<1> QED
  BY <1>1 DEF Connections

-----------------------------------------------------------------------------
(* Type correctness *)

LEMMA InitType == Init => TypeOK
<1> SUFFICES ASSUME Init PROVE TypeOK
  OBVIOUS
<1>1. /\ instance \in [Instances -> Points]
      /\ accepting \in [Instances -> {0} \cup Contexts]
      /\ serving \in [Instances -> {0} \cup Connections]
      /\ session \in [Connections -> SessionStates]
  BY DEF Init, Points, SessionStates
<1>2. /\ starter \in [point : {"idle", "request", "accept"}, left : 0..MaxWorkers]
      /\ closer \in [point : {"idle", "sockets", "take", "close"},
                     copy : SUBSET Connections, context : {0} \cup Contexts]
  BY DEF Init
<1>3. starts \in 0..MaxStarts /\ connections \in 0..MaxConnections
  BY DEF Init
<1>4. /\ setting \in Settings /\ context \in {0} \cup Contexts
      /\ listening \subseteq Contexts /\ closed \in BOOLEAN
      /\ handle \subseteq Connections /\ listed \subseteq Connections
      /\ reading \subseteq Connections
      /\ appRef \in BOOLEAN /\ freed \in {"no", "yes", "locked"} /\ crashed \in BOOLEAN
  BY DEF Init
<1> QED
  BY <1>1, <1>2, <1>3, <1>4 DEF TypeOK

LEMMA ControlType ==
    ASSUME IInv, Start \/ CloseCopy \/ DropRef \/ StarterStep \/ CloserStep
    PROVE  TypeOK'
<1>1. TypeOK
  BY DEF IInv
<1> USE <1>1, SettingsType
    DEF TypeOK, sessionVars, instanceVars, objectVars, controlVars
<1>2. CASE Start
  <2>1. starts + 1 \in Contexts /\ starts + 1 \in 0..MaxStarts
    <3>1. setting.starts \in 0..MaxStarts
      BY SettingsAssumption
    <3> QED
      BY <1>2, <3>1 DEF Start, Contexts
  <2>2. starter' \in [point : {"idle", "request", "accept"}, left : 0..MaxWorkers]
    BY <1>2 DEF Start
  <2>3. context' \in {0} \cup Contexts /\ listening' \subseteq Contexts
    BY <1>2, <2>1 DEF Start
  <2> QED
    BY <1>2, <2>1, <2>2, <2>3 DEF Start
<1>3. CASE RegisterInstance
  <2>1. Created \in Instances
    BY <1>3, CreatedIsInstance DEF RegisterInstance
  <2>2. instance' \in [Instances -> Points]
    BY <1>3, <2>1 DEF RegisterInstance, Goto, Points
  <2>3. accepting' \in [Instances -> {0} \cup Contexts]
    BY <1>3, <2>1 DEF RegisterInstance
  <2> QED
    BY <1>3, <2>2, <2>3 DEF RegisterInstance
<1>4. CASE StartInstance
  <2>1. starter.left \in 1..MaxWorkers
    BY <1>4, CreatedIsInstance DEF StartInstance
  <2>2. starter' \in [point : {"idle", "request", "accept"}, left : 0..MaxWorkers]
    BY <1>4, <2>1 DEF StartInstance, NextInstance
  <2>3. instance' \in [Instances -> Points]
    BY <1>4 DEF StartInstance, AcceptThrows, Accepting, Goto, Points
  <2>4. crashed' \in BOOLEAN
    BY <1>4 DEF StartInstance
  <2> QED
    BY <1>4, <2>2, <2>3, <2>4 DEF StartInstance
<1>5. CASE CloseCopy
  BY <1>5 DEF CloseCopy
<1>6. CASE CloseSocket
  BY <1>6 DEF CloseSocket
<1>7. CASE CloseTake
  BY <1>7 DEF CloseTake
<1>8. CASE CloseContext
  BY <1>8 DEF CloseContext
<1>9. CASE DropRef
  BY <1>9 DEF DropRef
<1> QED
  BY <1>2, <1>3, <1>4, <1>5, <1>6, <1>7, <1>8, <1>9 DEF StarterStep, CloserStep

LEMMA HandlerType ==
    ASSUME IInv, NEW i \in Instances,
           HandlerStep(i) \/ AcceptCompletes(i) \/ AcceptFails(i)
    PROVE  TypeOK'
<1>1. TypeOK
  BY DEF IInv
<1> USE <1>1
    DEF TypeOK, sessionVars, instanceVars, objectVars, controlVars, At, Goto, Points
<1>2. CASE AcceptCompletes(i)
  <2>1. connections + 1 \in Connections /\ connections + 1 \in 0..MaxConnections
    BY <1>2 DEF AcceptCompletes, Connections
  <2> QED
    BY <1>2, <2>1 DEF AcceptCompletes, SessionStates
<1>3. CASE AcceptFails(i)
  BY <1>3 DEF AcceptFails
<1>4. CASE AcceptError(i)
  BY <1>4 DEF AcceptError
<1>5. CASE RegisterSocket(i)
  BY <1>5, ServingIsConnection DEF RegisterSocket, Serves
<1>6. CASE CompleteConnect(i)
  BY <1>6 DEF CompleteConnect, SessionStates
<1>7. CASE OnConnect(i)
  BY <1>7 DEF OnConnect
<1>8. CASE ArmFirst(i)
  BY <1>8, ServingIsConnection DEF ArmFirst, Closes, Serves, SessionStates
<1>9. CASE Unregister(i)
  BY <1>9 DEF Unregister
<1>10. CASE RollBackNone(i)
  BY <1>10 DEF RollBackNone, SessionStates
<1>11. CASE Again(i)
  <2>1. serving' \in [Instances -> {0} \cup Connections]
    BY <1>11 DEF Again
  <2> QED
    BY <1>11, <2>1, ZenonT(30) DEF Again, AcceptThrows, Accepting
<1> QED
  BY <1>2, <1>3, <1>4, <1>5, <1>6, <1>7, <1>8, <1>9, <1>10, <1>11 DEF HandlerStep

LEMMA SessionType ==
    ASSUME IInv, NEW c \in Connections, SessionEnds(c) \/ SessionUnregisters(c)
    PROVE  TypeOK'
BY DEF IInv, TypeOK, sessionVars, instanceVars, objectVars, controlVars,
       SessionEnds, Closes, SessionUnregisters, SessionStates

LEMMA StepType == IInv /\ [Next]_vars => TypeOK'
<1> SUFFICES ASSUME IInv, [Next]_vars PROVE TypeOK'
  OBVIOUS
<1>1. CASE UNCHANGED vars
  BY <1>1 DEF IInv, TypeOK, vars
<1> QED
  BY <1>1, ControlType, HandlerType, SessionType DEF Next

-----------------------------------------------------------------------------
(* The sessions and the list *)

\* Nothing but the handlers and the ends of sessions changes a session.
SessionParts ==
    ServingOwn /\ Unborn /\ Stages /\ ListedIsBegun /\ EstablishedIsListed

LEMMA ControlKeepsSessions ==
    ASSUME IInv, Start \/ CloseCopy \/ DropRef \/ StarterStep \/ CloserStep
    PROVE  SessionParts'
<1>1. TypeOK /\ SessionParts
  BY DEF IInv, SessionParts
<1>2. /\ UNCHANGED <<serving, connections, session, listed, reading, setting>>
      /\ handle' \subseteq handle
  BY DEF Start, CloseCopy, DropRef, StarterStep, RegisterInstance, StartInstance,
         CloserStep, CloseSocket, CloseTake, CloseContext, sessionVars,
         instanceVars, objectVars
<1>3. \A i \in Instances : instance'[i] \in Serves => instance'[i] = instance[i]
  BY <1>1 DEF TypeOK, Start, CloseCopy, DropRef, StarterStep, RegisterInstance,
         StartInstance, CloserStep, CloseSocket, CloseTake, CloseContext,
         instanceVars, Accepting, Goto, Serves
<1>4. ServingOwn' /\ Unborn' /\ ListedIsBegun'
  BY <1>1, <1>2, <1>3 DEF SessionParts, ServingOwn, Unborn, ListedIsBegun
<1>5. Stages'
  BY <1>1, <1>2, <1>3 DEF SessionParts, Stages, Stage, Rolling, Serves, Fails, faults
<1>6. EstablishedIsListed'
  BY <1>1, <1>2 DEF SessionParts, EstablishedIsListed, Established, faults
<1> QED
  BY <1>4, <1>5, <1>6 DEF SessionParts

\* A new connection is nobody else's, and its session has not begun.
LEMMA AcceptKeepsSessions ==
    ASSUME IInv, NEW i \in Instances, AcceptCompletes(i)
    PROVE  SessionParts'
<1>1. TypeOK /\ SessionParts
  BY DEF IInv, SessionParts
<1> DEFINE c == connections + 1
<1>2. /\ c \in Connections /\ connections \in Nat
      /\ session[c] = "NONE" /\ c \notin listed \cup reading
  BY <1>1 DEF TypeOK, AcceptCompletes, Connections, SessionParts, Unborn
<1>3. /\ connections' = c
      /\ serving' = [serving EXCEPT ![i] = c]
      /\ session' = [session EXCEPT ![c] = "SYN"]
      /\ handle' = handle \cup {c}
      /\ instance' = [instance EXCEPT ![i] = "register"]
      /\ UNCHANGED <<listed, reading, setting>>
  BY DEF AcceptCompletes, Goto, objectVars
<1> HIDE DEF c
<1>4. \A j \in Instances : serving[j] \in 0..connections /\ serving[j] # c
  <2> SUFFICES ASSUME NEW j \in Instances
               PROVE  serving[j] \in 0..connections /\ serving[j] # c
    OBVIOUS
  <2> QED
    BY <1>1, <1>2 DEF SessionParts, ServingOwn, c
<1>5. ServingOwn'
  <2>1. \A j \in Instances : serving'[j] \in 0..connections'
    BY <1>1, <1>2, <1>3, <1>4 DEF TypeOK, c
  <2>2. \A j \in Instances : instance'[j] \in Serves \ {"again"} => serving'[j] # 0
    BY <1>1, <1>2, <1>3 DEF TypeOK, SessionParts, ServingOwn, c
  <2>3. \A j, k \in Instances : serving'[j] = serving'[k] /\ serving'[j] # 0 => j = k
    BY <1>1, <1>3, <1>4 DEF TypeOK, SessionParts, ServingOwn
  <2> QED
    BY <2>1, <2>2, <2>3 DEF ServingOwn
<1>6. Unborn'
  BY <1>1, <1>2, <1>3 DEF TypeOK, SessionParts, Unborn, Connections, c
<1>7. Stages'
  <2>1. ASSUME NEW j \in Instances, j # i
        PROVE  /\ instance'[j] = instance[j] /\ serving'[j] = serving[j]
               /\ session'[serving[j]] = session[serving[j]]
               /\ serving[j] \in handle' <=> serving[j] \in handle
    BY <2>1, <1>1, <1>3, <1>4 DEF TypeOK
  <2>2. instance'[i] = "register" /\ serving'[i] = c /\ session'[c] = "SYN"
    BY <1>1, <1>2, <1>3 DEF TypeOK
  <2> QED
    BY <1>1, <1>2, <1>3, <2>1, <2>2
       DEF SessionParts, Stages, Stage, Rolling, Fails, faults
<1>8. ListedIsBegun' /\ EstablishedIsListed'
  BY <1>1, <1>2, <1>3 DEF TypeOK, SessionParts, ListedIsBegun,
     EstablishedIsListed, Established, faults
<1> QED
  BY <1>5, <1>6, <1>7, <1>8 DEF SessionParts

\* Of the instances only i moves, and its connection is its own.
LEMMA OthersStay ==
    ASSUME IInv, NEW i \in Instances, instance[i] \in Serves \ {"again"},
           NEW j \in Instances, j # i
    PROVE  serving[j] # serving[i]
BY DEF IInv, ServingOwn

LEMMA HandlerKeepsSessions ==
    ASSUME IInv, NEW i \in Instances, HandlerStep(i) \/ AcceptFails(i)
    PROVE  SessionParts'
<1>1. TypeOK /\ SessionParts
  BY DEF IInv, SessionParts
<1> USE DEF TypeOK, sessionVars, instanceVars, objectVars, controlVars, At, Goto,
            SessionParts
<1> DEFINE c == serving[i]
<1>2. instance[i] \in Serves \ {"again"} => c \in Connections /\ c <= connections
  BY ServingIsConnection
<1>3. \A j \in Instances \ {i} :
          instance[i] \in Serves \ {"again"} => serving[j] # c
  BY OthersStay
<1> HIDE DEF c
<1>4. CASE AcceptFails(i) \/ AcceptError(i)
  <2>1. /\ UNCHANGED <<serving, connections, session, listed, reading, handle, setting>>
        /\ \A j \in Instances : instance'[j] \in Serves => instance'[j] = instance[j]
    BY <1>1, <1>4 DEF AcceptFails, AcceptError, Serves
  <2> QED
    BY <1>1, <2>1 DEF ServingOwn, Unborn, Stages, Stage, Rolling, Fails, faults,
       Serves, ListedIsBegun, EstablishedIsListed, Established
<1>5. CASE Again(i)
  <2>1. /\ UNCHANGED <<connections, session, listed, reading, handle, setting>>
        /\ serving' = [serving EXCEPT ![i] = 0]
        /\ \A j \in Instances : instance'[j] \in Serves => instance'[j] = instance[j]
        /\ instance[i] = "again"
    BY <1>1, <1>5 DEF Again, Accepting, Serves
  <2>2. ServingOwn' /\ Unborn' /\ ListedIsBegun' /\ EstablishedIsListed'
    BY <1>1, <2>1 DEF ServingOwn, Unborn, ListedIsBegun, EstablishedIsListed,
       Established, faults
  <2>3. Stages'
    BY <1>1, <2>1 DEF Stages, Stage, Rolling, Fails, faults, Serves
  <2> QED
    BY <2>2, <2>3
<1>6. CASE RegisterSocket(i)
  <2>1. /\ instance[i] = "register" /\ instance' = [instance EXCEPT ![i] = "connect"]
        /\ listed' = listed \cup {c}
        /\ UNCHANGED <<serving, connections, session, reading, handle, setting>>
    BY <1>6 DEF RegisterSocket, c
  <2>2. ServingOwn' /\ Unborn' /\ ListedIsBegun' /\ EstablishedIsListed'
    BY <1>1, <1>2, <2>1 DEF ServingOwn, Unborn, Serves, ListedIsBegun, Stages,
       Stage, EstablishedIsListed, Established, faults, c, Connections
  <2>3. Stages'
    BY <1>1, <1>3, <2>1 DEF Stages, Stage, Rolling, Fails, faults, c, Serves
  <2> QED
    BY <2>2, <2>3
<1>7. CASE CompleteConnect(i)
  <2>1. /\ instance[i] = "connect"
        /\ \/ /\ instance' = [instance EXCEPT ![i] = "on_connect"]
              /\ session' = [session EXCEPT ![c] = "ESTABLISHED"]
           \/ /\ instance' = [instance EXCEPT ![i] = "again"]
              /\ session' = session
        /\ UNCHANGED <<serving, connections, listed, reading, handle, setting>>
    BY <1>7 DEF CompleteConnect, c
  <2>2. ServingOwn' /\ Unborn' /\ ListedIsBegun' /\ EstablishedIsListed'
    BY <1>1, <1>2, <2>1 DEF ServingOwn, Unborn, Serves, ListedIsBegun, Stages,
       Stage, EstablishedIsListed, Established, faults, c, Connections
  <2>3. Stages'
    <3>1. CASE session' = session
      BY <1>1, <1>3, <2>1, <3>1 DEF Stages, Stage, Rolling, Fails, faults, c, Serves
    <3>2. CASE session' = [session EXCEPT ![c] = "ESTABLISHED"] /\ session' # session
      <4>1. instance' = [instance EXCEPT ![i] = "on_connect"]
        BY <2>1, <3>2
      <4> QED
        BY <1>1, <1>2, <1>3, <2>1, <3>2, <4>1
           DEF Stages, Stage, Rolling, Fails, faults, c, Serves
    <3> QED
      BY <2>1, <3>1, <3>2
  <2> QED
    BY <2>2, <2>3
<1>8. CASE OnConnect(i)
  <2>1. /\ instance[i] = "on_connect"
        /\ \/ instance' = [instance EXCEPT ![i] = "arm"] /\ handle' = handle
           \/ /\ instance' = [instance EXCEPT ![i] = "unregister"]
              /\ handle' = handle \ {c}
        /\ UNCHANGED <<serving, connections, session, listed, reading, setting>>
    BY <1>8 DEF OnConnect, c
  <2>2. ServingOwn' /\ Unborn' /\ ListedIsBegun' /\ EstablishedIsListed'
    BY <1>1, <2>1 DEF ServingOwn, Unborn, Serves, ListedIsBegun,
       EstablishedIsListed, Established, faults
  <2>3. Stages'
    BY <1>1, <1>3, <2>1 DEF Stages, Stage, Rolling, Fails, faults, c, Serves
  <2> QED
    BY <2>2, <2>3
<1>9. CASE ArmFirst(i)
  <2>1. /\ instance[i] = "arm"
        /\ \/ /\ instance' = [instance EXCEPT ![i] = "again"]
              /\ reading' = reading \cup {c}
              /\ UNCHANGED <<session, handle>>
           \/ /\ Fails("alloc")
              /\ instance' = [instance EXCEPT ![i] = "unregister"]
              /\ UNCHANGED <<session, handle, reading>>
           \/ /\ instance' = [instance EXCEPT ![i] = "unregister"]
              /\ handle' = handle \ {c} /\ reading' = reading
              /\ \/ session' = [session EXCEPT ![c] = "CLOSING"]
                 \/ session' = session
        /\ UNCHANGED <<serving, connections, listed, setting>>
    BY <1>9 DEF ArmFirst, Closes, c
  <2>2. c \in Connections /\ c <= connections /\ instance[i] \in Serves \ {"again"}
    BY <1>2, <2>1 DEF Serves
  <2>3. ServingOwn'
    BY <1>1, <2>1 DEF ServingOwn, Serves
  <2>4. Unborn'
    <3> SUFFICES ASSUME NEW d \in Connections, d > connections
                 PROVE  session'[d] = "NONE" /\ d \notin listed' \cup reading'
      BY <2>1 DEF Unborn
    <3>1. d # c
      BY <1>1, <2>2 DEF Connections, TypeOK
    <3> QED
      BY <1>1, <2>1, <3>1 DEF Unborn
  <2>5. ListedIsBegun'
    BY <1>1, <2>1, <2>2 DEF ListedIsBegun
  <2>6. EstablishedIsListed'
    BY <1>1, <2>1, <2>2 DEF EstablishedIsListed, Established, faults
  <2>7. Stages'
    <3>1. CASE instance' = [instance EXCEPT ![i] = "again"] /\ UNCHANGED <<session, handle>>
      BY <1>1, <1>3, <2>1, <2>2, <3>1 DEF Stages, Stage, Rolling, Fails, faults, c
    <3>2. CASE Fails("alloc") /\ instance' = [instance EXCEPT ![i] = "unregister"]
               /\ UNCHANGED <<session, handle, reading>>
      BY <1>1, <1>3, <2>1, <2>2, <3>2 DEF Stages, Stage, Rolling, Fails, faults, c
    <3>3. CASE instance' = [instance EXCEPT ![i] = "unregister"]
               /\ handle' = handle \ {c} /\ reading' = reading
      <4>1. ASSUME NEW j \in Instances, j # i
            PROVE  /\ instance'[j] = instance[j] /\ serving'[j] = serving[j]
                   /\ serving[j] \in Connections => session'[serving[j]] = session[serving[j]]
                   /\ serving[j] \in handle' => serving[j] \in handle
        BY <1>1, <1>3, <2>1, <2>2, <3>3, <4>1
      <4>3. \A j \in Instances : instance[j] \in Serves \ {"again"} => serving[j] \in Connections
        BY ServingIsConnection
      <4>2. instance'[i] = "unregister" /\ serving'[i] \notin handle'
        BY <1>1, <2>1, <3>3 DEF c
      <4> QED
        BY <1>1, <2>1, <3>3, <4>1, <4>2, <4>3
           DEF Stages, Stage, Rolling, Fails, faults, Serves
    <3> QED
      BY <2>1, <3>1, <3>2, <3>3
  <2> QED
    BY <2>3, <2>4, <2>5, <2>6, <2>7
<1>10. CASE Unregister(i)
  <2>1. /\ instance[i] = "unregister"
        /\ instance' = [instance EXCEPT ![i] = "none_state"]
        /\ listed' = listed \ {c}
        /\ UNCHANGED <<serving, connections, session, reading, handle, setting>>
    BY <1>10 DEF Unregister, c
  <2>2. ServingOwn' /\ Unborn' /\ ListedIsBegun' /\ EstablishedIsListed'
    BY <1>1, <2>1 DEF ServingOwn, Unborn, Serves, ListedIsBegun, Stages, Rolling,
       Fails, EstablishedIsListed, Established, faults, c
  <2>3. Stages'
    BY <1>1, <1>3, <2>1 DEF Stages, Stage, Rolling, Fails, faults, c, Serves
  <2> QED
    BY <2>2, <2>3
<1>11. CASE RollBackNone(i)
  <2>1. /\ instance[i] = "none_state"
        /\ instance' = [instance EXCEPT ![i] = "again"]
        /\ session' = [session EXCEPT ![c] = "NONE"]
        /\ handle' = handle \ {c}
        /\ UNCHANGED <<serving, connections, listed, reading, setting>>
    BY <1>11 DEF RollBackNone, c
  <2>2. ServingOwn' /\ Unborn' /\ ListedIsBegun' /\ EstablishedIsListed'
    BY <1>1, <2>1 DEF ServingOwn, Unborn, Serves, ListedIsBegun, Stages,
       EstablishedIsListed, Established, faults, c
  <2>3. Stages'
    BY <1>1, <1>3, <2>1 DEF Stages, Stage, Rolling, Fails, faults, c, Serves
  <2> QED
    BY <2>2, <2>3
<1> QED
  BY <1>4, <1>5, <1>6, <1>7, <1>8, <1>9, <1>10, <1>11 DEF HandlerStep

\* A session that ends has a read, so no handler of an accept is at it.
LEMMA EndKeepsSessions ==
    ASSUME IInv, NEW c \in Connections, SessionEnds(c) \/ SessionUnregisters(c)
    PROVE  SessionParts'
<1>1. TypeOK /\ SessionParts
  BY DEF IInv, SessionParts
<1>2. UNCHANGED <<serving, connections, instance, setting>>
  BY DEF SessionEnds, SessionUnregisters, instanceVars, objectVars
<1>3. ASSUME NEW i \in Instances,
             instance[i] \in {"register", "connect", "on_connect", "arm"}
      PROVE  serving[i] # c
  BY <1>1, <1>3 DEF SessionParts, Stages, Stage, SessionEnds, SessionUnregisters
<1>4. CASE SessionEnds(c)
  BY <1>1, <1>2, <1>3, <1>4 DEF TypeOK, SessionEnds, Closes, SessionParts, ServingOwn,
     Unborn, Stages, Stage, Rolling, Fails, faults, Serves, ListedIsBegun,
     EstablishedIsListed, Established
<1>5. CASE SessionUnregisters(c)
  BY <1>1, <1>2, <1>3, <1>5 DEF TypeOK, SessionUnregisters, SessionParts,
     ServingOwn, Unborn, Stages, Stage, Rolling, Fails, faults, Serves,
     ListedIsBegun, EstablishedIsListed, Established
<1> QED
  BY <1>4, <1>5

-----------------------------------------------------------------------------
(* The instances at work *)

StrengthParts == StarterBounds /\ ContextIsLast /\ Strength

\* start(): one instance after the other gets to work on the new context.
LEMMA StartKeepsStrength ==
    ASSUME IInv, Start \/ StarterStep
    PROVE  StrengthParts'
<1>1. TypeOK /\ StrengthParts
  BY DEF IInv, StrengthParts
<1> USE <1>1, SettingsType
    DEF TypeOK, StrengthParts, Workers, faults
<1>2. CASE Start
  <2>1. /\ starter.point = "idle" /\ starts' = starts + 1 /\ context' = starts'
        /\ listening' = listening \cup {starts'}
        /\ starter' = [point |-> "request", left |-> Workers]
        /\ UNCHANGED <<closer, setting, instance, accepting>>
        /\ setting.starts \in 0..MaxStarts /\ starts < setting.starts
    BY <1>2, SettingsAssumption DEF Start, instanceVars, objectVars
  <2>2. StarterBounds'
    BY <2>1 DEF StarterBounds, Contexts
  <2>3. ContextIsLast'
    BY <2>1 DEF ContextIsLast, Contexts
  <2>4. Strength'
    BY <2>1 DEF Strength
  <2> QED
    BY <2>2, <2>3, <2>4
<1>3. CASE RegisterInstance
  <2>1. /\ starter.point = "request" /\ starter' = [starter EXCEPT !.point = "accept"]
        /\ instance' = [instance EXCEPT ![Created] = "fresh"]
        /\ accepting' = [accepting EXCEPT ![Created] = context]
        /\ UNCHANGED <<context, listening, starts, closer, setting, freed>>
    BY <1>3 DEF RegisterInstance, Goto, objectVars
  <2>2. Created' = Created /\ Created \in Instances
    BY <2>1, CreatedIsInstance DEF Created
  <2>3. StarterBounds' /\ ContextIsLast'
    BY <2>1 DEF StarterBounds, ContextIsLast
  <2>4. ASSUME NEW w \in 1..Workers, w > starter.left, AtWork(w)
        PROVE  AtWork(w)'
    BY <2>1, <2>4 DEF AtWork, Created, Instances
  <2>5. Strength'
    BY <2>1, <2>2, <2>4 DEF Strength, ContextIsLast
  <2> QED
    BY <2>3, <2>5
<1>4. CASE StartInstance
  <2>1. /\ starter.point = "accept"
        /\ starter' = [point |-> IF starter.left = 1 THEN "idle" ELSE "request",
                       left |-> starter.left - 1]
        /\ UNCHANGED <<context, listening, starts, closer, setting, freed, accepting>>
    BY <1>4 DEF StartInstance, NextInstance
  <2>2. /\ Created \in Instances /\ starter.left \in 1..Workers
        /\ starts \in Contexts /\ starter.left \in 1..MaxWorkers
    BY <2>1, CreatedIsInstance DEF StarterBounds
  <2>3. StarterBounds' /\ ContextIsLast'
    BY <2>1, <2>2 DEF StarterBounds, ContextIsLast
  <2>4. ASSUME NEW w \in 1..Workers, w > starter.left, AtWork(w)
        PROVE  AtWork(w)'
    <3>1. <<starts, w>> # Created /\ <<starts, w>> \in Instances
      BY <2>2, <2>4 DEF Created, Instances
    <3>2. instance'[<<starts, w>>] = instance[<<starts, w>>]
      BY <1>4, <3>1 DEF StartInstance, Accepting, Goto
    <3> QED
      BY <2>1, <2>4, <3>2 DEF AtWork
  <2>5. ASSUME context # 0, freed = "no", faults \cap {"accept", "create", "weak_cas"} = {},
               NEW w \in 1..Workers, w = starter.left
        PROVE  AtWork(w)'
    <3>1. accepting[Created] = starts /\ starts \in listening /\ starts # 0
      BY <2>1, <2>2, <2>5 DEF Strength, ContextIsLast, Contexts
    <3>2. instance' = [instance EXCEPT ![Created] = "pending"]
      BY <1>4, <2>5, <3>1 DEF StartInstance, AcceptThrows, Accepting, Goto, Fails
    <3>3. instance'[Created] = "pending" /\ Created = <<starts, w>>
      BY <2>2, <2>5, <3>2 DEF Created
    <3> QED
      BY <2>1, <3>1, <3>3 DEF AtWork
  <2>6. Strength'
    <3> SUFFICES ASSUME context # 0, freed = "no", faults \cap {"accept", "create", "weak_cas"} = {}
                 PROVE  /\ context \in listening
                        /\ \A w \in 1..Workers : w >= starter.left => AtWork(w)'
      BY <2>1, <2>2 DEF Strength
    <3>1. \A w \in 1..Workers : w > starter.left => AtWork(w)'
      BY <2>1, <2>4 DEF Strength
    <3> QED
      BY <2>1, <2>2, <2>5, <3>1 DEF Strength
  <2> QED
    BY <2>3, <2>6
<1> QED
  BY <1>2, <1>3, <1>4 DEF StarterStep

\* close() and the end of the sessions leave the instances alone.
LEMMA CloseKeepsStrength ==
    ASSUME IInv,
           \/ CloseCopy \/ CloserStep \/ DropRef
           \/ \E c \in Connections : SessionEnds(c) \/ SessionUnregisters(c)
    PROVE  StrengthParts'
<1>1. TypeOK /\ StrengthParts
  BY DEF IInv, StrengthParts
<1>2. UNCHANGED <<instance, accepting, starts, starter, setting>>
  BY DEF CloseCopy, CloserStep, CloseSocket, CloseTake, CloseContext, DropRef,
     SessionEnds, SessionUnregisters, instanceVars, objectVars, controlVars
<1>3. StarterBounds' /\ \A w \in 1..Workers : AtWork(w) => AtWork(w)'
  BY <1>1, <1>2 DEF StrengthParts, StarterBounds, AtWork, Workers
<1>4. ContextIsLast'
  <2>1. CASE CloseTake
    BY <1>1, <1>2, <2>1 DEF TypeOK, StrengthParts, ContextIsLast, Contexts, CloseTake
  <2>2. CASE CloseContext
    BY <1>1, <1>2, <2>2 DEF TypeOK, StrengthParts, ContextIsLast, CloseContext
  <2>3. CASE CloseCopy \/ CloseSocket
    BY <1>1, <1>2, <2>3 DEF TypeOK, StrengthParts, ContextIsLast, CloseCopy, CloseSocket
  <2>4. CASE UNCHANGED <<context, closer>>
    BY <1>1, <1>2, <2>4 DEF StrengthParts, ContextIsLast
  <2> QED
    BY <2>1, <2>2, <2>3, <2>4
       DEF CloserStep, DropRef, SessionEnds, SessionUnregisters, controlVars
<1>5. context' # 0 /\ freed' = "no" => context' \in listening' \/ ~(context \in listening)
  <2>1. CASE CloseContext
    BY <1>1, <2>1 DEF TypeOK, StrengthParts, ContextIsLast, CloseContext
  <2>2. CASE ~CloseContext
    BY <2>2 DEF CloseCopy, CloserStep, CloseSocket, CloseTake, DropRef, SessionEnds,
       SessionUnregisters, controlVars, objectVars
  <2> QED
    BY <2>1, <2>2
<1>6. context' \in {0, context} /\ (freed' = "no" => freed = "no")
  BY DEF CloseCopy, CloserStep, CloseSocket, CloseTake, CloseContext, DropRef,
     SessionEnds, SessionUnregisters, controlVars, objectVars
<1>7. Strength'
  BY <1>1, <1>2, <1>3, <1>5, <1>6
     DEF StrengthParts, Strength, Created, faults, Workers, AtWork
<1> QED
  BY <1>3, <1>4, <1>7 DEF StrengthParts

\* A handler brings its instance back to work, unless accepting fails.
LEMMA HandlerKeepsStrength ==
    ASSUME IInv, NEW i \in Instances,
           HandlerStep(i) \/ AcceptCompletes(i) \/ AcceptFails(i)
    PROVE  StrengthParts'
<1>1. TypeOK /\ StrengthParts
  BY DEF IInv, StrengthParts
<1>2. UNCHANGED <<accepting, context, starts, starter, closer, setting>>
  BY DEF HandlerStep, AcceptError, RegisterSocket, CompleteConnect, OnConnect,
     ArmFirst, Unregister, RollBackNone, Again, AcceptCompletes, AcceptFails,
     controlVars, objectVars
<1>3. /\ freed' = "no" => freed = "no" /\ listening' = listening
      /\ \A j \in Instances \ {i} : instance'[j] = instance[j]
  <2>1. CASE AcceptError(i)
    BY <1>1, <2>1 DEF TypeOK, AcceptError, At, Goto, Alive, objectVars, controlVars
  <2>2. CASE ~AcceptError(i)
    BY <1>1, <2>2 DEF TypeOK, HandlerStep, RegisterSocket, CompleteConnect,
       OnConnect, ArmFirst, Unregister, RollBackNone, Again, Accepting,
       AcceptCompletes, AcceptFails, Goto, controlVars, objectVars
  <2> QED
    BY <2>1, <2>2
<1>4. ASSUME faults \cap {"accept", "create", "weak_cas"} = {},
             accepting[i] \in listening, instance[i] \in {"pending"} \cup Serves
      PROVE  instance'[i] \in {"pending"} \cup Serves
  <2>1. CASE AcceptCompletes(i) \/ AcceptFails(i)
    BY <1>1, <1>4, <2>1 DEF TypeOK, AcceptCompletes, AcceptFails, Goto, Fails, Serves
  <2>2. CASE Again(i)
    BY <1>1, <1>4, <2>2 DEF TypeOK, Again, AcceptThrows, Accepting, Goto, Fails, Serves
  <2>3. CASE HandlerStep(i) /\ ~Again(i)
    BY <1>1, <1>4, <2>3 DEF TypeOK, HandlerStep, AcceptError, RegisterSocket,
       CompleteConnect, OnConnect, ArmFirst, Unregister, RollBackNone, At, Goto, Serves
  <2> QED
    BY <2>1, <2>2, <2>3
<1>5. \/ instance[i] # "fresh"
      \/ UNCHANGED instance
  BY DEF HandlerStep, AcceptError, RegisterSocket, CompleteConnect, OnConnect,
     ArmFirst, Unregister, RollBackNone, Again, AcceptCompletes, AcceptFails, At
<1>6. StarterBounds' /\ ContextIsLast'
  BY <1>1, <1>2 DEF StrengthParts, StarterBounds, ContextIsLast, Workers
<1>7. Strength'
  <2> SUFFICES ASSUME context # 0, freed' = "no",
                      faults \cap {"accept", "create", "weak_cas"} = {}
               PROVE  /\ context \in listening'
                      /\ \A w \in 1..Workers :
                            starter.point = "idle" \/ w > starter.left => AtWork(w)'
                      /\ starter.point = "accept" =>
                            /\ instance'[Created] = "fresh"
                            /\ accepting[Created] = starts
    BY <1>2 DEF Strength, Created, Workers, faults
  <2>1. context = starts /\ context \in listening /\ listening' = listening
    BY <1>1, <1>3 DEF StrengthParts, Strength, ContextIsLast
  <2>2. ASSUME NEW w \in 1..Workers, AtWork(w)
        PROVE  AtWork(w)'
    <3>1. <<starts, w>> \in Instances
      <4>1. Workers \in 1..MaxWorkers /\ starts \in Contexts
        BY <1>1, <2>1, SettingsType DEF TypeOK, Contexts
      <4> QED
        BY <4>1 DEF Instances
    <3>2. CASE <<starts, w>> = i
      BY <1>2, <1>4, <2>1, <2>2, <3>2 DEF AtWork
    <3>3. CASE <<starts, w>> # i
      BY <1>2, <1>3, <2>2, <3>1, <3>3 DEF AtWork
    <3> QED
      BY <3>2, <3>3
  <2>3. starter.point = "accept" =>
            instance'[Created] = "fresh" /\ accepting[Created] = starts
    <3> SUFFICES ASSUME starter.point = "accept"
                 PROVE  instance'[Created] = "fresh" /\ accepting[Created] = starts
      OBVIOUS
    <3>1. instance[Created] = "fresh" /\ accepting[Created] = starts
      BY <1>1, <1>3 DEF StrengthParts, Strength
    <3>2. Created \in Instances
      BY CreatedIsInstance
    <3> QED
      BY <1>3, <1>5, <3>1, <3>2
  <2> QED
    BY <1>1, <1>3, <2>1, <2>2, <2>3 DEF StrengthParts, Strength
<1> QED
  BY <1>6, <1>7 DEF StrengthParts

-----------------------------------------------------------------------------
LEMMA InitInv == Init => IInv
<1> SUFFICES ASSUME Init PROVE IInv
  OBVIOUS
<1>1. ServingOwn /\ Unborn /\ Stages
  BY DEF Init, ServingOwn, Unborn, Stages, Stage, Rolling, Serves
<1>2. ListedIsBegun /\ EstablishedIsListed
  BY DEF Init, ListedIsBegun, EstablishedIsListed, Established
<1>3. StarterBounds /\ ContextIsLast /\ Strength
  BY DEF Init, StarterBounds, ContextIsLast, Strength
<1> QED
  BY <1>1, <1>2, <1>3, InitType DEF IInv

LEMMA StepInv == IInv /\ [Next]_vars => IInv'
<1> SUFFICES ASSUME IInv, [Next]_vars PROVE IInv'
  OBVIOUS
<1>1. CASE UNCHANGED vars
  <2>1. SessionParts'
    BY <1>1 DEF IInv, vars, SessionParts, ServingOwn, Unborn, Stages, Stage,
       Rolling, Fails, faults, ListedIsBegun, EstablishedIsListed, Established
  <2>2. StrengthParts'
    BY <1>1 DEF IInv, vars, StrengthParts, StarterBounds, ContextIsLast, Strength,
       AtWork, Created, Workers, faults
  <2> QED
    BY <2>1, <2>2, StepType DEF IInv, SessionParts, StrengthParts
<1>2. CASE Next
  <2>1. SessionParts'
    BY <1>2, ControlKeepsSessions, AcceptKeepsSessions, HandlerKeepsSessions,
       EndKeepsSessions DEF Next
  <2>2. StrengthParts'
    BY <1>2, StartKeepsStrength, CloseKeepsStrength, HandlerKeepsStrength DEF Next
  <2> QED
    BY <2>1, <2>2, StepType DEF IInv, SessionParts, StrengthParts
<1> QED
  BY <1>1, <1>2

\* The stages of the sessions, and what every instance of an open acceptor is
\* at (IInv), hold in every reachable state.
THEOREM Invariant == Spec => []IInv
BY InitInv, StepInv, PTL DEF Spec

\* Every variable keeps its type, for any number of workers and connections.
THEOREM TypeCorrect == Spec => []TypeOK
<1>1. IInv => TypeOK
  BY DEF IInv
<1> QED
  BY <1>1, Invariant, PTL

\* However accepts, callbacks, close() and the ends of sessions interleave, an
\* open session is in the list that close() and send() go through, and one
\* that is over is not.
THEOREM ListIsThatOfSessions == Spec => []ListAgrees
<1>1. IInv => ListAgrees
  BY DEF IInv, ListAgrees, ListedIsLive, ListedIsBegun
<1> QED
  BY <1>1, Invariant, PTL

\* While the acceptor is open none of its workers is lost, whatever connections
\* come and go and whatever their callbacks throw.
THEOREM NoWorkerIsLost == Spec => []FullStrength
<1>1. IInv => FullStrength
  <2> SUFFICES ASSUME IInv, starter.point = "idle", context # 0, freed = "no",
                      faults \cap {"accept", "create", "weak_cas"} = {}, NEW w \in 1..Workers
               PROVE  instance[<<context, w>>] = "pending" \/ InHandler(<<context, w>>)
    BY DEF FullStrength
  <2>1. context = starts /\ AtWork(w)
    BY DEF IInv, ContextIsLast, Strength
  <2> QED
    BY <2>1 DEF AtWork, Serves, InHandler, Points
<1> QED
  BY <1>1, Invariant, PTL

=============================================================================
