------------------------- MODULE MessageTransmitter -------------------------
(***************************************************************************)
(* message_transmitter: passes a message on to the receivers registered    *)
(* with it.  The list is guarded by a lock; a message is passed on after   *)
(* the lock is released, to the receivers copied under it.                 *)
(***************************************************************************)
EXTENDS Sequences, SequencesExt

CONSTANTS Transmitters, Receivers

VARIABLES
    container, \* m_container of each transmitter
    sending    \* the receivers left to get the message it passes on

transmitterVars == <<container, sending>>

TransmitterTypeOK ==
    \A x \in Transmitters :
        container[x] \in Seq(Receivers) /\ sending[x] \in Seq(Receivers)

TransmitterInit ==
    /\ container = [x \in Transmitters |-> <<>>]
    /\ sending = [x \in Transmitters |-> <<>>]

\* A bug: a receiver is registered as often as it asks for it.
RegisterMessageable_Again(x, r) ==
    container' = [container EXCEPT ![x] = Append(@, r)]

\* A bug: the transmitter registers itself.
RegisterMessageable_Self(x, r) ==
    container' = [container EXCEPT ![x] = Append(@, x)]

\* register_messageable: nobody is registered twice.
RegisterMessageable(x, r) ==
    IF r \in ToSet(container[x]) THEN UNCHANGED container
    ELSE container' = [container EXCEPT ![x] = Append(@, r)]

\* A bug: the receiver stays registered.
UnregisterMessageable_Not(x, r) == UNCHANGED container

\* unregister_messageable: the first entry of the receiver goes.
UnregisterMessageable(x, r) == container' = [container EXCEPT ![x] = RemoveFirst(@, r)]

\* transmit_message: the list is copied ...
TransmitMessage(x) ==
    /\ sending[x] = <<>>
    /\ sending' = [sending EXCEPT ![x] = container[x]]
    /\ UNCHANGED container

\* ... and each receiver of the copy gets the message.
ProcessMessage(x) ==
    /\ sending[x] # <<>>
    /\ sending' = [sending EXCEPT ![x] = Tail(@)]
    /\ UNCHANGED container

\* Nobody gets a message twice.
RegisteredOnce == \A x \in Transmitters : IsInjective(container[x])
=============================================================================
