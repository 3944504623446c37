----------------------------- MODULE SendStream -----------------------------
(***************************************************************************)
(* What send() promises on one connection: the peer receives the accepted  *)
(* messages in the order of acceptance, each one whole before the next     *)
(* begins, with nothing lost in between and nothing twice.                 *)
(***************************************************************************)
EXTENDS Integers, Sequences, SequencesExt

CONSTANTS Messages,   \* the messages, each sent at most once
          Size        \* their lengths, in units of what one write may take

VARIABLES accepted,   \* the messages send() took, in order
          stream      \* what the peer has received: a unit names its message

svars == <<accepted, stream>>

Units(m) == [i \in 1..Size[m] |-> m]
Promised == FlattenSeq([i \in 1..Len(accepted) |-> Units(accepted[i])])

SInit == accepted = <<>> /\ stream = <<>>

Accept(m) ==
    /\ m \notin ToSet(accepted)
    /\ accepted' = Append(accepted, m)
    /\ UNCHANGED stream

\* The next units of what was promised.
Transmit(n) ==
    /\ stream' = SubSeq(Promised, 1, Len(stream) + n)
    /\ UNCHANGED accepted

SNext ==
    \/ \E m \in Messages : Accept(m)
    \/ \E n \in 1..(Len(Promised) - Len(stream)) : Transmit(n)

SSpec == SInit /\ [][SNext]_svars
=============================================================================
