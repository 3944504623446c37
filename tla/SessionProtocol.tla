--------------------------- MODULE SessionProtocol ---------------------------
(***************************************************************************)
(* What a socket promises the application that derives from it: for every  *)
(* start it calls on_request_connect, then either on_fail_connect, or      *)
(* on_connect, messages and on_disconnect.  A throwing on_connect is       *)
(* answered by on_fail_connect.  The callbacks of one start are complete   *)
(* before the socket accepts the next start.                               *)
(***************************************************************************)
EXTENDS Integers, Sequences

CONSTANT MaxAttempts   \* bound on the number of starts

VARIABLES
    attempt,   \* starts accepted so far
    busy,      \* the socket accepts no start
    heard      \* the callbacks made, by attempt

pvars == <<attempt, busy, heard>>

Attempts == 1..MaxAttempts
Callbacks == {"request", "connect", "message", "fail", "disconnect"}

LastOf(s) == s[Len(s)]
LastHeardIn(S) ==
    /\ attempt \in Attempts
    /\ heard[attempt] # <<>>
    /\ LastOf(heard[attempt]) \in S

\* Only the attempt in progress hears anything.
Tell(callback) ==
    /\ busy
    /\ heard' = [heard EXCEPT ![attempt] = Append(@, callback)]
    /\ UNCHANGED <<attempt, busy>>

PInit ==
    /\ attempt = 0
    /\ busy = FALSE
    /\ heard = [k \in Attempts |-> <<>>]

Request ==
    /\ ~busy
    /\ attempt + 1 \in Attempts
    /\ attempt' = attempt + 1
    /\ busy' = TRUE
    /\ heard' = [heard EXCEPT ![attempt + 1] = <<"request">>]

Connect    == LastHeardIn({"request"}) /\ Tell("connect")
Message    == LastHeardIn({"connect"}) /\ Tell("message")
Fail       == LastHeardIn({"request", "connect"}) /\ Tell("fail")
Disconnect == LastHeardIn({"connect", "message"}) /\ Tell("disconnect")

Finish ==
    /\ busy
    /\ LastHeardIn({"fail", "disconnect"})
    /\ busy' = FALSE
    /\ UNCHANGED <<attempt, heard>>

PNext == Request \/ Connect \/ Message \/ Fail \/ Disconnect \/ Finish

PSpec == PInit /\ [][PNext]_pvars
=============================================================================
