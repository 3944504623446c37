------------------------------ MODULE AsyncSend ------------------------------
(***************************************************************************)
(* The two asynchronous senders: Nsocket_tcp_async writes the front of its *)
(* queue, Nsocket_tcp_async_gather gathers the queue into one buffer,      *)
(* m_sending, and writes that.  Both mean to have one async_write_some     *)
(* outstanding.  Application threads send, any io thread runs a write      *)
(* handler, and the receive handler of TcpSession closes the session       *)
(* beside them.  What m_lock_socket protects is one step; m_socket_state   *)
(* is read outside of it, and the handler of a failed write does not take  *)
(* it.                                                                     *)
(***************************************************************************)
EXTENDS Integers, Sequences, FiniteSets, SequencesExt

CONSTANTS
    Messages,      \* the messages, each sent by a thread of its own
    Size,          \* their lengths in units, 0 for an empty one
    Gathers,       \* which senders: TRUE for the gathering one
    MayClose,      \* the session may be closed, and the connection reset
    Throws         \* where async_write_some may throw: "send", "handler"

ASSUME SizeAssumption == Size \in [Messages -> Nat]
ASSUME GathersAssumption == Gathers \subseteq BOOLEAN
ASSUME MayCloseAssumption == MayClose \in BOOLEAN
ASSUME ThrowsAssumption == Throws \subseteq {"send", "handler"}

VARIABLES
    gather,      \* the object is a Nsocket_tcp_async_gather
    sockState,   \* m_socket_state; SYN is passed over
    open,        \* m_socket is open
    reset,       \* the connection is broken
    queue,       \* m_send_msgs: what is left of each message
    sending,     \* m_sending: the units of the gathered batch
    holdSend,    \* m_hold_send holds the object
    writes,      \* the outstanding writes and the finished, unhandled ones
    sender,      \* where each message's send() is
    closer,      \* where process_closesocket is
    accepted,    \* the messages queued, in order
    stream,      \* the units the peer has got
    undefined    \* front() of an empty list, or an advance past its end

vars == <<gather, sockState, open, reset, queue, sending, holdSend, writes,
          sender, closer, accepted, stream, undefined>>

SocketStates == {"NONE", "CLOSING", "ESTABLISHED"}
SenderPoints == {"idle", "checked", "true", "false", "thrown"}
CloserPoints == {"idle", "close_cas", "close_clear", "close_none"}
Buffer == Seq(Messages)

\* A write belongs to the send() that started it or the write before it: two
\* writes of the same data are two.
Write == [from : Messages, data : Buffer, len : Nat,
          status : {"pending", "ok", "err"}]

\* Not more is queued and gathered than was accepted.
Queued == Len(queue) + IF sending = <<>> THEN 0 ELSE 1

TypeOK ==
    /\ gather \in BOOLEAN
    /\ sockState \in SocketStates
    /\ open \in BOOLEAN
    /\ reset \in BOOLEAN
    /\ queue \in Seq(Buffer)
    /\ sending \in Buffer
    /\ Queued <= Len(accepted)
    /\ holdSend \in BOOLEAN
    /\ writes \subseteq Write
    /\ sender \in [Messages -> SenderPoints]
    /\ closer \in CloserPoints
    /\ accepted \in Seq(Messages)
    /\ stream \in Seq(Messages)
    /\ undefined \in BOOLEAN

\* A session has just been established.
Init ==
    /\ gather \in Gathers
    /\ sockState = "ESTABLISHED"
    /\ open = TRUE
    /\ reset = FALSE
    /\ queue = <<>>
    /\ sending = <<>>
    /\ holdSend = FALSE
    /\ writes = {}
    /\ sender = [m \in Messages |-> "idle"]
    /\ closer = "idle"
    /\ accepted = <<>>
    /\ stream = <<>>
    /\ undefined = FALSE

\* The code asks for state < CLOSING, and CLOSING is below ESTABLISHED.
MaySend == sockState \in {"CLOSING", "ESTABLISHED"}

\* A message in units, and a buffer without its first n units.
Units(m) == [i \in 1..Size[m] |-> m]
Rest(buffer, n) == SubSeq(buffer, n + 1, Len(buffer))

-----------------------------------------------------------------------------
(* send() *)

\* A write on a closed handle completes with an error, one of no bytes at once
\* and without, whatever the handle.
StartWrite(m, buffer) ==
    [from |-> m, data |-> buffer, len |-> 0,
     status |-> IF buffer = <<>> THEN "ok" ELSE IF open THEN "pending" ELSE "err"]

\* A bug: the write does not hold the object.
SendAsync_Unheld(m, buffer, others) ==
    /\ UNCHANGED holdSend
    /\ writes' = others \cup {StartWrite(m, buffer)}

\* process_send_async beside the other writes: hold the object and write.
SendAsync(m, buffer, others) ==
    /\ holdSend' = TRUE
    /\ writes' = others \cup {StartWrite(m, buffer)}

\* A bug: a handler forgets to let go of the object.
ReleaseSend_Kept == UNCHANGED holdSend
ReleaseSend == holdSend' = FALSE

\* The check of m_socket_state, before the lock is taken.
CheckState(m) ==
    /\ sender[m] = "idle" /\ ~undefined
    /\ sender' = [sender EXCEPT ![m] = IF MaySend THEN "checked" ELSE "false"]
    /\ UNCHANGED <<gather, sockState, open, reset, queue, sending, holdSend,
                   writes, closer, accepted, stream, undefined>>

\* A bug: every message is written at once, whatever is queued before it.
MustWait_Never == FALSE
\* A message waits in the queue while another one is being written.
MustWait == IF gather THEN sending # <<>> ELSE queue # <<>>

\* Under the lock: queue the message, or write it at once.  A batch that is
\* being written but is empty is none to the gathering sender.
PushMessage(m) ==
    /\ sender[m] = "checked" /\ ~undefined
    /\ accepted' = Append(accepted, m)
    /\ sender' = [sender EXCEPT ![m] = "true"]
    /\ IF MustWait
       THEN UNCHANGED <<holdSend, writes>>
       ELSE SendAsync(m, Units(m), writes)
    /\ IF gather /\ ~MustWait
       THEN sending' = Units(m) /\ UNCHANGED queue
       ELSE queue' = Append(queue, Units(m)) /\ UNCHANGED sending
    /\ UNCHANGED <<gather, sockState, open, reset, closer, stream, undefined>>

\* async_write_some throws in send(): the message is taken back, the hold set
\* before stays.
PushThrows(m) ==
    /\ sender[m] = "checked" /\ ~undefined
    /\ "send" \in Throws /\ ~MustWait
    /\ holdSend' = TRUE
    /\ sender' = [sender EXCEPT ![m] = "thrown"]
    /\ UNCHANGED <<gather, sockState, open, reset, queue, sending, writes,
                   closer, accepted, stream, undefined>>

-----------------------------------------------------------------------------
(* async_write_some *)

Finish(w, status, n) ==
    writes' = (writes \ {w}) \cup {[w EXCEPT !.status = status, !.len = n]}

\* The kernel takes some of the units.
WriteOk(w) ==
    /\ w.status = "pending" /\ open /\ ~reset /\ ~undefined
    /\ \E n \in 1..Len(w.data) :
          /\ Finish(w, "ok", n)
          /\ stream' = stream \o SubSeq(w.data, 1, n)
    /\ UNCHANGED <<gather, sockState, open, reset, queue, sending, holdSend,
                   sender, closer, accepted, undefined>>

\* The connection is reset.
WriteFails(w) ==
    /\ w.status = "pending" /\ MayClose /\ ~undefined
    /\ Finish(w, "err", 0)
    /\ reset' = TRUE
    /\ UNCHANGED <<gather, sockState, open, queue, sending, holdSend, sender,
                   closer, accepted, stream, undefined>>

\* Closing the handle aborts what is still outstanding.
Aborted(ws) ==
    {IF w.status = "pending" THEN [w EXCEPT !.status = "err"] ELSE w : w \in ws}

\* The handler of a failed write, without the lock: queue and batch stay.
HandleError(w) ==
    /\ w.status = "err" /\ ~undefined
    /\ ReleaseSend
    /\ writes' = writes \ {w}
    /\ UNCHANGED <<gather, sockState, open, reset, queue, sending, sender,
                   closer, accepted, stream, undefined>>

\* Nothing checks that there is a front, nor that n units are left of it; of a
\* batch, only that it is not empty.
FrontHas(n) ==
    IF gather THEN sending # <<>> => Len(sending) >= n
              ELSE queue # <<>> /\ Len(queue[1]) >= n

HandleOverrun(w) ==
    /\ w.status = "ok" /\ ~undefined
    /\ ~FrontHas(w.len)
    /\ undefined' = TRUE
    /\ writes' = writes \ {w}
    /\ UNCHANGED <<gather, sockState, open, reset, queue, sending, holdSend,
                   sender, closer, accepted, stream>>

\* A bug: a message counts as written once a part of it is.
Advance_Whole(n) == IF gather THEN queue ELSE Tail(queue)

\* What is left to write after n units of the front, or of the batch, which
\* goes back to the front of the queue.
Advance(n) ==
    LET front == IF gather THEN sending ELSE queue[1]
        others == IF gather THEN queue ELSE Tail(queue)
    IN  IF Len(front) = n THEN others ELSE <<Rest(front, n)>> \o others

\* A bug: only send() starts a write.
MoreToSend_Never(n) == FALSE
MoreToSend(n) == Advance(n) # <<>> /\ MaySend

\* The gathering handler takes the batch; when it is empty, or was cleared
\* meanwhile, it returns without letting go of the object.
BatchGone(w) ==
    /\ w.status = "ok" /\ ~undefined
    /\ gather /\ sending = <<>>
    /\ writes' = writes \ {w}
    /\ UNCHANGED <<gather, sockState, open, reset, queue, sending, holdSend,
                   sender, closer, accepted, stream, undefined>>

\* What the handler of w has to go on with.
Handles(w) ==
    /\ w.status = "ok" /\ ~undefined
    /\ FrontHas(w.len)
    /\ ~(gather /\ sending = <<>>)

\* The last write of the queue lets go of the object.
HandleLast(w) ==
    /\ Handles(w) /\ ~MoreToSend(w.len)
    /\ queue' = Advance(w.len)
    /\ sending' = <<>>
    /\ ReleaseSend
    /\ writes' = writes \ {w}
    /\ UNCHANGED <<gather, sockState, open, reset, sender, closer, accepted,
                   stream, undefined>>

\* A bug: what was gathered stays queued.
HandleMore_Uncleared(w) ==
    /\ Handles(w) /\ MoreToSend(w.len)
    /\ queue' = Advance(w.len)
    /\ IF gather THEN sending' = FlattenSeq(Advance(w.len)) ELSE UNCHANGED sending
    /\ SendAsync(w.from, IF gather THEN sending' ELSE queue'[1], writes \ {w})
    /\ UNCHANGED <<gather, sockState, open, reset, sender, closer, accepted,
                   stream, undefined>>

\* Write on: the new front, or all that is queued gathered into one buffer.
HandleMore(w) ==
    /\ Handles(w) /\ MoreToSend(w.len)
    /\ IF gather
       THEN queue' = <<>> /\ sending' = FlattenSeq(Advance(w.len))
       ELSE queue' = Advance(w.len) /\ UNCHANGED sending
    /\ SendAsync(w.from, IF gather THEN sending' ELSE queue'[1], writes \ {w})
    /\ UNCHANGED <<gather, sockState, open, reset, sender, closer, accepted,
                   stream, undefined>>

\* alloc_shared_buffer or async_write_some throws: closesocket().
HandleThrows(w) ==
    /\ Handles(w) /\ MoreToSend(w.len) /\ "handler" \in Throws
    /\ \/ queue' = Advance(w.len) /\ sending' = <<>>
       \/ gather /\ queue' = <<>> /\ sending' = FlattenSeq(Advance(w.len))
    /\ open' = FALSE
    /\ ReleaseSend
    /\ writes' = Aborted(writes \ {w})
    /\ UNCHANGED <<gather, sockState, reset, sender, closer, accepted, stream,
                   undefined>>

-----------------------------------------------------------------------------
(* process_closesocket, run by the receive handler *)

\* The receive side saw the end of the session, or the handle closed.
CloseBegin ==
    /\ MayClose \/ ~open
    /\ closer = "idle" /\ ~undefined
    /\ sockState = "ESTABLISHED"
    /\ open' = FALSE
    /\ writes' = Aborted(writes)
    /\ closer' = "close_cas"
    /\ UNCHANGED <<gather, sockState, reset, queue, sending, holdSend, sender,
                   accepted, stream, undefined>>

CloseCas ==
    /\ closer = "close_cas" /\ ~undefined
    /\ sockState' = "CLOSING"
    /\ closer' = "close_clear"
    /\ UNCHANGED <<gather, open, reset, queue, sending, holdSend, writes,
                   sender, accepted, stream, undefined>>

CloseClear ==
    /\ closer = "close_clear" /\ ~undefined
    /\ queue' = <<>>
    /\ sending' = <<>>
    /\ closer' = "close_none"
    /\ UNCHANGED <<gather, sockState, open, reset, holdSend, writes, sender,
                   accepted, stream, undefined>>

\* NONE, after on_disconnect and process_connective_closesocket, neither of
\* which touches the send state; send() is accepted until here.
CloseNone ==
    /\ closer = "close_none" /\ ~undefined
    /\ sockState' = "NONE"
    /\ closer' = "idle"
    /\ UNCHANGED <<gather, open, reset, queue, sending, holdSend, writes,
                   sender, accepted, stream, undefined>>

-----------------------------------------------------------------------------
SenderStep(m) == CheckState(m) \/ PushMessage(m) \/ PushThrows(m)
CloserStep == CloseCas \/ CloseClear \/ CloseNone
HandlerStep ==
    \E w \in writes :
        \/ HandleError(w) \/ HandleOverrun(w) \/ BatchGone(w)
        \/ HandleLast(w) \/ HandleMore(w) \/ HandleThrows(w)
KernelStep == \E w \in writes : WriteOk(w) \/ WriteFails(w)

Next ==
    \/ \E m \in Messages : SenderStep(m)
    \/ HandlerStep \/ KernelStep
    \/ CloseBegin \/ CloserStep

\* A send() that began returns, io threads run the handlers, the peer reads
\* what it is sent (or the connection fails).
Fairness ==
    /\ \A m \in Messages : WF_vars(PushMessage(m))
    /\ WF_vars(HandlerStep) /\ WF_vars(KernelStep) /\ WF_vars(CloserStep)

Spec == Init /\ [][Next]_vars
FairSpec == Spec /\ Fairness

-----------------------------------------------------------------------------
(* Properties *)

\* An empty message is one like others to the queueing sender.  To the gathering
\* one it is no message: another write may go out beside it.
NoneEmpty == gather => \A m \in ToSet(accepted) : Size[m] # 0

\* The peer's stream is the accepted messages in order, whole and once each:
\* every step is one of SendStream, until a gathering sender got an empty one.
Stream == INSTANCE SendStream
InOrderStream ==
    Stream!SInit /\ [][NoneEmpty => Stream!SNext]_Stream!svars

\* One write at a time is outstanding, for the queue's front or for the batch,
\* while the handle is open, so that its handler never advances a front that
\* is not there (Nsocket_tcp_async.cpp:143); a queue that the closing has
\* cleared is another case.
OneWriteForTheFront ==
    open /\ NoneEmpty =>
        /\ ~undefined
        /\ \A w \in writes :
              /\ writes = {w}
              /\ IF gather THEN sending = w.data
                           ELSE queue # <<>> /\ queue[1] = w.data

\* While the handle is open the object is held for as long as a write or its
\* handler is outstanding (Nsocket_tcp_async.cpp:115).
HoldCoversWrite == open /\ NoneEmpty /\ writes # {} => holdSend

\* Once the queue is written nothing keeps the object alive, except after a
\* send() that threw, or when a gathering socket was closed under its handler
\* (Nsocket_tcp_async_gather.cpp:153).
NoneThrown == \A m \in Messages : sender[m] # "thrown"
IdleIsReleased ==
    /\ queue = <<>> /\ sending = <<>> /\ writes = {}
    /\ NoneThrown /\ ~undefined
    /\ NoneEmpty
    /\ gather => open
    => ~holdSend

\* The object is held for as long as its writes last, and not longer.
HoldIsForWrites == HoldCoversWrite /\ IdleIsReleased

\* What send() accepted reaches the peer unless the session ends before.
AcceptedIsSent ==
    \A m \in Messages :
        m \in ToSet(accepted) ~>
            \/ Cardinality({i \in DOMAIN stream : stream[i] = m}) = Size[m]
            \/ ~open \/ reset \/ ~NoneEmpty

\* A closed socket lets go of itself: no write keeps the object for ever.
ClosedIsReleased ==
    ~gather => (~open ~> (~holdSend \/ undefined \/ ~NoneThrown))
=============================================================================
