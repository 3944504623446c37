----------------------------- MODULE MessagePath -----------------------------
(***************************************************************************)
(* A message from the values that one application puts into a buffer to    *)
(* those the other one reads: the buffer is allocated with what            *)
(* get_size_of promises, filled, given its size as the header and sent; on *)
(* the other side Nsocket_tcp receives into a block of memory, cuts        *)
(* messages off its front, and takes a new block when the room gets short. *)
(*                                                                         *)
(* Locking, holds and closing are TcpSession's; here a session is closed   *)
(* or not, and bytes arrive in order, in pieces of any size.               *)
(***************************************************************************)
EXTENDS Serializers

CONSTANTS
    Settings,          \* what is sent, see below
    ReceiveBufferSize, \* RECEIVE_BUFFER_SIZE: 8192
    MinRoom,           \* MIN_MESSAGE_BUFFER_ROOM: 256
    MaxMessageSize     \* MAX_MESSAGE_SIZE: 1 MB

ASSUME RoomAssumption ==
    /\ {ReceiveBufferSize, MinRoom, MaxMessageSize} \subseteq Nat \ {0}
    /\ MinRoom <= ReceiveBufferSize

\* A setting is a sequence of messages, each with
\*   values      what it says
\*   prepended   how many of them are put in front of the others
\*   short       the bytes its buffer is allocated too short
\*   keeps       whether the receiver keeps the message after on_message
\* What is taken from the back is the last value, and the size fits into the header.
HeaderSize == WordBytes
MinMessageSize == HeaderSize \* MIN_MESSAGE_SIZE: 4

IsMessage(m) ==
    /\ IsSeq(m.values) /\ \A i \in DOMAIN m.values : IsValue(m.values[i])
    /\ \A i \in 1..(Len(m.values) - 1) : m.values[i].kind \notin AtTheBack
    /\ m.prepended \in 0..Len(m.values)
    /\ \A i \in 1..m.prepended : CanPrepend(m.values[i])
    /\ IsSize(HeaderSize + GetSizeOf(m.values), HeaderSize)
    /\ m.short \in Nat /\ m.keeps \in BOOLEAN

ASSUME MessagesAssumption ==
    \A s \in Settings : IsSeq(s) /\ \A i \in DOMAIN s : IsMessage(s[i])

VARIABLES
    setting,
    building,  \* the number of the message the sender is at
    step,      \* what the sender does with it
    added,     \* the values that are in its buffer
    buf,       \* its buffer
    sent,      \* the bytes of it that are sent
    said,      \* the messages that were sent, by number
    wire,      \* bytes that are sent and not received
    blocks,    \* the receiver's blocks of memory, the last one in use
    received,  \* m_received_msg, as [at, size] of the last block
    room,      \* m_asio_receiving_msg, likewise
    handler,   \* "reading", "framing" or "closed"
    arrived,   \* bytes the read has received
    last,      \* size of the message the handler had last
    heard,     \* for each message what on_message found in it
    kept       \* messages the receiver has kept

sender == <<building, step, added, buf, sent, said>>
receiver == <<blocks, received, room, handler, arrived, last, heard, kept>>
vars == <<setting, sender, wire, receiver>>

Message == setting[building]

Init ==
    /\ setting \in Settings
    /\ building = 1 /\ step = "allocate" /\ added = 0 /\ sent = 0 /\ said = <<>>
    /\ buf = Allocated(0)
    /\ wire = <<>>
    /\ blocks = <<Allocated(ReceiveBufferSize).mem>>
    /\ received = [at |-> 0, size |-> 0]
    /\ room = [at |-> 0, size |-> ReceiveBufferSize]
    /\ handler = "reading" /\ arrived = 0 /\ last = 0
    /\ heard = <<>> /\ kept = <<>>

-----------------------------------------------------------------------------
(* The sender. *)

InFront == SubSeq(Message.values, 1, Message.prepended)
Behind == SubSeq(Message.values, Message.prepended + 1, Len(Message.values))

Room == HeaderSize + GetSizeOf(Message.values) - Message.short
Skipped(b, n) == Advance(AppendSkip(b, n), n)

\* The room for what is prepended is skipped first.
Allocate ==
    /\ step = "allocate" /\ building <= Len(setting)
    /\ buf' = IF Message.prepended = 0 THEN AppendEmplace(Allocated(Room), HeaderSize)
              ELSE Skipped(Allocated(Room), HeaderSize + GetSizeOf(InFront))
    /\ added' = 0
    /\ step' = "fill"
    /\ UNCHANGED <<setting, building, sent, said, wire, receiver>>

Refused == \* the exception of a bound check reaches the application
    /\ step \in {"fill", "header"} /\ ~buf.ok
    /\ building' = building + 1
    /\ step' = "allocate"
    /\ UNCHANGED <<setting, added, buf, sent, said, wire, receiver>>

AppendValue ==
    /\ step = "fill" /\ buf.ok /\ added < Len(Behind)
    /\ buf' = AppendAny(buf, Behind[added + 1])
    /\ added' = added + 1
    /\ UNCHANGED <<setting, building, step, sent, said, wire, receiver>>

PrependValue ==
    /\ step = "fill" /\ buf.ok /\ added >= Len(Behind) /\ added < Len(Message.values)
    /\ buf' = PrependAny(buf, InFront[Len(Message.values) - added])
    /\ added' = added + 1
    /\ UNCHANGED <<setting, building, step, sent, said, wire, receiver>>

SetHeader ==
    /\ step = "fill" /\ buf.ok /\ added = Len(Message.values)
    /\ buf' = IF Message.prepended = 0
              THEN [buf EXCEPT !.mem = Written(@, buf.at, Encoded(buf.size, HeaderSize))]
              ELSE PrependGeneral(buf, buf.size + HeaderSize, HeaderSize)
    /\ step' = "header"
    /\ UNCHANGED <<setting, building, added, sent, said, wire, receiver>>

Send ==
    /\ step = "header" /\ buf.ok
    /\ handler # "closed"
    /\ said' = Append(said, building)
    /\ sent' = 0
    /\ step' = "send"
    /\ UNCHANGED <<setting, building, added, buf, wire, receiver>>

\* write_some takes a byte or all of them; the bound keeps the states few.
WriteSome ==
    /\ step = "send" /\ handler # "closed" /\ sent < buf.size
    /\ \E n \in {1, buf.size - sent} :
        /\ wire' = wire \o Bytes(buf, sent, n)
        /\ sent' = sent + n
    /\ UNCHANGED <<setting, building, step, added, buf, said, receiver>>

\* The connection is gone: what has been written of the message stays so.
WriteFails ==
    /\ step = "send" /\ handler = "closed" /\ sent < buf.size
    /\ step' = "failed"
    /\ UNCHANGED <<setting, building, added, buf, sent, said, wire, receiver>>

SendReturns ==
    /\ step = "send" /\ sent = buf.size
    /\ building' = building + 1
    /\ step' = "allocate"
    /\ UNCHANGED <<setting, added, buf, sent, said, wire, receiver>>

-----------------------------------------------------------------------------
(* The receiver. *)

Block == blocks[Len(blocks)]
Received == [mem |-> Block, at |-> received.at, size |-> received.size]

Receive ==
    /\ handler = "reading" /\ wire # <<>> /\ room.size > 0
    /\ \E n \in {1, Min({Len(wire), room.size})} :
        /\ blocks' = [blocks EXCEPT ![Len(blocks)] = Written(@, room.at, SubSeq(wire, 1, n))]
        /\ wire' = SubSeq(wire, n + 1, Len(wire))
        /\ received' = [received EXCEPT !.size = @ + n]
        /\ arrived' = n
    /\ handler' = "framing" /\ last' = 0
    /\ UNCHANGED <<setting, sender, room, heard, kept>>

MessageSize == Size(Received, 0, HeaderSize)

\* on_message takes a value at the back first.
EndsAtTheBack(xs) == xs # <<>> /\ Last(xs).kind \in AtTheBack
InOrder(xs) == IF EndsAtTheBack(xs) THEN <<Last(xs)>> \o Front(xs) ELSE xs

\* What on_message extracts, up to a value that throws.
ValueAfter(r, x) == IF r.ok THEN Joined(r, ExtractAny(r.view, x)) ELSE r
Extracted(v, xs) ==
    LET after[i \in 0..Len(xs)] ==
            IF i = 0 THEN Read(v, <<>>)
            ELSE ValueAfter(after[i - 1], xs[i])
    IN  after[Len(xs)]

\* The values it would see if it looked at them instead, with one offset and
\* as far as it can: up to a value that throws or that there is no front for,
\* and not behind an object, where the offset has stood still.
LookAfter(v, r, x) ==
    LET one == PeekAny(v, r.off, x)
    IN  IF r.ok /\ CanPeek(x) /\ one.ok
        THEN [ok |-> x.kind # "object", off |-> one.off, value |-> Append(r.value, one.value)]
        ELSE [r EXCEPT !.ok = FALSE]
LookedAt(v, xs) ==
    LET after[i \in 0..Len(xs)] ==
            IF i = 0 THEN Seen(0, <<>>)
            ELSE LookAfter(v, after[i - 1], xs[i])
    IN  after[Len(xs)].value

\* The handler's loop, a message at a time.  An exception closes the session.
\* process_message takes the message by value (Imessageable.h:33), so the
\* handler's own keeps its size whatever on_message does with the copy.
Frame ==
    /\ handler = "framing"
    /\ received.size >= MinMessageSize
    /\ MessageSize \in MinMessageSize..received.size
    /\ LET message == setting[said[Len(heard) + 1]]
           view == Advance([Received EXCEPT !.size = MessageSize], HeaderSize)
       IN  \E read \in {Extracted(view, InOrder(message.values))} :
           /\ heard' = Append(heard, [ok |-> read.ok, values |-> read.value, left |-> read.view.size,
                                      looked |-> LookedAt(view, message.values)])
           /\ blocks' = [blocks EXCEPT ![Len(blocks)] = read.view.mem]
           /\ kept' = IF ~message.keeps THEN kept
                      ELSE Append(kept, [block |-> Len(blocks), at |-> view.at, size |-> view.size,
                                         bytes |-> Contents([view EXCEPT !.mem = read.view.mem])])
           /\ handler' = IF read.ok THEN "framing" ELSE "closed"
           /\ received' = IF read.ok THEN [at |-> received.at + MessageSize, size |-> received.size - MessageSize]
                          ELSE received
    /\ last' = MessageSize
    /\ UNCHANGED <<setting, sender, wire, room, arrived>>

\* Nothing more can be cut off.
Incomplete ==
    received.size >= MinMessageSize => MessageSize \in (received.size + 1)..MaxMessageSize

\* Too long a message is only refused as long as it is not complete.
InvalidSize ==
    /\ handler = "framing"
    /\ received.size >= MinMessageSize
    /\ MessageSize \notin MinMessageSize..Max({received.size, MaxMessageSize})
    /\ handler' = "closed"
    /\ UNCHANGED <<setting, sender, wire, blocks, received, room, arrived, last, heard, kept>>

RoomLeft == room.size - arrived
NewBlockSize == ReceiveBufferSize + received.size + (IF last > ReceiveBufferSize THEN last ELSE 0)

\* A bug: a new block is only taken when there is no room at all.
Rearm_NoMinimum ==
    /\ handler = "framing" /\ Incomplete
    /\ IF RoomLeft = 0
       THEN /\ blocks' = Append(blocks, Written(Allocated(NewBlockSize).mem, 0, Contents(Received)))
            /\ received' = [received EXCEPT !.at = 0]
            /\ room' = [at |-> received.size, size |-> NewBlockSize - received.size]
       ELSE /\ room' = [at |-> room.at + arrived, size |-> RoomLeft]
            /\ UNCHANGED <<blocks, received>>
    /\ handler' = "reading"
    /\ UNCHANGED <<setting, sender, wire, arrived, last, heard, kept>>

\* A bug: what is left in the old block is not copied.
Rearm_NotCopied ==
    /\ handler = "framing" /\ Incomplete
    /\ IF RoomLeft < MinRoom \/ RoomLeft < last
       THEN /\ blocks' = Append(blocks, Allocated(NewBlockSize).mem)
            /\ received' = [received EXCEPT !.at = 0]
            /\ room' = [at |-> received.size, size |-> NewBlockSize - received.size]
       ELSE /\ room' = [at |-> room.at + arrived, size |-> RoomLeft]
            /\ UNCHANGED <<blocks, received>>
    /\ handler' = "reading"
    /\ UNCHANGED <<setting, sender, wire, arrived, last, heard, kept>>

\* The next read: behind what is left, or in a new block that this is copied to.
Rearm ==
    /\ handler = "framing" /\ Incomplete
    /\ IF RoomLeft < MinRoom \/ RoomLeft < last
       THEN /\ blocks' = Append(blocks, Written(Allocated(NewBlockSize).mem, 0, Contents(Received)))
            /\ received' = [received EXCEPT !.at = 0]
            /\ room' = [at |-> received.size, size |-> NewBlockSize - received.size]
       ELSE /\ room' = [at |-> room.at + arrived, size |-> RoomLeft]
            /\ UNCHANGED <<blocks, received>>
    /\ handler' = "reading"
    /\ UNCHANGED <<setting, sender, wire, arrived, last, heard, kept>>

-----------------------------------------------------------------------------
Sending ==
    \/ Allocate \/ AppendValue \/ PrependValue \/ Refused \/ SetHeader
    \/ Send \/ WriteSome \/ WriteFails \/ SendReturns
Handling == Frame \/ InvalidSize \/ Rearm

\* Nothing is left to do; everywhere else something goes on.
Finished ==
    /\ building > Len(setting) \/ (handler = "closed" /\ step \in {"header", "failed"} /\ buf.ok)
    /\ handler = "closed" \/ (handler = "reading" /\ wire = <<>>)
    /\ UNCHANGED vars

Next == Sending \/ Receive \/ Handling \/ Finished

Spec == Init /\ [][Next]_vars

-----------------------------------------------------------------------------
(* Properties *)

\* The read that is pending may write from directly behind what has been
\* received to the end of the block, and there is room for it (Nsocket_tcp.cpp
\* computes the two apart); messages are heard in the order they are sent.
TypeOK ==
    /\ step \in {"allocate", "fill", "header", "send", "failed"}
    /\ handler \in {"reading", "framing", "closed"}
    /\ buf.at + buf.size <= Len(buf.mem)
    /\ received.at + received.size <= Len(Block)
    /\ Len(heard) <= Len(said)
    /\ handler = "reading" =>
          /\ room.at = received.at + received.size
          /\ room.at + room.size = Len(Block)
          /\ room.size >= MinRoom

\* get_size_of says what append and prepend write: a buffer of that size holds
\* the values and is full, and only one that is shorter throws
\* (_make_shared_buffer and the examples allocate so).
SizeOfAgrees ==
    /\ step = "header" /\ buf.ok => buf.size = HeaderSize + GetSizeOf(Message.values)
    /\ step \in {"fill", "header"} /\ ~buf.ok =>
          \/ Message.short > 0
          \/ \E i \in DOMAIN Message.values : Refusable(Message.values[i])

\* Does what is read fit into what it is read to?
FitsSimple(x) ==
    /\ x.kind = "array" => Len(x.items) <= x.room
    /\ x.kind = "copy" => Len(x.items) + 1 < x.room
Fits(x) ==
    IF x.kind \in Composite THEN \A i \in DOMAIN x.items : FitsSimple(x.items[i])
    ELSE FitsSimple(x)

\* A number in text.
ParsedDigits(digits) ==
    LET upTo[i \in 0..Len(digits)] == IF i = 0 THEN 0 ELSE 10 * upTo[i - 1] + (digits[i] - 48)
    IN  upTo[Len(digits)]
Parsed(chars) == IF chars[1] = 45 THEN -ParsedDigits(Tail(chars)) ELSE ParsedDigits(chars)
FromHex(c) == IF c < 58 THEN c - 48 ELSE c - 87

\* The value as it was said.  The lowest integer in text, and the members of
\* an aggregate that are not laid out as the code thinks, are not.
SaysSimple(x, value, prepended) ==
    /\ x.kind = "signed" /\ x.items[1] # -(Base^WordBytes \div 2) => Parsed(value) = x.items[1]
    /\ x.kind = "unsigned" => Parsed(value) = x.items[1]
    /\ x.kind = "hex" => x.items =
          [i \in DOMAIN x.items |-> 16 * FromHex(value[2 * i - 1]) + FromHex(value[2 * i])]
    /\ x.kind = "line_copy" => value = SubSeq(x.items, 1, Min({Len(x.items), x.room - 1}))
    /\ x.kind \in {"map", "initializer"} =>
          value = IF prepended THEN Reverse(x.items) ELSE x.items
    /\ x.kind \notin {"signed", "unsigned", "hex", "line_copy", "map", "initializer"} => value = x.items
Says(x, value, prepended) ==
    IF x.kind \notin Composite THEN SaysSimple(x, value, prepended)
    ELSE (x.kind = "struct" => Found(x.items) = LaidOut(x.items)) =>
            /\ Len(value) = Len(x.items)
            /\ \A i \in DOMAIN x.items : SaysSimple(x.items[i], value[i], prepended)

\* A string with a terminator in it, by itself or in a container.
IsCut(of, chars) == of = "string" /\ 0 \in ToSet(chars)
Cut(x) ==
    \/ IsCut(x.kind, x.items)
    \/ /\ x.kind \in Container \ {"array", "span"}
       /\ \E i \in DOMAIN x.items : IsCut(x.of, x.items[i])
    \/ /\ x.kind = "map"
       /\ \E i \in DOMAIN x.items : IsCut(x.key, x.items[i][1]) \/ IsCut(x.of, x.items[i][2])

\* What was extracted, in the order of the values.
Restored(xs, values) == IF EndsAtTheBack(xs) THEN Append(Tail(values), Head(values)) ELSE values

\* on_message extracts the values that were put into the message, in their
\* order, and nothing is left; looking at them with front agrees, but for a
\* std::string with a terminator in it; what a receiver keeps of a message
\* stays as it was while later messages are received (the block is only
\* written behind it).
DeliveredAsSaid ==
    /\ \A i \in DOMAIN heard :
          LET m == setting[said[i]]
              h == heard[i]
              values == Restored(m.values, h.values)
          IN  /\ h.ok <=> \A k \in DOMAIN m.values : Fits(m.values[k])
              /\ h.ok => /\ h.left = 0
                         /\ \A k \in DOMAIN m.values : Says(m.values[k], values[k], k <= m.prepended)
              /\ \A k \in DOMAIN h.looked :
                    ~Cut(m.values[k]) => Says(m.values[k], h.looked[k], k <= m.prepended)
    /\ \A i \in DOMAIN kept :
          SubSeq(blocks[kept[i].block], kept[i].at + 1, kept[i].at + kept[i].size) = kept[i].bytes

Acceptable(m) ==
    /\ HeaderSize + GetSizeOf(m.values) <= MaxMessageSize
    /\ \A k \in DOMAIN m.values : Fits(m.values[k])

\* However the bytes are cut, and however long a message is: when everything
\* is sent and received, everything is heard, and the session is only closed
\* on a message that is too long or does not fit.  (Every step brings the
\* messages nearer to that, and TLC finds no deadlock before.)
NothingIsLost ==
    /\ (building > Len(setting) /\ wire = <<>> /\ handler = "reading") =>
          Len(heard) = Len(said) /\ received.size = 0
    /\ handler = "closed" => \E i \in DOMAIN said : ~Acceptable(setting[said[i]])
=============================================================================
