----------------------------- MODULE BasicBuffer -----------------------------
(***************************************************************************)
(* _basic_buffer: a view of a block of memory that knows the bounds of the *)
(* block, and so can be appended to behind its back and prepended to       *)
(* before its front.  What has a length is written as the views read it.   *)
(*                                                                         *)
(* A buffer is a view with ok, which is FALSE once a bound check has       *)
(* thrown: nothing more is written then, what was written stays.           *)
(***************************************************************************)
EXTENDS BufferView

CONSTANT
    ObjectBytes \* sizeof(std::string): 32

ASSUME ObjectAssumption == ObjectBytes \in Nat \ {0}

Allocated(n) ==
    [mem |-> [i \in 1..n |-> Unwritten], at |-> 0, size |-> 0, ok |-> TRUE]

Written(mem, off, bytes) ==
    [i \in DOMAIN mem |-> IF i - off \in DOMAIN bytes THEN bytes[i - off] ELSE mem[i]]

\* The upper bound is that of the block.
Require(b, n) == [b EXCEPT !.ok = @ /\ b.at + b.size + n <= Len(b.mem)]

AppendSkip(b, n) ==
    LET room == Require(b, n) IN IF ~room.ok THEN room ELSE [room EXCEPT !.size = @ + n]

AppendBytes(b, bytes) ==
    LET room == AppendSkip(b, Len(bytes))
    IN  IF ~room.ok THEN room
        ELSE [room EXCEPT !.mem = Written(@, b.at + b.size, bytes)]

-----------------------------------------------------------------------------
(* append *)

AppendGeneral(b, n, width) == AppendBytes(b, Encoded(n, width))

\* The object is constructed where it is, and a number's constructor does nothing.
AppendEmplace(b, width) == AppendSkip(b, width)

AppendCount(b, n) == AppendGeneral(b, n, CountBytes)

\* A bug: the terminator is neither counted nor written.
AppendString_Terminator(b, chars) == AppendBytes(b, Encoded(Len(chars), CountBytes) \o chars)

\* All of it or nothing.
AppendString(b, chars) ==
    AppendBytes(b, Encoded(Len(chars) + 1, CountBytes) \o chars \o <<0>>)

AppendText(b, chars) == AppendBytes(b, chars)

AppendBuffer(b, bytes) ==
    AppendBytes(b, Encoded(Len(bytes), SizeBytes) \o bytes)

AppendElement(b, of, item) ==
    CASE of = "number" -> AppendGeneral(b, item[1], WordBytes)
      [] of \in {"string", "view"} -> AppendString(b, item)
      [] of = "buffer" -> AppendBuffer(b, item)

AppendElements(b, of, items) ==
    LET after[i \in 0..Len(items)] ==
            IF i = 0 THEN b ELSE AppendElement(after[i - 1], of, items[i])
    IN  after[Len(items)]

NumberBytes(items) ==
    [i \in 1..(WordBytes * Len(items)) |->
        Encoded(items[((i - 1) \div WordBytes) + 1][1], WordBytes)[((i - 1) % WordBytes) + 1]]

\* Numbers are copied at once.
AppendArrayCopy(b, items) == AppendBytes(AppendCount(b, Len(items)), NumberBytes(items))

\* For objects the room is checked with their size in memory.
AppendArray(b, of, items) ==
    LET room == Require(b, ObjectBytes * Len(items))
    IN  AppendElements(AppendCount(room, Len(items)), of, items)

AppendInitializerList(b, of, items) == AppendElements(b, of, items)

AppendContainerArrayCopy(b, items) ==
    LET s == AppendCount(b, Len(items))
    IN  IF items = <<>> THEN s ELSE AppendBytes(s, NumberBytes(items))
AppendContainerArray(b, of, items) == AppendElements(AppendCount(b, Len(items)), of, items)
AppendContainerList(b, of, items) == AppendElements(AppendCount(b, Len(items)), of, items)

\* The count is written when the elements have been.
CountWritten(s, at, n) == IF s.ok THEN [s EXCEPT !.mem = Written(@, at, Encoded(n, CountBytes))] ELSE s
AppendIterator(b, of, items) ==
    CountWritten(AppendElements(AppendSkip(b, CountBytes), of, items), b.at + b.size, Len(items))

AppendContainerAssociative(b, key, of, pairs) ==
    LET after[i \in 0..Len(pairs)] ==
            IF i = 0 THEN AppendCount(b, Len(pairs))
            ELSE AppendElement(AppendElement(after[i - 1], key, pairs[i][1]), of, pairs[i][2])
    IN  after[Len(pairs)]

\* The digits are taken from the last one on.
Digits(n) ==
    LET places == {k \in 1..10 : Shifted(n, 10, k - 1) > 0} \union {1}
    IN  [i \in 1..Max(places) |-> 48 + (Shifted(n, 10, Max(places) - i) % 10)]

AppendUnsignedInteger(b, n) == AppendBytes(b, Digits(n))

\* The lowest integer has no complement: its digits count down from "0".
AppendSignedInteger(b, n) ==
    LET digits == Digits(IF n < 0 THEN -n ELSE n)
        lowest == n = -(Base^WordBytes \div 2)
    IN  AppendBytes(b, (IF n < 0 THEN <<45>> ELSE <<>>) \o
                       [i \in DOMAIN digits |-> IF lowest THEN 96 - digits[i] ELSE digits[i]])

HexDigit(n) == IF n < 10 THEN 48 + n ELSE 87 + n

AppendTextBinary(b, bytes) ==
    AppendBytes(b, [i \in 1..(2 * Len(bytes)) |->
                        LET byte == bytes[(i + 1) \div 2]
                        IN  HexDigit(IF i % 2 = 1 THEN byte \div 16 ELSE byte % 16)])

-----------------------------------------------------------------------------
(* prepend *)

PrependBytes(b, bytes) ==
    IF ~b.ok \/ b.at < Len(bytes) THEN [b EXCEPT !.ok = FALSE]
    ELSE [b EXCEPT !.at = @ - Len(bytes), !.size = @ + Len(bytes),
                   !.mem = Written(@, b.at - Len(bytes), bytes)]

PrependGeneral(b, n, width) == PrependBytes(b, Encoded(n, width))
PrependCount(b, n) == PrependGeneral(b, n, CountBytes)

\* The first check leaves the terminator out, that of the count finds it.
PrependString(b, chars) ==
    IF b.at < Len(chars) + CountBytes THEN [b EXCEPT !.ok = FALSE]
    ELSE PrependCount(PrependBytes(PrependGeneral(b, 0, 1), chars), Len(chars) + 1)

PrependElement(b, of, item) ==
    CASE of = "number" -> PrependGeneral(b, item[1], WordBytes)
      [] of \in {"string", "view"} -> PrependString(b, item)

\* The elements in this order, each before the one before it.
PrependElements(b, of, items) ==
    LET after[i \in 0..Len(items)] ==
            IF i = 0 THEN b ELSE PrependElement(after[i - 1], of, items[i])
    IN  after[Len(items)]

PrependArrayCopy(b, items) == PrependCount(PrependBytes(b, NumberBytes(items)), Len(items))
PrependArray(b, of, items) == PrependCount(PrependElements(b, of, Reverse(items)), Len(items))
\* Of an empty vector the code takes front(), whose address no library follows
\* and memcpy with no bytes does not read: the count is all that is written.  A
\* build with assertions stops at the null pointer it may get.
PrependContainerArrayCopy(b, items) ==
    PrependCount(PrependBytes(b, NumberBytes(items)), Len(items))
PrependContainerArray(b, of, items) ==
    PrependCount(PrependElements(b, of, Reverse(items)), Len(items))
PrependContainerList(b, of, items) ==
    PrependCount(PrependElements(b, of, Reverse(items)), Len(items))

\* From the first to the last: they are read in the opposite order.
PrependInitializerList(b, of, items) == PrependElements(b, of, items)

\* The caller gives reverse iterators.
PrependIterator(b, of, items) == PrependCount(PrependElements(b, of, Reverse(items)), Len(items))

\* From the first pair to the last, too; a map does not mind.
PrependContainerAssociative(b, key, of, pairs) ==
    LET after[i \in 0..Len(pairs)] ==
            IF i = 0 THEN b
            ELSE PrependElement(PrependElement(after[i - 1], of, pairs[i][2]), key, pairs[i][1])
    IN  PrependCount(after[Len(pairs)], Len(pairs))
=============================================================================
