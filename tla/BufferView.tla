----------------------------- MODULE BufferView -----------------------------
(***************************************************************************)
(* _buffer_view<char>: a part of a block of memory that is read from its   *)
(* front.  extract moves the front behind what it reads, front looks at an *)
(* offset and moves the offset.  Numbers are little endian; whatever has a *)
(* length is preceded by a count.                                          *)
(*                                                                         *)
(* A view is [mem, at, size].  Reading it gives [ok, view, value], looking *)
(* at it [ok, off, value]; ok is FALSE when the code throws.  An item, a   *)
(* number or a string, is a sequence: <<n>>, or the characters.            *)
(***************************************************************************)
EXTENDS Integers, Sequences, FiniteSets, SequencesExt

CONSTANTS
    CountBytes, \* sizeof(COUNT_T): 4
    SizeBytes,  \* sizeof(size_type): 8
    WordBytes   \* sizeof of the numbers and of the header: 4

ASSUME WidthsAssumption == {CountBytes, SizeBytes, WordBytes} \subseteq Nat \ {0}

Base == 256
Unwritten == Base \* what memory holds before it is written
LineEnd == <<13, 10>>

\* n without its k lowest digits
Shifted(n, base, k) ==
    LET rest[i \in 0..k] == IF i = 0 THEN n ELSE rest[i - 1] \div base
    IN  rest[k]

\* The number of these digits, the last of which counts as top.
Composed(bytes, top) ==
    LET last[k \in DOMAIN bytes] ==
            IF k = 1 THEN top ELSE bytes[Len(bytes) + 1 - k] + Base * last[k - 1]
    IN  last[Len(bytes)]

Encoded(n, width) == [i \in 1..width |-> Shifted(n, Base, i - 1) % Base]
SignedByte(byte) == IF byte < Base \div 2 THEN byte ELSE byte - Base
Decoded(bytes) == Composed(bytes, SignedByte(Last(bytes)))
DecodedSize(bytes) == Composed(bytes, Last(bytes))

Bytes(v, off, n) == SubSeq(v.mem, v.at + off + 1, v.at + off + n)
Contents(v) == Bytes(v, 0, v.size)
Number(v, off, width) == Decoded(Bytes(v, off, width))
Size(v, off, width) == DecodedSize(Bytes(v, off, width))
Count(v, off) == Number(v, off, CountBytes)

Advance(v, n) == [v EXCEPT !.at = @ + n, !.size = @ - n]
Read(v, value) == [ok |-> TRUE, view |-> v, value |-> value]
Throws(v) == [ok |-> FALSE, view |-> v, value |-> <<>>]
Seen(off, value) == [ok |-> TRUE, off |-> off, value |-> value]
Unseen(off) == [ok |-> FALSE, off |-> off, value |-> <<>>]
SeenOr(off, seen) == IF seen.ok THEN seen ELSE Unseen(off)

-----------------------------------------------------------------------------
(* extract *)

ExtractBytes(v, n) ==
    IF v.size < n THEN Throws(v) ELSE Read(Advance(v, n), Bytes(v, 0, n))

\* The same, to memory of the caller.
ExtractBytesTo(v, n) ==
    IF v.size < n THEN Throws(v)
    ELSE IF n = 0 THEN Read(v, <<>>)
    ELSE Read(Advance(v, n), Bytes(v, 0, n))

ExtractGeneral(v, width) ==
    IF v.size < width THEN Throws(v)
    ELSE Read(Advance(v, width), <<Number(v, 0, width)>>)

\* Is there a string of this length, with its terminator?
IsString(v, off, count) ==
    /\ count >= 1
    /\ off + CountBytes + count <= v.size
    /\ Last(Bytes(v, off + CountBytes, count)) = 0

\* A bug: the terminator is not consumed.
ExtractStringView_Terminator(v) ==
    IF v.size < CountBytes \/ ~IsString(v, 0, Count(v, 0)) THEN Throws(v)
    ELSE Read(Advance(v, CountBytes + Count(v, 0) - 1), Bytes(v, CountBytes, Count(v, 0) - 1))

\* The count -1 is a null string.
ExtractString(v, count) ==
    IF count = -1 THEN Read(Advance(v, CountBytes), <<>>)
    ELSE IF ~IsString(v, 0, count) THEN Throws(v)
    ELSE Read(Advance(v, CountBytes + count), Bytes(v, CountBytes, count - 1))

ExtractStringView(v) ==
    IF v.size < CountBytes THEN Throws(v) ELSE ExtractString(v, Count(v, 0))

\* To memory of the caller, that has to be larger than string and terminator.
ExtractStringCopy(v, room) ==
    IF v.size < CountBytes \/ Count(v, 0) >= room THEN Throws(v) ELSE ExtractString(v, Count(v, 0))

\* A buffer within the buffer: its length is a size_type.
ExtractSized(v, n) ==
    IF v.size < SizeBytes + n THEN Throws(v)
    ELSE Read(Advance(v, SizeBytes + n), Bytes(v, SizeBytes, n))
ExtractBufferView(v) ==
    IF v.size < SizeBytes THEN Throws(v) ELSE ExtractSized(v, Size(v, 0, SizeBytes))

LineEnds(v, first, last) == {i \in first..last : Bytes(v, i, 2) = LineEnd}

\* A line; when there is no end of line, nothing is read.
ExtractWeb(v) ==
    LET ends == LineEnds(v, 0, v.size - 2)
    IN  IF ends = {} THEN Read(v, <<>>)
        ELSE Read(Advance(v, Min(ends) + 2), Bytes(v, 0, Min(ends)))

\* The same, and the line is terminated where it is.
ExtractWebModify(v) ==
    LET line == ExtractWeb(v)
    IN  IF line.view = v THEN line
        ELSE [line EXCEPT !.view.mem[v.at + Len(line.value) + 1] = 0]

\* The same, to memory of the caller, which gets as much as it can hold.
ExtractWebCopy(v, room) ==
    [ExtractWeb(v) EXCEPT !.value = SubSeq(@, 1, Min({Len(@), room - 1}))]

\* An element of a container.
ExtractElement(v, of) ==
    CASE of = "number" -> ExtractGeneral(v, WordBytes)
      [] of \in {"string", "view"} -> ExtractStringView(v)
      [] of = "buffer" -> ExtractBufferView(v)

\* So many elements, one after the other, up to one that throws.
Joined(r, one) == [one EXCEPT !.value = Append(r.value, @)]
ElementAfter(r, of) == IF r.ok THEN Joined(r, ExtractElement(r.view, of)) ELSE r
ExtractElements(v, of, n) ==
    LET after[i \in 0..n] == IF i = 0 THEN Read(v, <<>>) ELSE ElementAfter(after[i - 1], of)
    IN  IF n < 0 THEN Read(v, <<>>) ELSE after[n]

ExtractContainerList(v, of) ==
    IF v.size < CountBytes THEN Throws(v)
    ELSE ExtractElements(Advance(v, CountBytes), of, Count(v, 0))

\* An array of a fixed size refuses more elements than it has.
ExtractArray(v, of, room) ==
    IF v.size < CountBytes THEN Throws(v)
    ELSE IF Count(v, 0) \notin 0..room THEN Throws(Advance(v, CountBytes))
    ELSE ExtractElements(Advance(v, CountBytes), of, Count(v, 0))

Distinct(items) ==
    LET upTo[i \in 0..Len(items)] ==
            IF i = 0 THEN <<>>
            ELSE IF items[i] \in ToSet(upTo[i - 1]) THEN upTo[i - 1] ELSE Append(upTo[i - 1], items[i])
    IN  upTo[Len(items)]

\* Elements that are there already are not added again.
ExtractSet(v, of) ==
    [ExtractContainerList(v, of) EXCEPT !.value = Distinct(@)]

ExtractContainerArray(v, of) ==
    IF v.size < CountBytes THEN Throws(v)
    ELSE ExtractElements(Advance(v, CountBytes), of, Count(v, 0))

\* Bytes that can be copied are copied at once, when all are there.
ExtractContainerArrayCopy(v) ==
    IF v.size < CountBytes THEN Throws(v)
    ELSE IF v.size < CountBytes + WordBytes * Count(v, 0) THEN Throws(Advance(v, CountBytes))
    ELSE ExtractElements(Advance(v, CountBytes), "number", Count(v, 0))

\* A span is a view of the elements where they are.
ExtractContainerSpan(v) ==
    IF v.size < CountBytes \/ v.size < CountBytes + WordBytes * Count(v, 0) THEN Throws(v)
    ELSE ExtractElements(Advance(v, CountBytes), "number", Count(v, 0))

\* Pairs of a key and what it is mapped to, until one of them throws.
Mapped(k, of) == IF k.ok THEN Joined([k EXCEPT !.value = <<@>>], ExtractElement(k.view, of)) ELSE k
PairAfter(r, key, of) == IF r.ok THEN Joined(r, Mapped(ExtractElement(r.view, key), of)) ELSE r
ExtractPairs(v, key, of, n) ==
    LET after[i \in 0..n] == IF i = 0 THEN Read(v, <<>>) ELSE PairAfter(after[i - 1], key, of)
    IN  IF n < 0 THEN Read(v, <<>>) ELSE after[n]
ExtractContainerAssociative(v, key, of) ==
    IF v.size < CountBytes THEN Throws(v)
    ELSE ExtractPairs(Advance(v, CountBytes), key, of, Count(v, 0))

\* From the back.
SubtractGeneral(v, width) ==
    IF v.size < width THEN Throws(v)
    ELSE Read([v EXCEPT !.size = @ - width], <<Number(v, v.size - width, width)>>)

SubtractBytes(v, n) ==
    IF v.size < n THEN Throws(v) ELSE Read([v EXCEPT !.size = @ - n], Bytes(v, v.size - n, n))

-----------------------------------------------------------------------------
(* front *)

FrontGeneral(v, off, width) ==
    IF off + width > v.size THEN Unseen(off)
    ELSE Seen(off + width, <<Number(v, off, width)>>)

\* An offset from the back, which does not move.
Back(v, off, width) == [FrontGeneral(v, v.size + off, width) EXCEPT !.off = off]

FrontStringView(v, off) ==
    IF off + CountBytes + 1 > v.size \/ ~IsString(v, off, Count(v, off)) THEN Unseen(off)
    ELSE Seen(off + CountBytes + Count(v, off), Bytes(v, off + CountBytes, Count(v, off) - 1))

\* A std::string is taken up to its first terminator.
FrontString(v, off) ==
    IF off + CountBytes + 1 > v.size \/ ~IsString(v, off, Count(v, off)) THEN Unseen(off)
    ELSE LET chars == Bytes(v, off + CountBytes, Count(v, off))
         IN  Seen(off + CountBytes + Count(v, off),
                  SubSeq(chars, 1, Min({i \in DOMAIN chars : chars[i] = 0}) - 1))

\* The caller's offset stays where it is.
FrontTextByLength(v, off, n) ==
    IF off + n > v.size THEN Unseen(off) ELSE Seen(off, Bytes(v, off, n))

\* The line's end is looked for up to as many bytes behind the view as the
\* offset has.
FrontWeb(v, off) ==
    LET ends == LineEnds(v, off, off + v.size - 2)
    IN  IF off > v.size - 1 THEN Unseen(off)
        ELSE IF ends = {} THEN Seen(off, <<>>)
        ELSE Seen(Min(ends) + 2, Bytes(v, off, Min(ends) - off))

FrontElement(v, off, of) ==
    CASE of = "number" -> FrontGeneral(v, off, WordBytes)
      [] of = "string" -> FrontString(v, off)
      [] of = "view" -> FrontStringView(v, off)

LookedAfter(v, off, r, of) ==
    IF r.ok THEN SeenOr(off, Joined(r, FrontElement(v, r.off, of))) ELSE r

\* The count is looked at without a check; when an element throws, the
\* caller's offset has not moved.
FrontElements(v, off, of, n) ==
    LET start == Seen(off + CountBytes, <<>>)
        after[i \in 0..n] == IF i = 0 THEN start ELSE LookedAfter(v, off, after[i - 1], of)
    IN  IF n < 0 THEN start ELSE after[n]

FrontContainerList(v, off, of) == FrontElements(v, off, of, Count(v, off))
FrontContainerArray(v, off, of) == FrontElements(v, off, of, Count(v, off))

FrontSet(v, off, of) ==
    [FrontElements(v, off, of, Count(v, off)) EXCEPT !.value = Distinct(@)]

FrontContainerArrayCopy(v, off) ==
    IF off + CountBytes + WordBytes * Count(v, off) > v.size THEN Unseen(off)
    ELSE FrontElements(v, off, "number", Count(v, off))

MappedAt(v, k, of) == IF k.ok THEN Joined([k EXCEPT !.value = <<@>>], FrontElement(v, k.off, of)) ELSE k
PairLookedAfter(v, off, r, key, of) ==
    IF r.ok THEN SeenOr(off, Joined(r, MappedAt(v, FrontElement(v, r.off, key), of))) ELSE r
FrontContainerAssociative(v, off, key, of) ==
    LET start == Seen(off + CountBytes, <<>>)
        after[i \in 0..Count(v, off)] ==
            IF i = 0 THEN start ELSE PairLookedAfter(v, off, after[i - 1], key, of)
    IN  IF Count(v, off) < 0 THEN start ELSE after[Count(v, off)]
=============================================================================
