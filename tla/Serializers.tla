----------------------------- MODULE Serializers -----------------------------
(***************************************************************************)
(* serializer_prepend, _append, _extract, _peek and _size_of: which of the *)
(* buffers' functions a type is written, read and measured with.  Each     *)
(* group of types has a definition for each of them that it has; the last  *)
(* section chooses by kind.                                                *)
(*                                                                         *)
(* A value x has a kind, items, the type of its items (of), for a map that *)
(* of its keys (key), and the room the one who reads it has for items.     *)
(***************************************************************************)
EXTENDS BasicBuffer

SizeOfString(chars) == CountBytes + Len(chars) + 1
SizeOfBuffer(bytes) == SizeBytes + Len(bytes)
SizeOfElement(of, item) ==
    CASE of = "number" -> WordBytes
      [] of \in {"string", "view"} -> SizeOfString(item)
      [] of = "buffer" -> SizeOfBuffer(item)
Total(sizes) ==
    LET upTo[i \in 0..Len(sizes)] == IF i = 0 THEN 0 ELSE upTo[i - 1] + sizes[i]
    IN  upTo[Len(sizes)]
SizeOfElements(x) ==
    CountBytes + Total([i \in DOMAIN x.items |-> SizeOfElement(x.of, x.items[i])])

Copied(x) == x.of = "number" \* is_memcopy_able

\* What is read from a copy of the view behind the offset, moves the offset.
Peeked(v, off, read) ==
    IF off <= v.size /\ read.ok THEN Seen(read.view.at - v.at, read.value) ELSE Unseen(off)

-----------------------------------------------------------------------------
(* Numbers, and whatever else has no serializer of its own. *)
Width(x) == IF x.kind = "byte" THEN 1 ELSE WordBytes

DoPrependGeneral(s, x) == PrependGeneral(s, x.items[1], Width(x))
DoAppendGeneral(s, x) == AppendGeneral(s, x.items[1], Width(x))
DoExtractGeneral(v, x) == ExtractGeneral(v, Width(x))
DoPeekGeneral(v, off, x) == FrontGeneral(v, off, Width(x))
SizeOfGeneral(x) == Width(x)

(* Iterators and initializer lists.  Neither can be read: a container is, or *)
(* the elements one by one.                                                  *)
DoPrependIterator(s, x) ==
    IF x.kind = "iterator" THEN PrependIterator(s, x.of, x.items)
    ELSE PrependInitializerList(s, x.of, x.items)
DoAppendIterator(s, x) ==
    IF x.kind = "iterator" THEN AppendIterator(s, x.of, x.items)
    ELSE AppendInitializerList(s, x.of, x.items)

(* T[N] and std::array.  A literal is an array of characters, its terminator *)
(* among them, and is read as a string.                                      *)
Chars(x) == x.items \o <<0>>

DoPrependArray(s, x) ==
    CASE x.kind = "literal" -> PrependCount(PrependBytes(s, Chars(x)), Len(Chars(x)))
      [] x.kind = "array" /\ Copied(x) -> PrependArrayCopy(s, x.items)
      [] x.kind = "array" /\ ~Copied(x) -> PrependArray(s, x.of, x.items)
DoAppendArray(s, x) ==
    CASE x.kind = "literal" -> AppendBytes(AppendCount(s, Len(Chars(x))), Chars(x))
      [] x.kind = "array" /\ Copied(x) -> AppendArrayCopy(s, x.items)
      [] x.kind = "array" /\ ~Copied(x) -> AppendArray(s, x.of, x.items)
DoExtractLiteral(v, x) == ExtractStringView(v)
DoExtractArray(v, x) == ExtractArray(v, x.of, x.room)
DoPeekArray(v, off, x) == Peeked(v, off, ExtractArray(Advance(v, off), x.of, x.room))
SizeOfLiteral(x) == CountBytes + Len(Chars(x))
SizeOfArray(x) == SizeOfElements(x)

(* Buffers within buffers. *)
DoAppendBuffer(s, x) == AppendBuffer(s, x.items)
DoExtractBuffer(v, x) == ExtractBufferView(v)
SizeOfBufferType(x) == SizeOfBuffer(x.items)

(* WEB and WEB_MODIFY, a line that has been appended as text. *)
DoExtractWeb(v, x) == ExtractWeb(v)
DoPeekWeb(v, off, x) == FrontWeb(v, off)
DoExtractWebModify(v, x) == ExtractWebModify(v)

DoAppendSkip(s, x) == AppendSkip(s, x.items[1])
SizeOfSkip(x) == x.items[1]

(* std::string, std::string_view, and text, of which the application keeps *)
(* the length.                                                             *)
DoPrependString(s, x) == PrependString(s, x.items)
DoAppendString(s, x) == IF x.kind = "text" THEN AppendText(s, x.items) ELSE AppendString(s, x.items)
DoExtractString(v, x) == ExtractStringView(v)
DoPeekString(v, off, x) == IF x.kind = "string" THEN FrontString(v, off) ELSE FrontStringView(v, off)
SizeOfStringType(x) == IF x.kind = "text" THEN Len(x.items) ELSE SizeOfString(x.items)

(* list, deque *)
DoPrependLinear(s, x) == PrependContainerList(s, x.of, x.items)
DoAppendLinear(s, x) == AppendContainerList(s, x.of, x.items)
DoExtractLinear(v, x) == ExtractContainerList(v, x.of)
DoPeekLinear(v, off, x) == FrontContainerList(v, off, x.of)
SizeOfLinear(x) == SizeOfElements(x)

(* vector: what can be copied, is. *)
DoPrependReserve(s, x) ==
    IF Copied(x) THEN PrependContainerArrayCopy(s, x.items) ELSE PrependContainerArray(s, x.of, x.items)
DoAppendReserve(s, x) ==
    IF Copied(x) THEN AppendContainerArrayCopy(s, x.items) ELSE AppendContainerArray(s, x.of, x.items)
DoExtractReserve(v, x) ==
    IF Copied(x) THEN ExtractContainerArrayCopy(v) ELSE ExtractContainerArray(v, x.of)
DoPeekReserve(v, off, x) ==
    IF Copied(x) THEN FrontContainerArrayCopy(v, off) ELSE FrontContainerArray(v, off, x.of)
SizeOfReserve(x) == SizeOfElements(x)

(* A span of numbers is read where it is. *)
DoPrependSpan(s, x) == PrependContainerList(s, x.of, x.items)
DoAppendSpan(s, x) == AppendContainerList(s, x.of, x.items)
DoExtractSpan(v, x) == ExtractContainerSpan(v)
SizeOfSpan(x) == CountBytes + WordBytes * Len(x.items)

DoPrependSet(s, x) == PrependContainerList(s, x.of, x.items)
DoAppendSet(s, x) == AppendContainerList(s, x.of, x.items)
DoExtractSet(v, x) == ExtractSet(v, x.of)
DoPeekSet(v, off, x) == FrontSet(v, off, x.of)
SizeOfSet(x) == SizeOfElements(x)

DoPrependAssociative(s, x) == PrependContainerAssociative(s, x.key, x.of, x.items)
DoAppendAssociative(s, x) == AppendContainerAssociative(s, x.key, x.of, x.items)
DoExtractAssociative(v, x) == ExtractContainerAssociative(v, x.key, x.of)
DoPeekAssociative(v, off, x) == FrontContainerAssociative(v, off, x.key, x.of)
SizeOfAssociative(x) ==
    CountBytes + Total([i \in DOMAIN x.items |->
        SizeOfElement(x.key, x.items[i][1]) + SizeOfElement(x.of, x.items[i][2])])

-----------------------------------------------------------------------------
(* What a buffer can also be given and asked for without a serializer: raw *)
(* bytes, numbers as text, memory of the caller to read to, a number at    *)
(* the back.  The application keeps the length.                            *)

AppendAsText(s, x) ==
    CASE x.kind \in {"bytes", "raw", "tail"} -> AppendBytes(s, x.items)
      [] x.kind = "signed" -> AppendSignedInteger(s, x.items[1])
      [] x.kind = "unsigned" -> AppendUnsignedInteger(s, x.items[1])
      [] x.kind = "hex" -> AppendTextBinary(s, x.items)
      [] x.kind \in {"line", "line_modify", "line_copy"} -> AppendText(s, x.items \o LineEnd)

LengthAsText(x) == AppendAsText(Allocated(2 * Len(x.items) + 10), x).size

ExtractWithout(v, x) ==
    CASE x.kind = "skip" -> [ExtractBytes(v, x.items[1]) EXCEPT !.value = x.items]
      [] x.kind = "text" -> ExtractBytes(v, Len(x.items))
      [] x.kind = "iterator" -> ExtractContainerList(v, x.of)
      [] x.kind = "initializer" -> ExtractElements(v, x.of, Len(x.items))
      [] x.kind = "copy" -> ExtractStringCopy(v, x.room)
      [] x.kind = "line_copy" -> ExtractWebCopy(v, x.room)
      [] x.kind = "trailer" -> SubtractGeneral(v, WordBytes)
      [] x.kind = "tail" -> SubtractBytes(v, Len(x.items))
      [] x.kind = "raw" -> ExtractBytesTo(v, Len(x.items))
      [] OTHER -> ExtractBytes(v, LengthAsText(x))

PeekWithout(v, off, x) ==
    CASE x.kind = "iterator" -> FrontContainerList(v, off, x.of)
      [] x.kind = "trailer" -> [Back(v, -WordBytes, WordBytes) EXCEPT !.off = off]
      [] OTHER -> [FrontTextByLength(v, off, LengthAsText(x)) EXCEPT !.off = off + LengthAsText(x)]

SizeWithout(x) ==
    CASE x.kind = "iterator" -> SizeOfElements(x)
      [] x.kind = "initializer" -> SizeOfElements(x) - CountBytes
      [] x.kind = "copy" -> SizeOfString(x.items)
      [] x.kind = "trailer" -> WordBytes
      [] OTHER -> LengthAsText(x)

-----------------------------------------------------------------------------
(* A value that has no values as members, by its kind. *)

PrependSimple(s, x) ==
    CASE x.kind \in {"byte", "number"} -> DoPrependGeneral(s, x)
      [] x.kind \in {"iterator", "initializer"} -> DoPrependIterator(s, x)
      [] x.kind \in {"array", "literal"} -> DoPrependArray(s, x)
      [] x.kind \in {"string", "view"} -> DoPrependString(s, x)
      [] x.kind = "list" -> DoPrependLinear(s, x)
      [] x.kind = "vector" -> DoPrependReserve(s, x)
      [] x.kind = "span" -> DoPrependSpan(s, x)
      [] x.kind = "set" -> DoPrependSet(s, x)
      [] x.kind = "map" -> DoPrependAssociative(s, x)
      [] x.kind = "bytes" -> PrependBytes(s, x.items)

AppendSimple(s, x) ==
    CASE x.kind \in {"byte", "number", "trailer"} -> DoAppendGeneral(s, x)
      [] x.kind \in {"iterator", "initializer"} -> DoAppendIterator(s, x)
      [] x.kind \in {"array", "literal"} -> DoAppendArray(s, x)
      [] x.kind = "buffer" -> DoAppendBuffer(s, x)
      [] x.kind = "skip" -> DoAppendSkip(s, x)
      [] x.kind \in {"string", "view", "text", "copy"} -> DoAppendString(s, x)
      [] x.kind = "list" -> DoAppendLinear(s, x)
      [] x.kind = "vector" -> DoAppendReserve(s, x)
      [] x.kind = "span" -> DoAppendSpan(s, x)
      [] x.kind = "set" -> DoAppendSet(s, x)
      [] x.kind = "map" -> DoAppendAssociative(s, x)
      [] OTHER -> AppendAsText(s, x)

ExtractSimple(v, x) ==
    CASE x.kind \in {"byte", "number"} -> DoExtractGeneral(v, x)
      [] x.kind = "literal" -> DoExtractLiteral(v, x)
      [] x.kind = "array" -> DoExtractArray(v, x)
      [] x.kind = "buffer" -> DoExtractBuffer(v, x)
      [] x.kind = "line" -> DoExtractWeb(v, x)
      [] x.kind = "line_modify" -> DoExtractWebModify(v, x)
      [] x.kind \in {"string", "view"} -> DoExtractString(v, x)
      [] x.kind = "list" -> DoExtractLinear(v, x)
      [] x.kind = "vector" -> DoExtractReserve(v, x)
      [] x.kind = "span" -> DoExtractSpan(v, x)
      [] x.kind = "set" -> DoExtractSet(v, x)
      [] x.kind = "map" -> DoExtractAssociative(v, x)
      [] OTHER -> ExtractWithout(v, x)

SizeOfSimple(x) ==
    CASE x.kind \in {"byte", "number"} -> SizeOfGeneral(x)
      [] x.kind = "literal" -> SizeOfLiteral(x)
      [] x.kind = "array" -> SizeOfArray(x)
      [] x.kind = "buffer" -> SizeOfBufferType(x)
      [] x.kind = "skip" -> SizeOfSkip(x)
      [] x.kind \in {"string", "view", "text"} -> SizeOfStringType(x)
      [] x.kind = "list" -> SizeOfLinear(x)
      [] x.kind = "vector" -> SizeOfReserve(x)
      [] x.kind = "span" -> SizeOfSpan(x)
      [] x.kind = "set" -> SizeOfSet(x)
      [] x.kind = "map" -> SizeOfAssociative(x)
      [] OTHER -> SizeWithout(x)

-----------------------------------------------------------------------------
(* Values with members. *)

AppendMembers(s, xs) ==
    LET after[i \in 0..Len(xs)] == IF i = 0 THEN s ELSE AppendSimple(after[i - 1], xs[i])
    IN  after[Len(xs)]

MemberAfter(r, x) == IF r.ok THEN Joined(r, ExtractSimple(r.view, x)) ELSE r
ExtractMembers(s, xs) ==
    LET after[i \in 0..Len(xs)] ==
            IF i = 0 THEN Read(s, <<>>)
            ELSE MemberAfter(after[i - 1], xs[i])
    IN  after[Len(xs)]

SizeOfMembers(xs) == Total([i \in DOMAIN xs |-> SizeOfSimple(xs[i])])

\* The last one first.
DoPrependTuple(s, x) ==
    LET n == Len(x.items)
        after[i \in 0..n] == IF i = 0 THEN s ELSE PrependSimple(after[i - 1], x.items[n + 1 - i])
    IN  after[n]

\* Members of an aggregate in memory.  A string holds a pointer.
InMemory(x) == CASE x.kind = "byte" -> 1 [] x.kind = "number" -> WordBytes [] OTHER -> ObjectBytes
Alignment(x) == IF x.kind = "string" THEN 2 * WordBytes ELSE InMemory(x)

\* Where the next member is looked for, by the alignment of the aggregate: a
\* member that fits before the next boundary is taken to be there at once.
AlignOffsetPre(align, offset, size) ==
    LET over == offset % align
    IN  IF over = 0 \/ align - over >= size THEN offset ELSE offset - over + align

\* The offsets of the members, as the code finds them and as the compiler
\* has laid them out.
Found(xs) ==
    LET align == Max({Alignment(xs[i]) : i \in DOMAIN xs})
        at[i \in DOMAIN xs] ==
            IF i = 1 THEN 0
            ELSE AlignOffsetPre(align, at[i - 1] + InMemory(xs[i - 1]), InMemory(xs[i]))
    IN  at
LaidOut(xs) ==
    LET at[i \in DOMAIN xs] ==
            IF i = 1 THEN 0
            ELSE LET end == at[i - 1] + InMemory(xs[i - 1])
                 IN  end + ((-end) % Alignment(xs[i]))
    IN  at

\* The members that are appended: a number that is not where it is looked
\* for is what the bytes there say.
MembersFound(xs) ==
    LET numbers == {i \in DOMAIN xs : xs[i].kind \in {"byte", "number"}}
        byteAt(at) ==
            LET there == {i \in numbers : at \in LaidOut(xs)[i]..(LaidOut(xs)[i] + InMemory(xs[i]) - 1)}
            IN  IF there = {} THEN Unwritten
                ELSE LET i == Max(there)
                     IN  Encoded(xs[i].items[1], InMemory(xs[i]))[at - LaidOut(xs)[i] + 1]
    IN  [i \in DOMAIN xs |->
            IF i \in numbers
            THEN [xs[i] EXCEPT !.items =
                     <<Decoded([k \in 1..InMemory(xs[i]) |-> byteAt(Found(xs)[i] + k - 1)])>>]
            ELSE xs[i]]

-----------------------------------------------------------------------------
(* Tuples, and several values appended in one call: the members in order.    *)

DoAppendTuple(s, x) == AppendMembers(s, x.items)
DoExtractTuple(v, x) == ExtractMembers(v, x.items)
DoPeekTuple(v, off, x) == Peeked(v, off, ExtractMembers(Advance(v, off), x.items))
SizeOfTuple(x) == SizeOfMembers(x.items)

(* Aggregates that declare themselves serialisable: the members in the order  *)
(* of declaration, found in memory to be appended and built from what is read.*)

DoAppendStruct(s, x) == AppendMembers(s, MembersFound(x.items))
DoExtractStruct(v, x) == ExtractMembers(v, x.items)

\* The offset is set when the copy that was read from is destroyed, so a member
\* that throws leaves it where that copy got to.
FrontMembers(v, off, xs) ==
    LET read == ExtractMembers(Advance(v, off), xs)
    IN  IF off > v.size THEN Unseen(off)
        ELSE [ok |-> read.ok, off |-> read.view.at - v.at, value |-> read.value]
DoPeekStruct(v, off, x) == FrontMembers(v, off, x.items)
SizeOfStruct(x) == SizeOfMembers(x.items)

(* Ibuffer_serializable: serialize_out, serialize_in and get_size_of are the  *)
(* object's own; here they go through its members.  Looking at an object does *)
(* not move the offset.                                                       *)

DoAppendObject(s, x) == AppendMembers(s, x.items)
DoExtractObject(v, x) == ExtractMembers(v, x.items)
DoPeekObject(v, off, x) ==
    [Peeked(v, off, ExtractMembers(Advance(v, off), x.items)) EXCEPT !.off = off]
SizeOfObject(x) == SizeOfMembers(x.items)

(* std::shared_ptr and, line for line alike, std::unique_ptr to such objects:  *)
(* what is read is a new object.  Null pointers are left out: get_size_of      *)
(* follows them, and what is written for one is not understood by the reader. *)

DoAppendPointer(s, x) == DoAppendObject(s, x)
DoExtractPointer(v, x) == DoExtractObject(v, x)
SizeOfPointer(x) == SizeOfObject(x)

-----------------------------------------------------------------------------
(* Any value. *)

Tuple == {"tuple", "multi"}
Pointer == {"shared", "unique"}
Composite == Tuple \union Pointer \union {"struct", "object"}

\* Only tuples of the values with members have a serializer_prepend.
PrependAny(s, x) == IF x.kind \in Tuple THEN DoPrependTuple(s, x) ELSE PrependSimple(s, x)

AppendAny(s, x) ==
    CASE x.kind \in Tuple -> DoAppendTuple(s, x)
      [] x.kind = "struct" -> DoAppendStruct(s, x)
      [] x.kind = "object" -> DoAppendObject(s, x)
      [] x.kind \in Pointer -> DoAppendPointer(s, x)
      [] OTHER -> AppendSimple(s, x)

ExtractAny(v, x) ==
    CASE x.kind \in Tuple -> DoExtractTuple(v, x)
      [] x.kind = "struct" -> DoExtractStruct(v, x)
      [] x.kind = "object" -> DoExtractObject(v, x)
      [] x.kind \in Pointer -> DoExtractPointer(v, x)
      [] OTHER -> ExtractSimple(v, x)

\* For the others there is no peek, or it does not compile, or it uses a null
\* pointer (the pointers), or leaves the offset (WEB_MODIFY).
CanPeek(x) ==
    /\ x.kind \notin {"buffer", "literal", "span", "text", "initializer", "skip", "line_modify",
                       "line_copy", "copy", "raw", "tail", "multi"} \union Pointer
    /\ x.kind \notin Composite => x.of # "buffer" /\ x.key # "buffer"

PeekAny(v, off, x) ==
    CASE x.kind = "tuple" -> DoPeekTuple(v, off, x)
      [] x.kind = "struct" -> DoPeekStruct(v, off, x)
      [] x.kind = "object" -> DoPeekObject(v, off, x)
      [] x.kind \in {"byte", "number"} -> DoPeekGeneral(v, off, x)
      [] x.kind = "array" -> DoPeekArray(v, off, x)
      [] x.kind = "line" -> DoPeekWeb(v, off, x)
      [] x.kind \in {"string", "view"} -> DoPeekString(v, off, x)
      [] x.kind = "list" -> DoPeekLinear(v, off, x)
      [] x.kind = "vector" -> DoPeekReserve(v, off, x)
      [] x.kind = "set" -> DoPeekSet(v, off, x)
      [] x.kind = "map" -> DoPeekAssociative(v, off, x)
      [] OTHER -> PeekWithout(v, off, x)

SizeOfAny(x) ==
    CASE x.kind \in Tuple -> SizeOfTuple(x)
      [] x.kind = "struct" -> SizeOfStruct(x)
      [] x.kind = "object" -> SizeOfObject(x)
      [] x.kind \in Pointer -> SizeOfPointer(x)
      [] OTHER -> SizeOfSimple(x)

GetSizeOf(xs) == Total([i \in DOMAIN xs |-> SizeOfAny(xs[i])])

-----------------------------------------------------------------------------
(* What the types can hold, and so what an application can say.  What cannot *)
(* be compiled is left out.                                                  *)

IsSeq(s) == s \in Seq(ToSet(s))
Char == 0..(Base - 1)
InWidth(n, width) ==
    n \in Int /\ Shifted(n, Base, width - 1) \in -(Base \div 2)..(Base \div 2 - 1)
IsSize(n, width) == n \in Nat /\ Shifted(n, Base, width - 1) \in Char
InDigits(n) == n \in Nat /\ Shifted(n, 10, 10) = 0
IsNumber(items, width) ==
    items \in Seq(Int) /\ Len(items) = 1 /\ InWidth(items[1], width)
IsCounted(chars) == chars \in Seq(Char) /\ InWidth(Len(chars) + 1, CountBytes)
IsSized(bytes) == bytes \in Seq(Char) /\ IsSize(Len(bytes), SizeBytes)

IsElement(of, item) ==
    \/ of = "number" /\ IsNumber(item, WordBytes)
    \/ of \in {"string", "view"} /\ IsCounted(item)
    \/ of = "buffer" /\ IsSized(item)

Container == {"iterator", "list", "vector", "set", "array", "span"}

HasFields(x) == x = [kind |-> x.kind, key |-> x.key, of |-> x.of, room |-> x.room, items |-> x.items]

IsSimple(x) ==
    /\ HasFields(x) /\ x.room \in Nat
    /\ \/ x.kind = "byte" /\ IsNumber(x.items, 1)
       \/ x.kind \in {"number", "trailer"} /\ IsNumber(x.items, WordBytes)
       \/ x.kind \in {"string", "view", "literal", "copy"} /\ IsCounted(x.items)
       \/ x.kind = "buffer" /\ IsSized(x.items)
       \/ x.kind \in {"text", "bytes", "raw", "tail", "hex"} /\ x.items \in Seq(Char)
       \/ /\ x.kind \in {"line", "line_modify", "line_copy"}
          /\ x.items \in Seq(Char)
          /\ \A i \in 1..(Len(x.items) - 1) : <<x.items[i], x.items[i + 1]>> # LineEnd
       \/ x.kind = "skip" /\ x.items \in Seq(Nat) /\ Len(x.items) = 1
       \/ x.kind = "signed" /\ IsNumber(x.items, WordBytes)
                            /\ InDigits(IF x.items[1] < 0 THEN -x.items[1] ELSE x.items[1])
       \/ x.kind = "unsigned" /\ IsNumber(x.items, WordBytes) /\ InDigits(x.items[1])
       \/ /\ x.kind \in Container \union {"initializer"}
          /\ IsSeq(x.items) /\ \A i \in DOMAIN x.items : IsElement(x.of, x.items[i])
          /\ x.kind \in Container => InWidth(Len(x.items), CountBytes)
          /\ x.kind = "span" => x.of = "number"
          /\ x.kind = "set" => IsInjective(x.items)
       \/ /\ x.kind = "map"
          /\ IsSeq(x.items) /\ InWidth(Len(x.items), CountBytes)
          /\ \A i \in DOMAIN x.items :
                /\ x.items[i] = <<x.items[i][1], x.items[i][2]>>
                /\ IsElement(x.key, x.items[i][1]) /\ IsElement(x.of, x.items[i][2])

AtTheBack == {"trailer", "tail"}

IsValue(x) ==
    \/ x.kind \notin Composite /\ IsSimple(x)
    \/ /\ x.kind \in Composite
       /\ IsSeq(x.items)
       /\ \A i \in DOMAIN x.items : IsSimple(x.items[i]) /\ x.items[i].kind \notin AtTheBack
       /\ x.kind = "struct" =>
             \A i \in DOMAIN x.items : x.items[i].kind \in {"byte", "number", "string"}

CanPrependSimple(x) ==
    /\ x.kind \in {"byte", "number", "string", "view", "literal", "bytes", "initializer", "map"}
                  \union Container
    /\ x.kind \in Container \union {"initializer", "map"} => x.of # "buffer"
    /\ x.kind = "map" => x.key # "buffer"

CanPrepend(x) ==
    \/ CanPrependSimple(x)
    \/ x.kind \in Tuple /\ \A i \in DOMAIN x.items : CanPrependSimple(x.items[i])

\* An array of objects is refused unless there is room for the objects as
\* they are in memory.
RefusableSimple(x) == x.kind = "array" /\ x.of # "number"
Refusable(x) ==
    \/ RefusableSimple(x)
    \/ x.kind \in Composite /\ \E i \in DOMAIN x.items : RefusableSimple(x.items[i])
=============================================================================
