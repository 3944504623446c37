---------------------------- MODULE MCMessagePath ----------------------------
(* Every kind of value, each in a message with others before and behind it.  *)
EXTENDS MessagePath

Value(kind, of, items) == [kind |-> kind, key |-> "number", of |-> of, room |-> Len(items) + 2, items |-> items]
Num(n) == Value("number", "", <<n>>)
Byte(n) == Value("byte", "", <<n>>)
Str(chars) == Value("string", "", chars)

a == <<97>>
ab == <<97, 98>>
cut == <<97, 0, 98>>
long == <<97, 98, 97, 98, 97>>
numbers == <<<<1>>, <<-2>>, <<32767>>>>
strings == <<a, <<>>, ab>>

Containers ==
    {Value(kind, "number", items) : kind \in {"list", "vector", "set", "span", "array"}, items \in {numbers, <<>>}}
    \union {Value(kind, of, strings) : kind \in {"list", "vector", "set", "array"}, of \in {"string", "view"}}
    \union {Value(kind, "string", strings) : kind \in {"iterator", "initializer"}}
    \union {Value("list", "buffer", <<a, <<>>>>), Value("array", "string", <<long, long>>)}
    \union {[Value("map", "string", <<<<<<2>>, ab>>, <<<<5>>, <<>>>>>>) EXCEPT !.key = "number"],
            [Value("map", "number", <<<<a, <<1>>>>, <<ab, <<-2>>>>>>) EXCEPT !.key = "string"]}

Scalars ==
    {Num(n) : n \in {0, -1, 32767, -32768}} \union {Byte(-128)}
    \union {Value(kind, "", chars) : kind \in {"string", "view", "literal", "copy"}, chars \in {<<>>, ab}}
    \union {Value(kind, "", ab) : kind \in {"text", "bytes", "raw", "buffer", "line", "line_modify", "line_copy"}}
    \union {Value("hex", "", <<0, 175>>), Value("skip", "", <<3>>), Value("buffer", "", <<>>)}
    \union {Value("signed", "", <<n>>) : n \in {0, 907, -40, -32768}} \union {Value("unsigned", "", <<60>>)}
    \union {Str(cut), Value("view", "", cut)}

Members ==
    {Value(kind, "", <<Num(7), Str(ab), Value("list", "number", numbers)>>) :
        kind \in {"tuple", "multi", "object", "shared", "unique"}}
    \union {Value("struct", "", <<Byte(5), Num(7), Num(-7)>>), Value("struct", "", <<Num(7), Byte(5), Str(ab)>>),
            Value("struct", "", <<Byte(5), Num(7), Str(ab)>>)}

Narrow == {[Value("array", "number", numbers) EXCEPT !.room = 2], [Value("copy", "", ab) EXCEPT !.room = 3],
           [Value("line_copy", "", ab) EXCEPT !.room = 2]}

Say(values) == [values |-> values, prepended |-> 0, short |-> 0, keeps |-> FALSE]

CannotPrepend == {"signed", "unsigned", "hex", "buffer", "line", "line_modify", "copy", "line_copy",
                  "skip", "text", "struct", "object", "shared", "unique", "trailer", "raw"}

\* A value between others, and behind others that are prepended.
OneMessage ==
    {<<[Say(<<Num(3), x, Str(a), Value("trailer", "", <<9>>)>>) EXCEPT !.short = k]>> :
        x \in Containers \union Scalars \union Members \union Narrow, k \in {0, 1}}
    \union {<<Say(<<Num(3), Str(a), Value("tail", "", chars)>>)>> : chars \in {<<>>, ab}}
    \union {<<[Say(<<Num(3), x, Str(a)>>) EXCEPT !.prepended = 2]>> :
        x \in {y \in Containers \union Scalars \union Members : y.kind \notin CannotPrepend /\ y.of # "buffer"}}

\* Messages of one byte and of more than a block, one after the other.
Filler(n) == Value("bytes", "", [i \in 1..n |-> i])
Several ==
    {<<[Say(<<Filler(i)>>) EXCEPT !.keeps = TRUE], [Say(<<Filler(j)>>) EXCEPT !.keeps = TRUE]>> :
        i, j \in {0, 3, 14, 25}}
    \union {<<[Say(<<Value("array", "string", strings)>>) EXCEPT !.keeps = TRUE], Say(<<Num(1)>>)>>}

MCSettings == OneMessage \union Several
=============================================================================
