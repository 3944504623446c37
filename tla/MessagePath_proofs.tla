-------------------------- MODULE MessagePath_proofs --------------------------
(***************************************************************************)
(* Proofs about MessagePath, for every value of the constants: the size of *)
(* a message is what is written for it, the buffers stay within their      *)
(* blocks, what is taken out of a message is what was put into it, and     *)
(* nothing is lost.                                                        *)
(*                                                                         *)
(* The invariant has two parts.  SenderOK: the buffer holds what the       *)
(* values added so far are written as, each where get_size_of puts it.     *)
(* ReceiverOK: what was received, is on its way and is still to be sent    *)
(* is, one after the other, the frames of the messages that were said and  *)
(* not heard yet; those that were heard are what was said.                 *)
(*                                                                         *)
(* After the message and the sender come the lemmas that reading, and      *)
(* looking, finds each kind of value as it was written; then the receiver. *)
(***************************************************************************)
EXTENDS MessagePath, Serializers_proofs
-----------------------------------------------------------------------------
(* A message while it is written *)

\* The first and the last one of the values that are written when k are.
Lowest(m, k) == IF k <= Len(m.values) - m.prepended THEN m.prepended + 1 ELSE Len(m.values) - k + 1
Highest(m, k) == IF k <= Len(m.values) - m.prepended THEN m.prepended + k ELSE Len(m.values)

FrameSize(m) == HeaderSize + GetSizeOf(m.values)
Offset(m, k) == HeaderSize + Before(m.values, k)

PartOf(e, m, i) ==
    /\ i <= m.prepended => AnyBytes(e, m.values[i], TRUE)
    /\ i > m.prepended => AnyBytes(e, m.values[i], FALSE)

\* e is what the values from lo to hi are written as.
ValuesBytes(e, m, lo, hi) ==
    \E parts \in Seq(Seq(Cell)) :
        /\ Len(parts) = hi + 1 - lo
        /\ Joins(e, parts)
        /\ \A j \in 1..Len(parts) : PartOf(parts[j], m, lo + j - 1)

Filled(m, b, k) ==
    /\ End(b) = Offset(m, Highest(m, k))
    /\ b.at = IF m.prepended = 0 THEN 0 ELSE Offset(m, Lowest(m, k) - 1)
    /\ ValuesBytes(SubSeq(b.mem, Offset(m, Lowest(m, k) - 1) + 1, Offset(m, Highest(m, k))),
                   m, Lowest(m, k), Highest(m, k))

Regular(m) == m.short = 0 /\ \A i \in DOMAIN m.values : ~Refusable(m.values[i])
FillingIs(m, b, k) ==
    /\ IsBuffer(b)
    /\ Regular(m) => b.ok /\ Len(b.mem) = FrameSize(m)
    /\ b.ok => Filled(m, b, k)

IsFrame(f, m) ==
    /\ f \in Seq(Cell) /\ Len(f) = FrameSize(m)
    /\ SubSeq(f, 1, HeaderSize) = Encoded(FrameSize(m), HeaderSize)
    /\ ValuesBytes(SubSeq(f, HeaderSize + 1, FrameSize(m)), m, 1, Len(m.values))

LEMMA MessageFacts ==
    ASSUME NEW m, IsMessage(m)
    PROVE  /\ AreValues(m.values) /\ Len(m.values) \in Nat /\ m.prepended \in 0..Len(m.values) /\ m.prepended \in Nat
           /\ m.short \in Nat /\ DOMAIN m.values = 1..Len(m.values)
           /\ \A i \in 1..Len(m.values) : IsValue(m.values[i]) /\ SizeOfAny(m.values[i]) \in Nat
           /\ \A i \in 1..m.prepended : CanPrepend(m.values[i])
           /\ HeaderSize \in Nat \ {0} /\ FrameSize(m) \in Nat /\ GetSizeOf(m.values) \in Nat
           /\ Offset(m, 0) = HeaderSize /\ Offset(m, Len(m.values)) = FrameSize(m)
           /\ \A k \in 0..Len(m.values) : /\ Offset(m, k) \in Nat /\ HeaderSize <= Offset(m, k)
                                          /\ Offset(m, k) <= FrameSize(m)
           /\ \A k \in 1..Len(m.values) : Offset(m, k) = Offset(m, k - 1) + SizeOfAny(m.values[k])
<1>1. AreValues(m.values)
  BY DEF IsMessage, AreValues
<1>2. HeaderSize \in Nat \ {0}
  BY Widths DEF HeaderSize
<1> DEFINE xs == m.values
           n == Len(xs)
           S == [k \in 0..n |-> Before(xs, k)]
           Z == GetSizeOf(xs)
<1> HIDE DEF xs
<1>3. AreValues(xs)
  BY <1>1 DEF xs
<1>4. /\ n \in Nat /\ DOMAIN xs = 1..n /\ \A k \in 1..n : IsValue(xs[k])
      /\ Before(xs, 0) = 0 /\ Before(xs, n) = Z /\ Z \in Nat
      /\ \A k \in 0..n : Before(xs, k) \in Nat /\ Before(xs, k) <= Z
      /\ \A k \in 1..n : SizeOfAny(xs[k]) \in Nat /\ Before(xs, k) = Before(xs, k - 1) + SizeOfAny(xs[k])
  BY <1>3, SizeBefore
<1> HIDE DEF n, Z
<1>5. m.prepended \in 0..n /\ m.short \in Nat /\ \A i \in 1..m.prepended : CanPrepend(xs[i])
  BY DEF IsMessage, xs, n
<1>6. FrameSize(m) = HeaderSize + Z /\ \A k \in 0..n : Offset(m, k) = HeaderSize + Before(xs, k)
  BY DEF FrameSize, Offset, xs, Z
<1>7. ASSUME NEW k \in 0..n
      PROVE  Offset(m, k) \in Nat /\ HeaderSize <= Offset(m, k) /\ Offset(m, k) <= FrameSize(m)
  <2> DEFINE y == Before(xs, k)
  <2>1. y \in Nat /\ y <= Z /\ Offset(m, k) = HeaderSize + y
    BY <1>4, <1>6
  <2> HIDE DEF y
  <2> QED
    BY <1>2, <1>4, <1>6, <2>1
<1>8. ASSUME NEW k \in 1..n
      PROVE  Offset(m, k) = Offset(m, k - 1) + SizeOfAny(xs[k])
  <2> DEFINE y == Before(xs, k - 1)
             z == SizeOfAny(xs[k])
  <2>1. k \in 0..n /\ k - 1 \in 0..n
    BY <1>4
  <2>2. Offset(m, k) = HeaderSize + (y + z) /\ Offset(m, k - 1) = HeaderSize + y /\ y \in Nat /\ z \in Nat
    BY <1>4, <1>6, <2>1
  <2> HIDE DEF y
  <2> QED
    BY <1>2, <2>2
<1>9. Offset(m, 0) = HeaderSize /\ Offset(m, n) = FrameSize(m) /\ FrameSize(m) \in Nat
  <2>1. 0 \in 0..n /\ n \in 0..n
    BY <1>4
  <2> QED
    BY <1>2, <1>4, <1>6, <2>1
<1>10. m.prepended \in Nat
  BY <1>4, <1>5
<1> QED
  BY <1>1, <1>2, <1>4, <1>5, <1>7, <1>8, <1>9, <1>10 DEF xs, n, Z
LEMMA NoValues ==
    ASSUME NEW m, NEW i \in Nat
    PROVE  ValuesBytes(<<>>, m, i + 1, i)
<1> DEFINE parts == <<>>
           o == [k \in 0..0 |-> 0]
<1>1. parts \in Seq(Seq(Cell)) /\ Len(parts) = 0 /\ i + 1 - (i + 1) = 0 /\ Len(parts) = i + 1 - (i + 1)
  OBVIOUS
<1>2. Joins(<<>>, parts)
  <2>1. o \in [0..Len(parts) -> Nat] /\ o[0] = 0 /\ o[Len(parts)] = Len(<<>>) /\ 1..Len(parts) = {}
    OBVIOUS
  <2> HIDE DEF parts, o
  <2> QED
    BY <2>1 DEF Joins
<1>3. 1..Len(parts) = {}
  OBVIOUS
<1> HIDE DEF parts
<1> QED
  BY <1>1, <1>2, <1>3 DEF ValuesBytes

LEMMA MoreValues ==
    ASSUME NEW m, NEW lo \in Nat, NEW hi \in Nat, lo <= hi + 1, NEW e \in Seq(Cell), NEW f \in Seq(Cell),
           ValuesBytes(e, m, lo, hi)
    PROVE  /\ PartOf(f, m, hi + 1) => ValuesBytes(e \o f, m, lo, hi + 1)
           /\ PartOf(f, m, lo - 1) => ValuesBytes(f \o e, m, lo - 1, hi)
<1> DEFINE n == hi + 1 - lo
<1>1. PICK parts \in Seq(Seq(Cell)) : /\ Len(parts) = n /\ Joins(e, parts)
                                      /\ \A j \in 1..n : PartOf(parts[j], m, lo + j - 1)
  BY DEF ValuesBytes
<1>2. n \in Nat /\ (hi + 1) + 1 - lo = n + 1 /\ hi + 1 - (lo - 1) = n + 1
  OBVIOUS
<1>3. ASSUME PartOf(f, m, hi + 1)
      PROVE  ValuesBytes(e \o f, m, lo, hi + 1)
  <2> DEFINE more == Append(parts, f)
  <2>1. /\ more \in Seq(Seq(Cell)) /\ Len(more) = n + 1 /\ more[n + 1] = f
        /\ \A j \in 1..n : more[j] = parts[j]
    BY <1>1
  <2>2. Joins(e \o f, more)
    BY <1>1, JoinsAppend
  <2> HIDE DEF more
  <2>3. ASSUME NEW j \in 1..(n + 1)
        PROVE  PartOf(more[j], m, lo + j - 1)
    <3>1. CASE j = n + 1
      <4>1. lo + j - 1 = hi + 1
        BY <3>1
      <4> QED
        BY <1>3, <2>1, <3>1, <4>1
    <3>2. CASE j # n + 1
      <4>1. j \in 1..n
        BY <1>2, <3>2
      <4> QED
        BY <1>1, <2>1, <4>1
    <3> QED
      BY <3>1, <3>2
  <2> QED
    BY <1>2, <2>1, <2>2, <2>3 DEF ValuesBytes
<1>4. ASSUME PartOf(f, m, lo - 1)
      PROVE  ValuesBytes(f \o e, m, lo - 1, hi)
  <2> DEFINE more == <<f>> \o parts
  <2>1. /\ more \in Seq(Seq(Cell)) /\ Len(more) = n + 1 /\ more[1] = f
        /\ \A j \in 1..n : more[j + 1] = parts[j]
    <3>1. <<f>> \in Seq(Seq(Cell)) /\ Len(<<f>>) = 1
      OBVIOUS
    <3>2. Len(more) = 1 + n /\ more \in Seq(Seq(Cell))
      BY <1>1, <3>1
    <3> QED
      BY <1>1, <1>2, <3>1, <3>2
  <2>2. Joins(f \o e, more)
    BY <1>1, JoinsPrepend
  <2> HIDE DEF more
  <2>3. ASSUME NEW j \in 1..(n + 1)
        PROVE  PartOf(more[j], m, (lo - 1) + j - 1)
    <3>1. CASE j = 1
      <4>1. (lo - 1) + j - 1 = lo - 1
        BY <3>1
      <4> QED
        BY <1>4, <2>1, <3>1, <4>1
    <3>2. CASE j # 1
      <4>1. j - 1 \in 1..n /\ (j - 1) + 1 = j /\ (lo - 1) + j - 1 = lo + (j - 1) - 1
        BY <1>2, <3>2
      <4> QED
        BY <1>1, <2>1, <4>1
    <3> QED
      BY <3>1, <3>2
  <2> QED
    BY <1>2, <2>1, <2>2, <2>3 DEF ValuesBytes
<1> QED
  BY <1>3, <1>4

\* The buffer that Allocate takes.
AllocatedFor(m) ==
    IF m.prepended = 0 THEN AppendEmplace(Allocated(FrameSize(m) - m.short), HeaderSize)
    ELSE Skipped(Allocated(FrameSize(m) - m.short), HeaderSize + GetSizeOf(SubSeq(m.values, 1, m.prepended)))

LEMMA AllocatedFilling ==
    ASSUME NEW m, IsMessage(m)
    PROVE  FillingIs(m, AllocatedFor(m), 0)
<1> DEFINE n == Len(m.values)
           p == m.prepended
           F == FrameSize(m)
           a == Allocated(F - m.short)
           z == Offset(m, p)
           s == AppendSkip(a, z)
           c == AllocatedFor(m)
<1>1. n \in Nat /\ p \in 0..n /\ p \in Nat /\ m.short \in Nat /\ HeaderSize \in Nat \ {0} /\ F \in Nat
      /\ z \in Nat /\ z <= F /\ Offset(m, 0) = HeaderSize
  BY MessageFacts
<1>2. Lowest(m, 0) = p + 1 /\ Highest(m, 0) = p + 0 /\ p + 0 = p /\ (p + 1) - 1 = p
  BY <1>1 DEF Lowest, Highest
<1>3. IsBuffer(a) /\ a.at = 0 /\ a.size = 0 /\ a.ok /\ Len(a.mem) = IF F - m.short < 0 THEN 0 ELSE F - m.short
  BY <1>1, AllocatedIsBuffer
<1>4. End(a) = 0
  BY <1>3 DEF End
<1>5. Appends(a, s, z) /\ (HasRoom(a, z) => s.ok)
  BY <1>1, <1>3, SkipAppends
<1>6. IsBuffer(s) /\ s.at = 0 /\ Len(s.mem) = Len(a.mem) /\ (s.ok => s.size = z)
  BY <1>3, <1>5, <1>1 DEF Appends
<1>7. Regular(m) => s.ok /\ Len(s.mem) = F
  BY <1>1, <1>3, <1>4, <1>5, <1>6 DEF Regular, HasRoom
<1>8. c = IF p = 0 THEN s ELSE Advance(s, z)
  BY <1>1 DEF AllocatedFor, AppendEmplace, Skipped, Offset, Before
<1> HIDE DEF a, z, s, c, F, n, p
<1>9. s.mem \in Seq(Cell) /\ s.size \in Int /\ End(s) = s.size /\ s.ok \in BOOLEAN /\ s \in Buffers
      /\ End(s) <= Len(s.mem)
  <2>1. s.mem \in Seq(Cell) /\ s.size \in Int /\ End(s) = s.at + s.size /\ s.ok \in BOOLEAN /\ s \in Bufs
        /\ End(s) <= Len(s.mem)
    BY <1>6, BufferFacts
  <2> QED
    BY <1>6, <2>1 DEF Bufs
<1>10. c.mem = s.mem /\ c.ok = s.ok /\ End(c) = End(s) /\ IsBuffer(c) /\ c.at = IF p = 0 THEN 0 ELSE z
  <2>1. CASE p = 0
    BY <1>6, <1>8, <2>1
  <2>2. CASE p # 0
    <3>1. c = [mem |-> s.mem, at |-> s.at + z, size |-> s.size - z, ok |-> s.ok]
      BY <1>8, <1>9, <2>2 DEF Advance, Buffers
    <3>2. c.mem = s.mem /\ c.at = 0 + z /\ c.size = s.size - z /\ c.ok = s.ok
      BY <1>6, <3>1
    <3>3. c \in Buffers
      BY <1>1, <1>6, <1>9, <3>1 DEF Buffers
    <3>4. End(c) = End(s)
      BY <1>1, <1>9, <3>2 DEF End
    <3>5. c.ok => c.size \in Nat
      BY <1>1, <1>6, <3>2
    <3> QED
      BY <1>1, <1>9, <2>2, <3>2, <3>3, <3>4, <3>5 DEF IsBuffer
  <2> QED
    BY <2>1, <2>2
<1>11. ASSUME c.ok
       PROVE  Filled(m, c, 0)
  <2>1. End(c) = z
    BY <1>6, <1>9, <1>10, <1>11
  <2>2. SubSeq(c.mem, z + 1, z) = <<>>
    BY <1>1, <1>9, <1>10
  <2>3. ValuesBytes(SubSeq(c.mem, z + 1, z), m, p + 1, p)
    BY <1>1, <2>2, NoValues
  <2> QED
    BY <1>2, <1>10, <2>1, <2>3 DEF Filled, z, p
<1> QED
  BY <1>7, <1>10, <1>11 DEF FillingIs, c, F

LEMMA AppendFilling ==
    ASSUME NEW m, IsMessage(m), NEW k \in Nat, k < Len(m.values) - m.prepended,
           NEW b, FillingIs(m, b, k), b.ok
    PROVE  FillingIs(m, AppendAny(b, m.values[m.prepended + k + 1]), k + 1)
<1> DEFINE n == Len(m.values)
           p == m.prepended
           x == m.values[p + k + 1]
           w == SizeOfAny(x)
           c == AppendAny(b, x)
           F == FrameSize(m)
           y == Offset(m, p)
           z == Offset(m, p + k)
           u == Offset(m, p + k + 1)
<1>1. n \in Nat /\ p \in 0..n /\ p \in Nat /\ HeaderSize \in Nat \ {0} /\ F \in Nat
      /\ DOMAIN m.values = 1..n
  BY MessageFacts
<1>2. p + k \in 0..n /\ p + k + 1 \in 1..n /\ p + k + 1 \in 0..n /\ (p + k + 1) - 1 = p + k /\ k + 1 \in Nat /\ k <= n - p
      /\ k + 1 <= n - p /\ (p + 1) - 1 = p /\ p + (k + 1) = p + k + 1
  BY <1>1
<1>3. Lowest(m, k) = p + 1 /\ Highest(m, k) = p + k /\ Lowest(m, k + 1) = p + 1 /\ Highest(m, k + 1) = p + k + 1
  BY <1>1, <1>2 DEF Lowest, Highest
<1>4. y \in Nat /\ z \in Nat /\ u \in Nat /\ u <= F /\ IsValue(x) /\ w \in Nat /\ u = z + w
  BY <1>1, <1>2, MessageFacts
<1>5. IsBuffer(b) /\ End(b) = z /\ b.at = (IF p = 0 THEN 0 ELSE y) /\ ValuesBytes(SubSeq(b.mem, y + 1, z), m, p + 1, p + k)
  BY <1>2, <1>3 DEF FillingIs, Filled
<1>6. WritesAny(b, c, x)
  BY <1>4, <1>5, AnyWritten
<1> HIDE DEF c, y, z, u, w, F, n
<1>7. /\ Appends(b, c, w) /\ (HasRoom(b, w) /\ ~Refusable(x) => c.ok)
      /\ (c.ok => AnyBytes(Added(b, c), x, FALSE))
  BY <1>6 DEF WritesAny, w
<1>8. IsBuffer(c) /\ c.at = b.at /\ Len(c.mem) = Len(b.mem)
      /\ (c.ok => c.size = b.size + w /\ \A i \in 1..End(b) : c.mem[i] = b.mem[i])
  BY <1>7 DEF Appends
<1>9. Regular(m) => c.ok /\ Len(c.mem) = F
  <2>1. ASSUME Regular(m)
        PROVE  c.ok /\ Len(c.mem) = F
    <3>1. Len(b.mem) = F
      BY <2>1 DEF FillingIs, F
    <3>2. ~Refusable(x)
      BY <1>1, <1>2, <2>1 DEF Regular
    <3>3. HasRoom(b, w)
      BY <1>4, <1>5, <3>1 DEF HasRoom
    <3> QED
      BY <1>7, <1>8, <3>1, <3>2, <3>3
  <2> QED
    BY <2>1
<1>10. ASSUME c.ok
       PROVE  Filled(m, c, k + 1)
  <2>1. b.at \in Nat /\ b.size \in Nat /\ End(b) = b.at + b.size /\ End(c) = c.at + c.size /\ End(c) <= Len(c.mem)
        /\ b.mem \in Seq(Cell) /\ c.mem \in Seq(Cell)
    BY <1>5, <1>8, BufferFacts
  <2>2. End(c) = u
    <3> DEFINE s == b.size
               t == b.at
    <3>1. t \in Nat /\ s \in Nat /\ z = t + s /\ End(c) = t + (s + w)
      BY <1>5, <1>8, <1>10, <2>1
    <3> HIDE DEF s, t
    <3> QED
      BY <1>4, <3>1
  <2>3. y <= z
    <3>1. y = z \/ p # 0 \/ p = 0
      OBVIOUS
    <3>2. CASE p = 0
      <4>1. y = HeaderSize
        BY <1>1, <3>2, MessageFacts DEF y
      <4>2. HeaderSize <= z
        BY <1>2, MessageFacts DEF z, n
      <4> QED
        BY <4>1, <4>2
    <3>3. CASE p # 0
      BY <1>5, <2>1, <3>3, <1>4
    <3> QED
      BY <3>2, <3>3
  <2> DEFINE bm == b.mem
             cm == c.mem
  <2>4. bm \in Seq(Cell) /\ cm \in Seq(Cell) /\ \A i \in (y + 1)..z : cm[i] = bm[i]
    BY <1>5, <1>8, <1>10, <2>1, <1>4
  <2>5. y \in Nat /\ z \in Nat /\ u \in Nat /\ y <= z /\ z <= u /\ u <= Len(cm) /\ z <= Len(bm)
    BY <1>4, <1>8, <2>1, <2>2, <2>3
  <2> HIDE DEF bm, cm
  <2>6. /\ SubSeq(cm, y + 1, u) = SubSeq(bm, y + 1, z) \o SubSeq(cm, z + 1, u)
        /\ SubSeq(bm, y + 1, z) \in Seq(Cell) /\ SubSeq(cm, z + 1, u) \in Seq(Cell)
    BY ONLY <2>4, <2>5, SliceSteps
  <2>7. AnyBytes(SubSeq(cm, z + 1, u), x, FALSE)
    BY <1>5, <1>7, <1>10, <2>2 DEF Added, cm
  <2>8. PartOf(SubSeq(cm, z + 1, u), m, p + k + 1)
    <3>1. ~(p + k + 1 <= p)
      BY <1>1
    <3> QED
      BY <2>7, <3>1 DEF PartOf
  <2>9. ValuesBytes(SubSeq(bm, y + 1, z), m, p + 1, p + k)
    BY <1>5 DEF bm
  <2>10. ValuesBytes(SubSeq(cm, y + 1, u), m, p + 1, p + k + 1)
    <3>1. p + 1 \in Nat /\ p + k \in Nat /\ p + 1 <= (p + k) + 1 /\ (p + k) + 1 = p + k + 1
      BY <1>1
    <3> QED
      BY <2>6, <2>8, <2>9, <3>1, MoreValues
  <2> QED
    BY <1>2, <1>3, <1>5, <1>8, <2>2, <2>10 DEF Filled, y, u, cm
<1> QED
  BY <1>8, <1>9, <1>10 DEF FillingIs, c, F

LEMMA PrependFilling ==
    ASSUME NEW m, IsMessage(m), NEW k \in Nat, k >= Len(m.values) - m.prepended, k < Len(m.values),
           NEW b, FillingIs(m, b, k), b.ok
    PROVE  FillingIs(m, PrependAny(b, m.values[Len(m.values) - k]), k + 1)
<1> DEFINE n == Len(m.values)
           p == m.prepended
           i == n - k
           x == m.values[i]
           w == SizeOfAny(x)
           c == PrependAny(b, x)
           F == FrameSize(m)
           y == Offset(m, i)
           z == Offset(m, i - 1)
<1>1. n \in Nat /\ p \in 0..n /\ p \in Nat /\ HeaderSize \in Nat \ {0} /\ F \in Nat
      /\ DOMAIN m.values = 1..n /\ Offset(m, n) = F /\ \A j \in 1..p : CanPrepend(m.values[j])
  BY MessageFacts
<1>0. k >= n - p /\ k < n /\ i = n - k
  OBVIOUS
<1>2. i \in 1..n /\ i \in 1..p /\ i \in 0..n /\ i - 1 \in 0..n /\ n - (k + 1) + 1 = i /\ n - k + 1 = i + 1 /\ p # 0
      /\ (i + 1) - 1 = i /\ ~(k + 1 <= n - p) /\ (k <= n - p => k = n - p /\ p + 1 = i + 1 /\ p + k = n)
  <2> HIDE DEF n, p, i
  <2>1. n \in Nat /\ p \in Nat /\ p <= n /\ k \in Nat
    BY <1>1
  <2>2. i \in Nat /\ 1 <= i /\ i <= p /\ i <= n
    BY <1>0, <2>1
  <2> QED
    BY <1>0, <2>1, <2>2
<1>3. Lowest(m, k) = i + 1 /\ Highest(m, k) = n /\ Lowest(m, k + 1) = i /\ Highest(m, k + 1) = n
  <2>1. Lowest(m, k + 1) = i /\ Highest(m, k + 1) = n
    BY <1>2 DEF Lowest, Highest
  <2>2. CASE k <= n - p
    <3> HIDE DEF n, p, i
    <3>1. k = n - p /\ p + 1 = i + 1 /\ p + k = n
      BY <1>2, <2>2
    <3> QED
      BY <2>1, <2>2, <3>1 DEF Lowest, Highest, n, p
  <2>3. CASE ~(k <= n - p)
    BY <1>2, <2>1, <2>3 DEF Lowest, Highest
  <2> QED
    BY <2>2, <2>3
<1>4. y \in Nat /\ z \in Nat /\ y <= F /\ IsValue(x) /\ w \in Nat /\ y = z + w /\ CanPrepend(x)
  BY <1>1, <1>2, MessageFacts
<1> HIDE DEF i
<1>5. IsBuffer(b) /\ End(b) = F /\ b.at = y /\ ValuesBytes(SubSeq(b.mem, y + 1, F), m, i + 1, n)
  BY <1>1, <1>2, <1>3 DEF FillingIs, Filled
<1>6. WritesAnyAhead(b, c, x)
  BY <1>4, <1>5, AnyWrittenAhead
<1> HIDE DEF c, y, z, w, F, n
<1>7. /\ Prepends(b, c, w) /\ (HasRoomAhead(b, w) => c.ok)
      /\ (c.ok => AnyBytes(Ahead(b, c), x, TRUE))
  BY <1>6 DEF WritesAnyAhead, w
<1>8. IsBuffer(c) /\ End(c) = End(b) /\ Len(c.mem) = Len(b.mem)
      /\ (c.ok => c.at = b.at - w /\ \A j \in (b.at + 1)..Len(b.mem) : c.mem[j] = b.mem[j])
  BY <1>7 DEF Prepends
<1>9. c.ok
  BY <1>4, <1>5, <1>7 DEF HasRoomAhead
<1>10. Regular(m) => Len(c.mem) = F
  BY <1>8 DEF FillingIs, F
<1>11. Filled(m, c, k + 1)
  <2>1. End(c) = F /\ c.at = z
    BY <1>4, <1>5, <1>8, <1>9
  <2>2. F <= Len(c.mem) /\ b.mem \in Seq(Cell) /\ c.mem \in Seq(Cell) /\ Len(b.mem) = Len(c.mem)
    <3>1. End(c) <= Len(c.mem) /\ b.mem \in Seq(Cell) /\ c.mem \in Seq(Cell)
      BY <1>5, <1>8, BufferFacts
    <3> QED
      BY <1>8, <2>1, <3>1
  <2> DEFINE bm == b.mem
             cm == c.mem
  <2>4. bm \in Seq(Cell) /\ cm \in Seq(Cell) /\ \A j \in (y + 1)..F : cm[j] = bm[j]
    <3>1. \A j \in (y + 1)..F : j \in (b.at + 1)..Len(b.mem)
      BY <1>1, <1>4, <1>5, <2>2
    <3> QED
      BY <1>8, <1>9, <2>2, <3>1
  <2>5. y \in Nat /\ z \in Nat /\ F \in Nat /\ z <= y /\ y <= F /\ F <= Len(cm) /\ F <= Len(bm) /\ y <= Len(cm)
    BY <1>1, <1>4, <2>2
  <2> HIDE DEF bm, cm
  <2>6. /\ SubSeq(cm, z + 1, F) = SubSeq(cm, z + 1, y) \o SubSeq(cm, y + 1, F)
        /\ SubSeq(cm, z + 1, y) \in Seq(Cell) /\ SubSeq(cm, y + 1, F) \in Seq(Cell)
    <3>1. \A j \in (z + 1)..y : cm[j] = cm[j]
      OBVIOUS
    <3> QED
      BY ONLY <2>4, <2>5, <3>1, SliceSteps
  <2>7. SubSeq(cm, y + 1, F) = SubSeq(bm, y + 1, F)
    BY ONLY <2>4, <2>5, SlicesAgree
  <2>8. PartOf(SubSeq(cm, z + 1, y), m, i)
    <3>1. i <= p /\ ~(i > p)
      BY <1>1, <1>2
    <3>2. AnyBytes(SubSeq(cm, z + 1, y), x, TRUE)
      BY <1>5, <1>7, <1>9, <2>1 DEF Ahead, cm
    <3> QED
      BY <3>1, <3>2 DEF PartOf
  <2>9. ValuesBytes(SubSeq(bm, y + 1, F), m, i + 1, n)
    BY <1>5 DEF bm
  <2>10. ValuesBytes(SubSeq(cm, z + 1, F), m, i, n)
    <3>1. i + 1 \in Nat /\ n \in Nat /\ i + 1 <= n + 1 /\ (i + 1) - 1 = i
      BY <1>1, <1>2
    <3> QED
      BY <2>6, <2>7, <2>8, <2>9, <3>1, MoreValues
  <2> QED
    BY <1>1, <1>2, <1>3, <2>1, <2>10 DEF Filled, z, cm
<1> QED
  BY <1>8, <1>9, <1>10, <1>11 DEF FillingIs, c, F, x, i, n

\* What SetHeader makes of a buffer.
WithHeader(m, b) ==
    IF m.prepended = 0 THEN [b EXCEPT !.mem = Written(@, b.at, Encoded(b.size, HeaderSize))]
    ELSE PrependGeneral(b, b.size + HeaderSize, HeaderSize)

FrameIn(m, b) == IsBuffer(b) /\ b.ok /\ b.size = FrameSize(m) /\ IsFrame(Contents(b), m)

LEMMA FrameIsIn ==
    ASSUME NEW m, IsMessage(m), NEW b, IsBuffer(b), b.ok, b.size = FrameSize(m),
           SubSeq(b.mem, b.at + 1, b.at + HeaderSize) = Encoded(FrameSize(m), HeaderSize),
           ValuesBytes(SubSeq(b.mem, b.at + HeaderSize + 1, b.at + FrameSize(m)), m, 1, Len(m.values))
    PROVE  FrameIn(m, b)
<1> DEFINE F == FrameSize(m)
           H == HeaderSize
           a == b.at
           mem == b.mem
           f == SubSeq(mem, a + 1, a + F)
<1>1. F \in Nat /\ H \in Nat \ {0} /\ H <= F
  <2>1. 0 \in 0..Len(m.values)
    BY MessageFacts
  <2> QED
    BY <2>1, MessageFacts
<1>2. a \in Nat /\ mem \in Seq(Cell) /\ a + F <= Len(mem)
  BY BufferFacts
<1>3. SubSeq(mem, a + 1, a + H) = Encoded(F, H) /\ ValuesBytes(SubSeq(mem, a + H + 1, a + F), m, 1, Len(m.values))
  OBVIOUS
<1>4. Contents(b) = f
  <2>1. Contents(b) = SubSeq(b.mem, b.at + 0 + 1, b.at + 0 + b.size)
    BY DEF Contents, Bytes
  <2>2. b.at + 0 = b.at
    BY <1>2
  <2> QED
    BY <2>1, <2>2
<1> HIDE DEF F, H, a, mem
<1>5. f \in Seq(Cell) /\ Len(f) = F
  <2>1. a + F \in Nat /\ a + F <= Len(mem) /\ a <= a + F
    BY <1>1, <1>2
  <2> DEFINE z == a + F
  <2> HIDE DEF z
  <2>2. SubSeq(mem, a + 1, z) \in Seq(Cell) /\ Len(SubSeq(mem, a + 1, z)) = z - a
    <3>1. z \in Nat /\ z <= Len(mem) /\ a <= z
      BY <2>1 DEF z
    <3> QED
      BY ONLY <1>2, <3>1
  <2> QED
    BY <1>1, <1>2, <2>2 DEF z
<1>6. SubSeq(f, 1, H) = SubSeq(mem, a + 1, a + H)
  <2>1. SubSeq(f, 0 + 1, H) = SubSeq(mem, a + 0 + 1, a + H)
    <3>1. a + H <= a + F /\ a + F <= Len(mem) /\ a + F \in Nat /\ 0 <= H /\ 0 \in Nat /\ H \in Nat /\ a \in Nat
      BY <1>1, <1>2
    <3> QED
      BY ONLY <1>2, <3>1, SliceOfSlice
  <2> QED
    BY <1>1, <1>2, <2>1
<1>7. SubSeq(f, H + 1, F) = SubSeq(mem, a + H + 1, a + F)
  <2>1. a + F <= a + F /\ a + F <= Len(mem) /\ a + F \in Nat /\ H <= F /\ F \in Nat /\ H \in Nat /\ a \in Nat
    BY <1>1, <1>2
  <2> QED
    BY ONLY <1>2, <2>1, SliceOfSlice
<1>8. IsFrame(f, m)
  BY <1>3, <1>5, <1>6, <1>7 DEF IsFrame, F, H
<1> QED
  BY <1>4, <1>8 DEF FrameIn

LEMMA HeaderFilling ==
    ASSUME NEW m, IsMessage(m), NEW b, FillingIs(m, b, Len(m.values)), b.ok
    PROVE  FrameIn(m, WithHeader(m, b))
<1> DEFINE n == Len(m.values)
           p == m.prepended
           F == FrameSize(m)
           H == HeaderSize
           c == WithHeader(m, b)
<1>1. n \in Nat /\ p \in 0..n /\ p \in Nat /\ H \in Nat \ {0} /\ F \in Nat /\ H <= F
      /\ Offset(m, n) = F /\ Offset(m, 0) = H
  <2>1. 0 \in 0..Len(m.values)
    BY MessageFacts
  <2> QED
    BY <2>1, MessageFacts
<1>2. Lowest(m, n) = 1 /\ Highest(m, n) = n /\ 1 - 1 = 0
  BY <1>1 DEF Lowest, Highest
<1>3. IsBuffer(b) /\ End(b) = F /\ b.at = (IF p = 0 THEN 0 ELSE H) /\ ValuesBytes(SubSeq(b.mem, H + 1, F), m, 1, n)
  BY <1>1, <1>2 DEF FillingIs, Filled
<1>4. b.mem \in Seq(Cell) /\ b.size \in Nat /\ F = b.at + b.size /\ F <= Len(b.mem) /\ Len(b.mem) \in Nat /\ b \in Buffers
  BY <1>3, BufferFacts DEF Bufs
<1> HIDE DEF F, H, n
<1>5. CASE p = 0
  <2> DEFINE e == Encoded(b.size, H)
             w == Written(b.mem, 0, e)
  <2>1. b.at = 0 /\ b.size = F
    BY <1>1, <1>3, <1>4, <1>5
  <2>2. e = Encoded(F, H) /\ e \in Seq(Cell) /\ Len(e) = H
    <3>1. e = Encoded(F, H) /\ e \in Seq(Char) /\ Len(e) = H
      BY <1>1, <2>1, EncodedType
    <3> QED
      BY <3>1, CellFacts
  <2> HIDE DEF e
  <2>3. /\ w \in Seq(Cell) /\ Len(w) = Len(b.mem)
        /\ \A i \in 1..Len(b.mem) : i \notin (0 + 1)..(0 + H) => w[i] = b.mem[i]
        /\ SubSeq(w, 0 + 1, 0 + H) = e
    <3>1. 0 + Len(e) <= Len(b.mem)
      BY <1>1, <1>4, <2>2
    <3> QED
      BY <1>4, <2>2, <3>1, WrittenFacts
  <2>4. c = [mem |-> w, at |-> b.at, size |-> b.size, ok |-> b.ok]
    <3>1. c = [b EXCEPT !.mem = Written(b.mem, b.at, Encoded(b.size, HeaderSize))]
      BY <1>5 DEF WithHeader
    <3> QED
      BY <1>4, <2>1, <3>1 DEF Buffers, e, H
  <2> HIDE DEF w, c
  <2>5. c.mem = w /\ c.at = 0 /\ c.size = F /\ c.ok
    BY <2>1, <2>4
  <2>6. IsBuffer(c)
    <3>1. c \in Buffers
      BY <1>4, <2>3, <2>4 DEF Buffers
    <3> QED
      BY <1>1, <1>4, <2>3, <2>5, <3>1 DEF IsBuffer, End
  <2>7. SubSeq(w, H + 1, F) = SubSeq(b.mem, H + 1, F)
    <3>1. \A j \in (H + 1)..F : j \in 1..Len(b.mem) /\ j \notin (0 + 1)..(0 + H)
      BY <1>1, <1>4
    <3>2. \A j \in (H + 1)..F : w[j] = b.mem[j]
      BY <2>3, <3>1
    <3>3. F <= Len(w) /\ F <= Len(b.mem) /\ H \in Nat
      BY <1>1, <1>4, <2>3
    <3> QED
      BY <1>1, <1>4, <2>3, <3>2, <3>3, SlicesAgree
  <2>8. ValuesBytes(SubSeq(w, H + 1, F), m, 1, n)
    BY <1>3, <2>7
  <2>9. /\ SubSeq(c.mem, c.at + 1, c.at + H) = Encoded(F, H)
        /\ ValuesBytes(SubSeq(c.mem, c.at + H + 1, c.at + F), m, 1, n)
    <3>1. 0 + 1 = 1 /\ 0 + H = H /\ 0 + H + 1 = H + 1 /\ 0 + F = F
      BY <1>1
    <3> QED
      BY <2>2, <2>3, <2>5, <2>8, <3>1
  <2> QED
    BY <2>5, <2>6, <2>9, FrameIsIn DEF F, H, n, c
<1>6. CASE p # 0
  <2> DEFINE s == b.size + H
             e == Encoded(s, H)
  <2>1. b.at = H /\ s = F
    BY <1>1, <1>3, <1>4, <1>6
  <2>2. e = Encoded(F, H) /\ e \in Seq(Cell) /\ Len(e) = H
    <3>1. F \in Int /\ H \in Nat
      BY <1>1
    <3>2. Encoded(F, H) \in Seq(Char) /\ Len(Encoded(F, H)) = H
      BY <3>1, EncodedType
    <3> QED
      BY <2>1, <3>2, CellFacts
  <2>3. c = PrependBytes(b, e)
    BY <1>6 DEF WithHeader, PrependGeneral, H
  <2> HIDE DEF e, c, s
  <2>4. Prepends(b, c, H) /\ (HasRoomAhead(b, H) => c.ok) /\ (c.ok => Ahead(b, c) = e)
    BY <1>3, <2>2, <2>3, BytesPrepend
  <2>5. c.ok
    BY <1>1, <2>1, <2>4 DEF HasRoomAhead
  <2>6. /\ IsBuffer(c) /\ End(c) = F /\ Len(c.mem) = Len(b.mem) /\ c.at = 0
        /\ \A i \in (b.at + 1)..Len(b.mem) : c.mem[i] = b.mem[i]
    BY <1>1, <1>3, <2>1, <2>4, <2>5 DEF Prepends
  <2>7. c.size = F /\ c.mem \in Seq(Cell)
    <3>1. c.size \in Int /\ End(c) = c.at + c.size /\ c.mem \in Seq(Cell)
      BY <2>6, BufferFacts
    <3> QED
      BY <2>6, <3>1
  <2>8. SubSeq(c.mem, H + 1, F) = SubSeq(b.mem, H + 1, F)
    <3>1. \A j \in (H + 1)..F : c.mem[j] = b.mem[j]
      <4>1. \A j \in (H + 1)..F : j \in (b.at + 1)..Len(b.mem)
        BY <1>1, <1>4, <2>1
      <4> QED
        BY <2>6, <4>1
    <3> DEFINE bm == b.mem
               cm == c.mem
    <3>2. bm \in Seq(Cell) /\ cm \in Seq(Cell) /\ F \in Nat /\ \A j \in (H + 1)..F : cm[j] = bm[j]
      BY <1>1, <1>4, <2>7, <3>1
    <3>3. F <= Len(cm) /\ F <= Len(bm) /\ H \in Nat
      BY <1>1, <1>4, <2>6
    <3> HIDE DEF bm, cm
    <3>4. SubSeq(cm, H + 1, F) = SubSeq(bm, H + 1, F)
      BY ONLY <3>2, <3>3, SlicesAgree
    <3> QED
      BY <3>4 DEF bm, cm
  <2>9. SubSeq(c.mem, 0 + 1, H) = Encoded(F, H)
    BY <2>1, <2>2, <2>4, <2>5, <2>6 DEF Ahead
  <2>10. /\ SubSeq(c.mem, c.at + 1, c.at + H) = Encoded(F, H)
         /\ ValuesBytes(SubSeq(c.mem, c.at + H + 1, c.at + F), m, 1, n)
    <3>1. 0 + 1 = 1 /\ 0 + H = H /\ 0 + H + 1 = H + 1 /\ 0 + F = F
      BY <1>1
    <3> QED
      BY <1>3, <2>6, <2>8, <2>9, <3>1
  <2> QED
    BY <2>5, <2>6, <2>7, <2>10, FrameIsIn DEF F, H, n, c
<1> QED
  BY <1>5, <1>6

-----------------------------------------------------------------------------
(* The sender *)

AtMessage == setting \in Settings /\ building \in 1..(Len(setting) + 1)
             /\ (step # "allocate" => building <= Len(setting))
SenderOK ==
    /\ AtMessage
    /\ step \in {"allocate", "fill", "header", "send", "failed"}
    /\ IsBuffer(buf)
    /\ step = "fill" => added \in 0..Len(Message.values) /\ FillingIs(Message, buf, added)
    /\ step \in {"header", "send", "failed"} => FrameIn(Message, buf)
    /\ step \in {"send", "failed"} => sent \in 0..buf.size

LEMMA AtMessageFacts ==
    ASSUME AtMessage
    PROVE  /\ Len(setting) \in Nat /\ building \in Nat
           /\ \A k \in 1..Len(setting) : IsMessage(setting[k])
           /\ building <= Len(setting) => IsMessage(Message)
<1>1. IsSeq(setting) /\ \A k \in DOMAIN setting : IsMessage(setting[k])
  BY MessagesAssumption DEF AtMessage
<1>2. Len(setting) \in Nat /\ DOMAIN setting = 1..Len(setting)
  BY <1>1, SeqFacts
<1> QED
  BY <1>1, <1>2 DEF AtMessage, Message

LEMMA SenderInit == Init => SenderOK
<1> SUFFICES ASSUME Init PROVE SenderOK
  OBVIOUS
<1>1. setting \in Settings /\ IsSeq(setting)
  BY MessagesAssumption DEF Init
<1>2. Len(setting) \in Nat
  BY <1>1, SeqFacts
<1>3. IsBuffer(buf)
  BY AllocatedIsBuffer DEF Init
<1> QED
  BY <1>1, <1>2, <1>3 DEF Init, SenderOK, AtMessage

LEMMA SenderStays ==
    ASSUME SenderOK, UNCHANGED <<setting, building, step, added, buf, sent>>
    PROVE  SenderOK'
BY DEF SenderOK, AtMessage, Message

LEMMA SenderAllocate == ASSUME SenderOK, Allocate PROVE SenderOK'
<1>1. AtMessage /\ building <= Len(setting) /\ building \in 1..(Len(setting) + 1) /\ setting' = setting /\ building' = building
      /\ step' = "fill" /\ added' = 0
  BY DEF SenderOK, AtMessage, Allocate
<1>2. IsMessage(Message) /\ Len(setting) \in Nat /\ Message' = Message
  BY <1>1, AtMessageFacts DEF Message
<1>3. buf' = AllocatedFor(Message)
  <2>1. Room = FrameSize(Message) - Message.short /\ InFront = SubSeq(Message.values, 1, Message.prepended)
    <3>1. HeaderSize \in Nat /\ GetSizeOf(Message.values) \in Nat /\ Message.short \in Nat
      BY <1>2, MessageFacts
    <3> QED
      BY <3>1 DEF Room, FrameSize, InFront
  <2>2. buf' = IF Message.prepended = 0 THEN AppendEmplace(Allocated(Room), HeaderSize)
              ELSE Skipped(Allocated(Room), HeaderSize + GetSizeOf(InFront))
    BY Zenon DEF Allocate
  <2> QED
    BY Zenon, <2>1, <2>2 DEF AllocatedFor
<1>4. FillingIs(Message, buf', 0) /\ IsBuffer(buf')
  BY <1>2, <1>3, AllocatedFilling DEF FillingIs
<1>5. AtMessage'
  BY <1>1 DEF AtMessage
<1>6. added' \in 0..Len(Message'.values) /\ FillingIs(Message', buf', added')
  <2>1. Len(Message.values) \in Nat
    BY <1>2, MessageFacts
  <2> QED
    BY <1>1, <1>2, <1>4, <2>1
<1> QED
  BY <1>1, <1>4, <1>5, <1>6 DEF SenderOK

LEMMA SenderNext ==
    ASSUME SenderOK, Refused \/ SendReturns
    PROVE  SenderOK'
<1>1. AtMessage /\ step # "allocate" /\ building' = building + 1 /\ setting' = setting /\ step' = "allocate" /\ buf' = buf
      /\ building <= Len(setting) /\ building \in Nat \ {0} /\ Len(setting) \in Nat
  BY AtMessageFacts DEF SenderOK, AtMessage, Refused, SendReturns
<1>2. building' \in 1..(Len(setting) + 1)
  BY <1>1
<1> QED
  BY <1>1, <1>2 DEF SenderOK, AtMessage

LEMMA Fillings ==
    ASSUME SenderOK, step = "fill"
    PROVE  /\ IsMessage(Message) /\ Len(Message.values) \in Nat /\ Message.prepended \in 0..Len(Message.values)
           /\ Message.prepended \in Nat
           /\ Len(Behind) = Len(Message.values) - Message.prepended
           /\ \A k \in 1..Len(Behind) : Behind[k] = Message.values[Message.prepended + k]
           /\ \A k \in 1..Message.prepended : InFront[k] = Message.values[k]
           /\ added \in 0..Len(Message.values) /\ added \in Nat /\ FillingIs(Message, buf, added)
<1>1. AtMessage /\ building <= Len(setting) /\ added \in 0..Len(Message.values) /\ FillingIs(Message, buf, added)
  BY DEF SenderOK, AtMessage
<1>2. IsMessage(Message)
  BY <1>1, AtMessageFacts
<1> DEFINE n == Len(Message.values)
           p == Message.prepended
           xs == Message.values
           S == ToSet(xs)
<1>3. n \in Nat /\ p \in 0..n /\ p \in Nat /\ xs \in Seq(S) /\ n = Len(xs)
  BY <1>2, MessageFacts, SeqFacts DEF AreValues
<1>4. Behind = SubSeq(xs, p + 1, n) /\ InFront = SubSeq(xs, 1, p)
  BY DEF Behind, InFront
<1> HIDE DEF n, p, xs, S
<1>5. Len(SubSeq(xs, p + 1, n)) = n - p
  BY <1>3
<1>6. \A k \in 1..(n - p) : SubSeq(xs, p + 1, n)[k] = xs[p + k]
  BY <1>3
<1>7. \A k \in 1..p : SubSeq(xs, 1, p)[k] = xs[k]
  BY <1>3
<1> QED
  BY <1>1, <1>2, <1>3, <1>4, <1>5, <1>6, <1>7 DEF n, p, xs

LEMMA SenderAppend == ASSUME SenderOK, AppendValue PROVE SenderOK'
<1>1. step = "fill" /\ buf.ok /\ added < Len(Behind) /\ buf' = AppendAny(buf, Behind[added + 1]) /\ added' = added + 1
      /\ setting' = setting /\ building' = building /\ step' = "fill"
  BY DEF AppendValue
<1> DEFINE m == Message
<1>2. /\ IsMessage(m) /\ Len(m.values) \in Nat /\ m.prepended \in Nat /\ m.prepended \in 0..Len(m.values)
      /\ Len(Behind) = Len(m.values) - m.prepended
      /\ \A k \in 1..Len(Behind) : Behind[k] = m.values[m.prepended + k]
      /\ added \in Nat /\ FillingIs(m, buf, added)
  BY <1>1, Fillings
<1>3. Message' = m
  BY <1>1 DEF Message
<1> HIDE DEF m
<1>4. added + 1 \in 1..Len(Behind) /\ m.prepended + (added + 1) = m.prepended + added + 1
      /\ added < Len(m.values) - m.prepended
  BY <1>1, <1>2
<1>5. buf' = AppendAny(buf, m.values[m.prepended + added + 1])
  BY <1>1, <1>2, <1>4
<1>6. FillingIs(m, buf', added + 1)
  BY <1>1, <1>2, <1>4, <1>5, AppendFilling
<1>7. added + 1 \in 0..Len(m.values)
  BY <1>2, <1>4
<1> QED
  BY <1>1, <1>3, <1>6, <1>7 DEF SenderOK, AtMessage, FillingIs

LEMMA SenderPrepend == ASSUME SenderOK, PrependValue PROVE SenderOK'
<1>1. step = "fill" /\ buf.ok /\ added >= Len(Behind) /\ added < Len(Message.values)
      /\ buf' = PrependAny(buf, InFront[Len(Message.values) - added]) /\ added' = added + 1
      /\ setting' = setting /\ building' = building /\ step' = "fill"
  BY DEF PrependValue
<1> DEFINE m == Message
<1>2. /\ IsMessage(m) /\ Len(m.values) \in Nat /\ m.prepended \in Nat /\ m.prepended \in 0..Len(m.values)
      /\ Len(Behind) = Len(m.values) - m.prepended
      /\ \A k \in 1..m.prepended : InFront[k] = m.values[k]
      /\ added \in Nat /\ FillingIs(m, buf, added)
  BY <1>1, Fillings
<1>3. Message' = m
  BY <1>1 DEF Message
<1>3a. added < Len(m.values) /\ buf' = PrependAny(buf, InFront[Len(m.values) - added])
  BY <1>1
<1> HIDE DEF m
<1>4. Len(m.values) - added \in 1..m.prepended /\ added >= Len(m.values) - m.prepended
  BY <1>1, <1>2, <1>3a
<1>5. buf' = PrependAny(buf, m.values[Len(m.values) - added])
  BY <1>2, <1>3a, <1>4
<1>6. FillingIs(m, buf', added + 1)
  BY <1>1, <1>2, <1>3a, <1>4, <1>5, PrependFilling
<1>7. added + 1 \in 0..Len(m.values)
  BY <1>2, <1>3a
<1> QED
  BY <1>1, <1>3, <1>6, <1>7 DEF SenderOK, AtMessage, FillingIs

LEMMA SenderHeader == ASSUME SenderOK, SetHeader PROVE SenderOK'
<1>1. step = "fill" /\ buf.ok /\ added = Len(Message.values) /\ step' = "header"
      /\ setting' = setting /\ building' = building
  BY DEF SetHeader
<1>2. IsMessage(Message) /\ FillingIs(Message, buf, added)
  BY <1>1, Fillings
<1>3. buf' = WithHeader(Message, buf)
  BY DEF SetHeader, WithHeader
<1>4. FrameIn(Message, buf')
  BY <1>1, <1>2, <1>3, HeaderFilling
<1>5. Message' = Message
  BY <1>1 DEF Message
<1> QED
  BY <1>1, <1>4, <1>5 DEF SenderOK, AtMessage, FrameIn

LEMMA SenderSends ==
    ASSUME SenderOK, Send \/ WriteSome \/ WriteFails
    PROVE  SenderOK'
<1>1. setting' = setting /\ building' = building /\ buf' = buf /\ step' \in {"send", "failed"} /\ step \in {"header", "send"}
  BY DEF SenderOK, Send, WriteSome, WriteFails
<1>2. Message' = Message
  BY <1>1 DEF Message
<1>3. FrameIn(Message, buf)
  BY <1>1 DEF SenderOK
<1>4. buf.size \in Nat
  BY <1>3, BufferFacts DEF FrameIn
<1>5. sent' \in 0..buf.size
  <2>1. CASE Send
    BY <1>4, <2>1 DEF Send
  <2>2. CASE WriteSome
    <3>1. sent \in 0..buf.size /\ sent < buf.size
      BY <2>2 DEF SenderOK, WriteSome
    <3>2. PICK n \in {1, buf.size - sent} : sent' = sent + n
      BY <2>2 DEF WriteSome
    <3> QED
      BY <1>4, <3>1, <3>2
  <2>3. CASE WriteFails
    BY <2>3 DEF WriteFails, SenderOK
  <2> QED
    BY <2>1, <2>2, <2>3
<1> QED
  BY <1>1, <1>2, <1>3, <1>5 DEF SenderOK, AtMessage

LEMMA SenderStep == SenderOK /\ [Next]_vars => SenderOK'
<1> SUFFICES ASSUME SenderOK, [Next]_vars PROVE SenderOK'
  OBVIOUS
<1>1. CASE Allocate
  BY <1>1, SenderAllocate
<1>2. CASE Refused \/ SendReturns
  BY <1>2, SenderNext
<1>3. CASE AppendValue
  BY <1>3, SenderAppend
<1>4. CASE PrependValue
  BY <1>4, SenderPrepend
<1>5. CASE SetHeader
  BY <1>5, SenderHeader
<1>6. CASE Send \/ WriteSome \/ WriteFails
  BY <1>6, SenderSends
<1>7. CASE Receive \/ Handling \/ Finished \/ UNCHANGED vars
  <2>1. UNCHANGED <<setting, building, step, added, buf, sent>>
    BY <1>7 DEF Receive, Handling, Frame, InvalidSize, Rearm, Finished, vars, sender
  <2> QED
    BY <2>1, SenderStays
<1> QED
  BY <1>1, <1>2, <1>3, <1>4, <1>5, <1>6, <1>7 DEF Next, Sending

\* What is written into a buffer of the size that get_size_of says fills it,
\* and no bound check throws there but that of the arrays.
THEOREM SizesAgree == Spec => []SizeOfAgrees
<1>1. SenderOK => SizeOfAgrees
  <2> SUFFICES ASSUME SenderOK PROVE SizeOfAgrees
    OBVIOUS
  <2>1. ASSUME step = "header"
        PROVE  buf.ok /\ buf.size = HeaderSize + GetSizeOf(Message.values)
    BY <2>1 DEF SenderOK, FrameIn, FrameSize
  <2>2. ASSUME step = "fill", ~buf.ok
        PROVE  Message.short > 0 \/ \E i \in DOMAIN Message.values : Refusable(Message.values[i])
    <3>1. IsMessage(Message) /\ FillingIs(Message, buf, added)
      BY <2>2, Fillings
    <3>2. ~Regular(Message)
      BY <2>2, <3>1 DEF FillingIs
    <3>3. Message.short \in Nat
      BY <3>1, MessageFacts
    <3> QED
      BY <3>2, <3>3 DEF Regular
  <2> QED
    BY <2>1, <2>2 DEF SizeOfAgrees
<1> QED
  BY <1>1, SenderInit, SenderStep, PTL DEF Spec

-----------------------------------------------------------------------------
(* Strings and buffers that are found *)

LEMMA StringHeld ==
    ASSUME NEW v, IsView(v), NEW off \in Nat, NEW chars, IsCounted(chars), Holds(v, off, StringBytes(chars))
    PROVE  /\ Len(chars) \in Nat /\ chars \in Seq(Char)
           /\ off + SizeOfString(chars) <= v.size /\ SizeOfString(chars) \in Nat
           /\ Count(v, off) = Len(chars) + 1 /\ IsString(v, off, Len(chars) + 1)
           /\ Bytes(v, off + CountBytes, Len(chars)) = chars
           /\ Bytes(v, off + CountBytes, Len(chars) + 1) = chars \o <<0>>
<1> DEFINE n == Len(chars)
           count == Encoded(n + 1, CountBytes)
           zero == <<0>>
           e == StringBytes(chars)
<1>1. n \in Nat /\ chars \in Seq(Char) /\ chars \in Seq(Cell) /\ InWidth(n + 1, CountBytes) /\ CountBytes \in Nat \ {0}
  BY Widths, CharsAreCells DEF IsCounted
<1>2. count \in Seq(Cell) /\ Len(count) = CountBytes
  <2>1. n + 1 \in Int /\ CountBytes \in Nat
    BY <1>1
  <2>2. count \in Seq(Char) /\ Len(count) = CountBytes
    BY <2>1, EncodedType
  <2> QED
    BY <2>2, CharsAreCells
<1>3. zero \in Seq(Cell) /\ Len(zero) = 1
  BY DEF Cell, Base
<1>4. chars \o zero \in Seq(Cell) /\ Len(chars \o zero) = n + 1 /\ (chars \o zero)[n + 1] = 0
  BY <1>1, <1>3
<1>5. e = count \o (chars \o zero)
  <2>1. e = (count \o chars) \o zero
    BY DEF StringBytes
  <2> HIDE DEF e, count, zero
  <2> QED
    BY <1>1, <1>2, <1>3, <2>1, ConcatAssociative, SMTT(30)
<1> HIDE DEF n, count, zero, e
<1>6. Holds(v, off, count \o (chars \o zero))
  BY <1>5 DEF e
<1>7. Holds(v, off, count) /\ Holds(v, off + CountBytes, chars \o zero)
  BY <1>2, <1>4, <1>6, HoldsBoth
<1>8. Holds(v, off + CountBytes, chars)
  <2>1. off + CountBytes \in Nat
    BY <1>1
  <2> QED
    BY <1>1, <1>3, <1>7, <2>1, HoldsBoth
<1>9. Count(v, off) = n + 1
  <2>1. Holds(v, off, Encoded(n + 1, CountBytes)) /\ n + 1 \in Int
    BY <1>1, <1>7 DEF count
  <2> QED
    BY <1>1, <2>1, NumberHeld DEF Count
<1>10. (off + CountBytes) + (n + 1) <= v.size /\ Bytes(v, off + CountBytes, n + 1) = chars \o zero
  BY <1>4, <1>7 DEF Holds
<1>11. Bytes(v, off + CountBytes, n) = chars
  BY <1>8 DEF Holds, n
<1>12. Last(chars \o zero) = 0
  BY <1>4 DEF Last
<1>13. v.size \in Nat /\ SizeOfString(chars) = CountBytes + n + 1
  BY <1>1, ViewFacts DEF SizeOfString, n
<1>14. IsString(v, off, n + 1)
  <2>1. n + 1 >= 1 /\ off + CountBytes + (n + 1) <= v.size
    BY <1>1, <1>10, <1>13
  <2> QED
    BY <1>10, <1>12, <2>1 DEF IsString
<1>15. off + SizeOfString(chars) <= v.size /\ SizeOfString(chars) \in Nat
  BY <1>1, <1>10, <1>13
<1> QED
  BY <1>1, <1>9, <1>10, <1>11, <1>14, <1>15 DEF n, zero

\* What FrontString makes of a string.
Shown(of, item) ==
    IF of = "string"
    THEN SubSeq(item \o <<0>>, 1, Min({i \in DOMAIN (item \o <<0>>) : (item \o <<0>>)[i] = 0}) - 1)
    ELSE item

LEMMA ShownWhole ==
    ASSUME NEW of, NEW item \in Seq(Char), ~IsCut(of, item)
    PROVE  Shown(of, item) = item
<1> SUFFICES ASSUME of = "string"
             PROVE  Shown(of, item) = item
  BY DEF Shown
<1> DEFINE n == Len(item)
           s == item \o <<0>>
           zeros == {i \in DOMAIN s : s[i] = 0}
<1>0. 0 \in Char
  BY DEF Char, Base
<1>1. n \in Nat /\ DOMAIN s = 1..(n + 1) /\ s[n + 1] = 0 /\ \A i \in 1..n : s[i] = item[i] /\ item[i] \in Range(item)
  BY DEF Range
<1>2. \A i \in 1..n : item[i] # 0
  <2>1. ~(0 \in ToSet(item))
    BY DEF IsCut
  <2> QED
    BY <2>1 DEF ToSet
<1>3. zeros = {n + 1}
  BY <1>1, <1>2
<1>4. Min(zeros) = n + 1
  <2>1. zeros \subseteq Nat /\ zeros # {}
    BY <1>1, <1>3
  <2>2. Min(zeros) \in zeros
    BY <2>1, MinFacts
  <2> QED
    BY <1>3, <2>2
<1>5. SubSeq(s, 1, n) = item
  BY <1>0
<1>6. Shown(of, item) = SubSeq(s, 1, Min(zeros) - 1)
  BY DEF Shown
<1> HIDE DEF s, zeros, n
<1>7. Min(zeros) - 1 = n
  BY <1>1, <1>4
<1> QED
  BY <1>5, <1>6, <1>7

LEMMA StringRead ==
    ASSUME NEW v, IsView(v), NEW off \in Nat, NEW chars, IsCounted(chars), Holds(v, off, StringBytes(chars))
    PROVE  /\ FrontStringView(v, off) = Seen(off + SizeOfString(chars), chars)
           /\ FrontString(v, off) = Seen(off + SizeOfString(chars), Shown("string", chars))
           /\ off = 0 => /\ ExtractStringView(v) = Read(Advance(v, SizeOfString(chars)), chars)
                         /\ \A most \in Nat :
                                ExtractStringCopy(v, most) = IF Len(chars) + 1 < most THEN ExtractStringView(v) ELSE Throws(v)
<1> DEFINE n == Len(chars)
           w == SizeOfString(chars)
<1>1. /\ n \in Nat /\ off + w <= v.size /\ w \in Nat
      /\ Count(v, off) = n + 1 /\ IsString(v, off, n + 1)
      /\ Bytes(v, off + CountBytes, n) = chars
      /\ Bytes(v, off + CountBytes, n + 1) = chars \o <<0>>
  BY StringHeld
<1>2. w = CountBytes + n + 1 /\ CountBytes \in Nat \ {0} /\ v.size \in Nat
  BY Widths, ViewFacts DEF SizeOfString
<1> HIDE DEF n, w
<1>3. ~(off + CountBytes + 1 > v.size) /\ (n + 1) - 1 = n /\ off + CountBytes + (n + 1) = off + w /\ CountBytes + (n + 1) = w
  BY <1>1, <1>2
<1>4. FrontStringView(v, off) = Seen(off + w, chars)
  BY <1>1, <1>3 DEF FrontStringView
<1>5. FrontString(v, off) = Seen(off + w, Shown("string", chars))
  BY <1>1, <1>3 DEF FrontString, Shown
<1>6. ASSUME off = 0
      PROVE  /\ ExtractStringView(v) = Read(Advance(v, w), chars)
             /\ \A most \in Nat :
                    ExtractStringCopy(v, most) = IF n + 1 < most THEN ExtractStringView(v) ELSE Throws(v)
  <2>1. ~(v.size < CountBytes) /\ Count(v, 0) = n + 1 /\ IsString(v, 0, n + 1) /\ n + 1 # -1
    BY <1>1, <1>2, <1>3, <1>6
  <2>2. Bytes(v, CountBytes, n) = chars
    <3>1. 0 + CountBytes = CountBytes
      BY <1>2
    <3> QED
      BY <1>1, <1>6, <3>1
  <2>3. ExtractString(v, n + 1) = Read(Advance(v, w), chars)
    BY <1>3, <2>1, <2>2 DEF ExtractString
  <2>4. ExtractStringView(v) = ExtractString(v, n + 1)
    BY <2>1 DEF ExtractStringView
  <2>5. ASSUME NEW most \in Nat
        PROVE  ExtractStringCopy(v, most) = IF n + 1 < most THEN ExtractStringView(v) ELSE Throws(v)
    <3>1. Count(v, 0) >= most <=> ~(n + 1 < most)
      BY <1>1, <2>1
    <3> QED
      BY <2>1, <2>4, <3>1 DEF ExtractStringCopy
  <2> QED
    BY <2>3, <2>4, <2>5
<1> QED
  BY <1>4, <1>5, <1>6 DEF n, w

LEMMA BufferRead ==
    ASSUME NEW v, IsView(v), NEW bytes, IsSized(bytes), Holds(v, 0, BufferBytes(bytes))
    PROVE  ExtractBufferView(v) = Read(Advance(v, SizeOfBuffer(bytes)), bytes)
<1> DEFINE n == Len(bytes)
           count == Encoded(n, SizeBytes)
<1>1. n \in Nat /\ n \in Int /\ bytes \in Seq(Cell) /\ IsSize(n, SizeBytes) /\ SizeBytes \in Nat \ {0} /\ SizeBytes \in Nat
  BY Widths, CharsAreCells DEF IsSized
<1>2. count \in Seq(Cell) /\ Len(count) = SizeBytes
  <2>1. count \in Seq(Char) /\ Len(count) = SizeBytes
    BY <1>1, EncodedType
  <2> QED
    BY <2>1, CharsAreCells
<1>3. Holds(v, 0, count \o bytes)
  BY DEF BufferBytes
<1> HIDE DEF n, count
<1>4. Holds(v, 0, count) /\ Holds(v, 0 + SizeBytes, bytes)
  BY <1>1, <1>2, <1>3, HoldsBoth
<1>5. Size(v, 0, SizeBytes) = n
  <2>1. Holds(v, 0, Encoded(n, SizeBytes)) /\ 0 \in Nat
    BY <1>4 DEF count
  <2> QED
    BY <1>1, <2>1, NumberHeld
<1>6. SizeBytes + n <= v.size /\ Bytes(v, SizeBytes, n) = bytes
  <2>1. 0 + SizeBytes = SizeBytes
    BY <1>1
  <2> QED
    BY <1>4, <2>1 DEF Holds, n
<1>7. v.size \in Nat /\ SizeOfBuffer(bytes) = SizeBytes + n
  BY ViewFacts DEF SizeOfBuffer, n
<1>8. ~(v.size < SizeBytes + n) /\ ~(v.size < SizeBytes)
  BY <1>1, <1>6, <1>7
<1> QED
  BY <1>5, <1>6, <1>7, <1>8 DEF ExtractBufferView, ExtractSized

-----------------------------------------------------------------------------
(* Elements that are found *)

LEMMA ElementRead ==
    ASSUME NEW v, IsView(v), NEW off \in Nat, NEW of, NEW item, IsElement(of, item), Holds(v, off, ElementBytes(of, item))
    PROVE  /\ off = 0 => ExtractElement(v, of) = Read(Advance(v, SizeOfElement(of, item)), item)
           /\ of # "buffer" => FrontElement(v, off, of) = Seen(off + SizeOfElement(of, item), Shown(of, item))
           /\ ~IsCut(of, item) => Shown(of, item) = item
           /\ off + SizeOfElement(of, item) <= v.size /\ SizeOfElement(of, item) \in Nat
<1>0. off + SizeOfElement(of, item) <= v.size /\ SizeOfElement(of, item) \in Nat
  BY ElementBytesFacts DEF Holds
<1>1. CASE of = "number" /\ IsNumber(item, WordBytes)
  <2>1. InWidth(item[1], WordBytes) /\ item[1] \in Int /\ item = <<item[1]>> /\ WordBytes \in Nat \ {0}
    BY <1>1, Widths DEF IsNumber, InWidth
  <2>2. ElementBytes(of, item) = Encoded(item[1], WordBytes) /\ SizeOfElement(of, item) = WordBytes
    BY <1>1 DEF ElementBytes, SizeOfElement
  <2> DEFINE n == item[1]
  <2>3. Holds(v, off, Encoded(n, WordBytes)) /\ n \in Int
    BY <2>1, <2>2
  <2>4. /\ FrontGeneral(v, off, WordBytes) = Seen(off + WordBytes, <<Decoded(Encoded(n, WordBytes))>>)
        /\ off = 0 => ExtractGeneral(v, WordBytes) = Read(Advance(v, WordBytes), <<Decoded(Encoded(n, WordBytes))>>)
        /\ Decoded(Encoded(n, WordBytes)) = n
    BY <2>1, <2>3, GeneralRead
  <2>5. ExtractElement(v, of) = ExtractGeneral(v, WordBytes) /\ FrontElement(v, off, of) = FrontGeneral(v, off, WordBytes)
        /\ Shown(of, item) = item
    BY <1>1 DEF ExtractElement, FrontElement, Shown
  <2> QED
    BY <1>0, <2>1, <2>2, <2>4, <2>5
<1>2. CASE of \in {"string", "view"} /\ IsCounted(item)
  <2>1. ElementBytes(of, item) = StringBytes(item) /\ SizeOfElement(of, item) = SizeOfString(item)
    BY <1>2 DEF ElementBytes, SizeOfElement
  <2>2. /\ FrontStringView(v, off) = Seen(off + SizeOfString(item), item)
        /\ FrontString(v, off) = Seen(off + SizeOfString(item), Shown("string", item))
        /\ off = 0 => ExtractStringView(v) = Read(Advance(v, SizeOfString(item)), item)
    <3>1. Holds(v, off, StringBytes(item))
      BY <2>1
    <3> QED
      BY <1>2, <3>1, StringRead
  <2>3. ExtractElement(v, of) = ExtractStringView(v)
    BY <1>2 DEF ExtractElement
  <2>4. FrontElement(v, off, of) = Seen(off + SizeOfString(item), Shown(of, item))
    <3>1. CASE of = "string"
      BY <2>2, <3>1 DEF FrontElement
    <3>2. CASE of = "view"
      BY <2>2, <3>2 DEF FrontElement, Shown
    <3> QED
      BY <1>2, <3>1, <3>2
  <2>5. item \in Seq(Char)
    BY <1>2 DEF IsCounted
  <2> QED
    BY <1>0, <2>1, <2>2, <2>3, <2>4, <2>5, ShownWhole
<1>3. CASE of = "buffer" /\ IsSized(item)
  <2>1. ElementBytes(of, item) = BufferBytes(item) /\ SizeOfElement(of, item) = SizeOfBuffer(item)
    BY <1>3 DEF ElementBytes, SizeOfElement
  <2>2. off = 0 => ExtractBufferView(v) = Read(Advance(v, SizeOfBuffer(item)), item)
    BY <1>3, <2>1, BufferRead
  <2>3. ExtractElement(v, of) = ExtractBufferView(v) /\ Shown(of, item) = item
    BY <1>3 DEF ExtractElement, Shown
  <2> QED
    BY <1>0, <1>3, <2>1, <2>2, <2>3
<1> QED
  BY <1>1, <1>2, <1>3 DEF IsElement

-----------------------------------------------------------------------------
(* Several parts that are found *)

FirstOf(f, i) == [j \in 1..i |-> f[j]]

LEMMA FirstOfMore ==
    ASSUME NEW f, NEW i \in Nat \ {0}
    PROVE  Append(FirstOf(f, i - 1), f[i]) = FirstOf(f, i)
<1> DEFINE S == {f[j] : j \in 1..i}
           s == [j \in 1..(i - 1) |-> f[j]]
           t == [j \in 1..i |-> f[j]]
           u == Append(s, f[i])
<1>1. \A j \in 1..i : f[j] \in S
  OBVIOUS
<1> HIDE DEF S
<1>2. s \in Seq(S) /\ Len(s) = i - 1
  <2>1. \A j \in 1..(i - 1) : j \in 1..i
    OBVIOUS
  <2>2. i - 1 \in Nat /\ s \in [1..(i - 1) -> S]
    BY <1>1, <2>1
  <2> DEFINE k == i - 1
  <2>3. s \in [1..k -> S] /\ k \in Nat
    BY <2>2
  <2> HIDE DEF k, s
  <2> QED
    BY <2>3 DEF k
<1>3. t \in Seq(S) /\ Len(t) = i
  BY <1>1
<1>4. f[i] \in S
  BY <1>1
<1>5. \A j \in 1..(i - 1) : s[j] = f[j]
  OBVIOUS
<1>6. \A j \in 1..i : t[j] = f[j]
  OBVIOUS
<1> HIDE DEF s, t
<1>7. u \in Seq(S) /\ Len(u) = i /\ \A j \in 1..i : u[j] = IF j <= i - 1 THEN s[j] ELSE f[i]
  BY <1>2, <1>4
<1>8. \A j \in 1..i : u[j] = t[j]
  <2> SUFFICES ASSUME NEW j \in 1..i PROVE u[j] = t[j]
    OBVIOUS
  <2>1. CASE j <= i - 1
    <3>1. j \in 1..(i - 1)
      BY <2>1
    <3> QED
      BY <1>5, <1>6, <1>7, <2>1, <3>1
  <2>2. CASE ~(j <= i - 1)
    <3>1. j = i
      BY <2>2
    <3> QED
      BY <1>6, <1>7, <2>2, <3>1
  <2> QED
    BY <2>1, <2>2
<1> HIDE DEF u
<1>9. u = t
  BY <1>3, <1>7, <1>8, SeqEqual
<1> QED
  BY <1>9 DEF u, s, t, FirstOf

LEMMA FirstOfAll ==
    ASSUME NEW s, IsSeq(s)
    PROVE  FirstOf(s, Len(s)) = s
<1>1. s \in Seq(ToSet(s)) /\ DOMAIN s = 1..Len(s)
  BY SeqFacts
<1>2. s = [j \in 1..Len(s) |-> s[j]]
  BY <1>1
<1> QED
  BY <1>2 DEF FirstOf

LEMMA FirstOfNone == ASSUME NEW f PROVE FirstOf(f, 0) = <<>>
<1>1. 1..0 = {}
  OBVIOUS
<1> QED
  BY <1>1 DEF FirstOf

LEMMA AdvancedTwice ==
    ASSUME NEW v, IsView(v), NEW n \in Nat, NEW k \in Nat, n + k <= v.size
    PROVE  Advance(Advance(v, n), k) = Advance(v, n + k) /\ IsView(Advance(v, n)) /\ Advance(v, 0) = v
           /\ Advance(v, n).size = v.size - n /\ Advance(v, n).at = v.at + n /\ Advance(v, n).mem = v.mem
<1>1. v.at \in Nat /\ v.size \in Nat /\ v = [mem |-> v.mem, at |-> v.at, size |-> v.size]
  BY ViewFacts
<1>2. n <= v.size /\ 0 <= v.size
  BY <1>1
<1>3. Advance(v, n) = [mem |-> v.mem, at |-> v.at + n, size |-> v.size - n] /\ Consumed(v, Advance(v, n), n)
  BY <1>2, Advanced
<1>4. Advance(v, n).size = v.size - n /\ Advance(v, n).at = v.at + n /\ Advance(v, n).mem = v.mem /\ IsView(Advance(v, n))
  BY <1>3 DEF Consumed
<1>5. k <= Advance(v, n).size
  BY <1>1, <1>4
<1>6. Advance(Advance(v, n), k) = [mem |-> v.mem, at |-> (v.at + n) + k, size |-> (v.size - n) - k]
  BY <1>4, <1>5, Advanced
<1>7. Advance(v, n + k) = [mem |-> v.mem, at |-> v.at + (n + k), size |-> v.size - (n + k)]
  BY Advanced
<1>8. (v.at + n) + k = v.at + (n + k) /\ (v.size - n) - k = v.size - (n + k) /\ v.at + 0 = v.at /\ v.size - 0 = v.size
  BY <1>1
<1>9. Advance(v, 0) = [mem |-> v.mem, at |-> v.at + 0, size |-> v.size - 0]
  BY <1>2, Advanced
<1> QED
  BY <1>1, <1>4, <1>6, <1>7, <1>8, <1>9

\* The parts are found one after the other, at these places.
FoundAt(v, off, o, parts) ==
    \A i \in 1..Len(parts) : /\ o[i] = o[i - 1] + Len(parts[i])
                             /\ off + o[i] <= v.size
                             /\ Holds(v, off + o[i - 1], parts[i])

LEMMA PartsFound ==
    ASSUME NEW v, IsView(v), NEW off \in Nat, NEW e \in Seq(Cell), Holds(v, off, e),
           NEW parts \in Seq(Seq(Cell)), Joins(e, parts)
    PROVE  \E o \in [0..Len(parts) -> Nat] :
               /\ o[0] = 0 /\ o[Len(parts)] = Len(e) /\ FoundAt(v, off, o, parts)
<1> DEFINE n == Len(parts)
           w == Len(e)
<1>1. n \in Nat /\ w \in Nat /\ off + w <= v.size /\ v.size \in Nat
  BY ViewFacts DEF Holds
<1>2. PICK o \in [0..n -> Nat] : /\ o[0] = 0 /\ o[n] = w
                                 /\ \A i \in 1..n : /\ o[i - 1] <= o[i] /\ o[i] <= w
                                                    /\ SubSeq(e, o[i - 1] + 1, o[i]) = parts[i]
  BY DEF Joins
<1>3. ASSUME NEW i \in 1..n
      PROVE  /\ o[i] = o[i - 1] + Len(parts[i]) /\ off + o[i] <= v.size
             /\ Holds(v, off + o[i - 1], parts[i])
  <2> DEFINE x == o[i - 1]
             y == o[i]
  <2> HIDE DEF n, w
  <2>1. x \in Nat /\ y \in Nat /\ x <= y /\ y <= w /\ SubSeq(e, x + 1, y) = parts[i]
    BY <1>1, <1>2
  <2> HIDE DEF x, y
  <2>2. y <= Len(e)
    BY <2>1 DEF w
  <2>3. Holds(v, off + x, SubSeq(e, x + 1, y)) /\ Len(SubSeq(e, x + 1, y)) = y - x
    BY <2>1, <2>2, HoldsPart
  <2>4. y = x + Len(parts[i])
    <3>1. Len(parts[i]) = y - x
      BY <2>1, <2>3
    <3> QED
      BY <2>1, <3>1
  <2>5. off + y <= v.size
    <3> HIDE DEF w, n
    <3> QED
      BY <1>1, <2>1
  <2> QED
    BY <2>1, <2>3, <2>4, <2>5 DEF x, y
<1> QED
  BY <1>2, <1>3 DEF FoundAt

LEMMA ReadFacts ==
    ASSUME NEW v, NEW x
    PROVE  /\ Read(v, x).ok /\ Read(v, x).view = v /\ Read(v, x).value = x
           /\ \A w, y : Joined(Read(v, x), Read(w, y)) = Read(w, Append(x, y))
<1>1. Read(v, x).ok /\ Read(v, x).view = v /\ Read(v, x).value = x
  BY DEF Read
<1>2. ASSUME NEW w, NEW y
      PROVE  Joined(Read(v, x), Read(w, y)) = Read(w, Append(x, y))
  <2> DEFINE t == TRUE
             one == [ok |-> t, view |-> w, value |-> y]
             z == Append(x, y)
  <2>1. Joined(Read(v, x), Read(w, y)) = [one EXCEPT !.value = z]
    BY <1>1 DEF Joined, Read
  <2>2. Read(w, z) = [ok |-> t, view |-> w, value |-> z]
    BY DEF Read
  <2> HIDE DEF z, t
  <2>3. one = [ok |-> t, view |-> w, value |-> y]
    OBVIOUS
  <2> HIDE DEF one
  <2>4. [one EXCEPT !.value = z] = [ok |-> t, view |-> w, value |-> z]
    BY ONLY <2>3
  <2> QED
    BY <2>1, <2>2, <2>4 DEF z
<1> QED
  BY <1>1, <1>2

LEMMA SeenFacts ==
    ASSUME NEW off, NEW x
    PROVE  /\ Seen(off, x).ok /\ Seen(off, x).off = off /\ Seen(off, x).value = x
           /\ \A w, y : Joined(Seen(off, x), Seen(w, y)) = Seen(w, Append(x, y))
           /\ \A o : SeenOr(o, Seen(off, x)) = Seen(off, x)
<1>1. Seen(off, x).ok /\ Seen(off, x).off = off /\ Seen(off, x).value = x
  BY DEF Seen
<1>2. ASSUME NEW w, NEW y
      PROVE  Joined(Seen(off, x), Seen(w, y)) = Seen(w, Append(x, y))
  <2> DEFINE t == TRUE
             one == [ok |-> t, off |-> w, value |-> y]
             z == Append(x, y)
  <2>1. Joined(Seen(off, x), Seen(w, y)) = [one EXCEPT !.value = z]
    BY <1>1 DEF Joined, Seen
  <2>2. Seen(w, z) = [ok |-> t, off |-> w, value |-> z]
    BY DEF Seen
  <2> HIDE DEF z, t
  <2>3. one = [ok |-> t, off |-> w, value |-> y]
    OBVIOUS
  <2> HIDE DEF one
  <2>4. [one EXCEPT !.value = z] = [ok |-> t, off |-> w, value |-> z]
    BY ONLY <2>3
  <2> QED
    BY <2>1, <2>2, <2>4 DEF z
<1> QED
  BY <1>1, <1>2 DEF SeenOr

LEMMA ElementsRead ==
    ASSUME NEW v, IsView(v), NEW e \in Seq(Cell), Holds(v, 0, e), NEW of, NEW items, AreElements(of, items),
           Joins(e, ElementParts(of, items))
    PROVE  ExtractElements(v, of, Len(items)) = Read(Advance(v, Len(e)), items)
<1> DEFINE n == Len(items)
           parts == ElementParts(of, items)
           F(h) == [i \in 0..n |-> IF i = 0 THEN Read(v, <<>>) ELSE ElementAfter(h[i - 1], of)]
           f == CHOOSE h : h = F(h)
<1>1. /\ parts \in Seq(Seq(Cell)) /\ Len(parts) = n /\ n \in Nat
      /\ \A i \in 1..n : IsElement(of, items[i]) /\ parts[i] = ElementBytes(of, items[i])
      /\ IsSeq(items)
  BY ElementPartsFacts DEF AreElements
<1> HIDE DEF parts, n
<1>2. PICK o \in [0..n -> Nat] : o[0] = 0 /\ o[n] = Len(e) /\ FoundAt(v, 0, o, parts)
  <2>1. Joins(e, parts) /\ 0 \in Nat
    BY DEF parts
  <2> QED
    BY <1>1, <2>1, PartsFound
<1> DEFINE g == [i \in 0..n |-> Read(Advance(v, o[i]), FirstOf(items, i))]
<1>3. g[0] = Read(v, <<>>)
  <2>1. 0 \in 0..n /\ 0 + 0 <= v.size /\ 0 \in Nat
    BY <1>1, ViewFacts
  <2>2. Advance(v, 0) = v
    BY <2>1, AdvancedTwice
  <2> QED
    BY <1>2, <2>1, <2>2, FirstOfNone
<1>4. ASSUME NEW i \in 1..n
      PROVE  g[i] = ElementAfter(g[i - 1], of)
  <2> DEFINE x == o[i - 1]
             y == o[i]
             w == SizeOfElement(of, items[i])
             u == Advance(v, x)
  <2>1. i \in 0..n /\ i - 1 \in 0..n /\ i \in Nat \ {0}
    BY <1>1
  <2>2. IsElement(of, items[i]) /\ parts[i] = ElementBytes(of, items[i])
    BY <1>1
  <2>3. x \in Nat /\ y \in Nat /\ y = x + Len(parts[i]) /\ 0 + y <= v.size /\ Holds(v, 0 + x, parts[i])
    BY <1>1, <1>2, <2>1 DEF FoundAt
  <2>4. Len(parts[i]) = w /\ w \in Nat /\ parts[i] \in Seq(Cell)
    BY <2>2, ElementBytesFacts, CharsAreCells
  <2> HIDE DEF x, y, w, u
  <2>5. v.size \in Nat /\ x + w <= v.size /\ y = x + w /\ x <= v.size /\ 0 + x = x
    BY <2>3, <2>4, ViewFacts
  <2>6. IsView(u) /\ Advance(u, w) = Advance(v, y) /\ Consumed(v, u, x)
    BY <2>3, <2>4, <2>5, AdvancedTwice, Advanced DEF u
  <2>7. Holds(u, 0, parts[i])
    <3>1. Holds(v, x, parts[i]) /\ x - x = 0 /\ x <= x
      BY <2>3, <2>5
    <3> QED
      BY <2>3, <2>4, <2>6, <3>1, HoldsBehind
  <2>8. ExtractElement(u, of) = Read(Advance(v, y), items[i])
    <3>1. Holds(u, 0, ElementBytes(of, items[i])) /\ 0 \in Nat
      BY <2>2, <2>7
    <3> QED
      BY <2>2, <2>6, <3>1, ElementRead DEF w
  <2>9. g[i - 1] = Read(u, FirstOf(items, i - 1)) /\ g[i] = Read(Advance(v, y), FirstOf(items, i))
    BY <2>1 DEF u, x, y
  <2> HIDE DEF g
  <2>10. ElementAfter(g[i - 1], of) = Joined(g[i - 1], ExtractElement(u, of))
    BY <2>9, ReadFacts DEF ElementAfter
  <2>11. Joined(g[i - 1], ExtractElement(u, of)) = Read(Advance(v, y), Append(FirstOf(items, i - 1), items[i]))
    BY <2>8, <2>9, ReadFacts
  <2> QED
    BY <2>1, <2>9, <2>10, <2>11, FirstOfMore
<1>5. g = F(g)
  <2>1. \A i \in 0..n : i # 0 => i \in 1..n
    BY <1>1
  <2>2. \A i \in 0..n : g[i] = IF i = 0 THEN Read(v, <<>>) ELSE ElementAfter(g[i - 1], of)
    BY <1>3, <1>4, <2>1
  <2>3. g = [i \in 0..n |-> g[i]]
    OBVIOUS
  <2> HIDE DEF g
  <2> QED
    BY <2>2, <2>3
<1> HIDE DEF g
<1>6. f = F(f)
  BY <1>5
<1>7. ExtractElements(v, of, Len(items)) = f[n]
  <2>1. ~(n < 0)
    BY <1>1
  <2> QED
    BY <2>1 DEF ExtractElements, n
<1> HIDE DEF f
<1>8. f[0] = Read(v, <<>>) /\ \A i \in 1..n : f[i] = ElementAfter(f[i - 1], of)
  BY <1>1, <1>6
<1>9. f[n] = g[n]
  <2>1. SameRule(f, g, n)
    BY <1>3, <1>4, <1>8, Zenon DEF SameRule
  <2>2. \A i \in 0..n : f[i] = g[i]
    BY <1>1, <2>1, RecursionUnique
  <2> QED
    BY <1>1, <2>2
<1>10. g[n] = Read(Advance(v, Len(e)), items)
  <2>1. n \in 0..n
    BY <1>1
  <2>2. FirstOf(items, n) = items
    BY <1>1, FirstOfAll DEF n
  <2> QED
    BY <1>2, <2>1, <2>2 DEF g
<1> QED
  BY <1>7, <1>9, <1>10

LEMMA ValueOfRead ==
    ASSUME NEW w, NEW y, NEW z
    PROVE  [Read(w, y) EXCEPT !.value = z] = Read(w, z) /\ [Seen(w, y) EXCEPT !.value = z] = Seen(w, z)
<1> DEFINE t == TRUE
           one == [ok |-> t, view |-> w, value |-> y]
           two == [ok |-> t, off |-> w, value |-> y]
<1>1. Read(w, y) = one /\ Seen(w, y) = two
  BY DEF Read, Seen
<1>2. Read(w, z) = [ok |-> t, view |-> w, value |-> z] /\ Seen(w, z) = [ok |-> t, off |-> w, value |-> z]
  BY DEF Read, Seen
<1> HIDE DEF t
<1>3. one = [ok |-> t, view |-> w, value |-> y] /\ two = [ok |-> t, off |-> w, value |-> y]
  OBVIOUS
<1> HIDE DEF one, two
<1>4. [one EXCEPT !.value = z] = [ok |-> t, view |-> w, value |-> z]
  BY ONLY <1>3
<1>5. [two EXCEPT !.value = z] = [ok |-> t, off |-> w, value |-> z]
  BY ONLY <1>3
<1> QED
  BY <1>1, <1>2, <1>4, <1>5

LEMMA AppendToOne == ASSUME NEW x, NEW y PROVE Append(<<x>>, y) = <<x, y>>
<1> DEFINE S == {x, y}
           s == <<x>>
           t == <<x, y>>
<1>1. x \in S /\ y \in S
  OBVIOUS
<1> HIDE DEF S
<1>2. s \in Seq(S) /\ t \in Seq(S) /\ Len(s) = 1 /\ Len(t) = 2 /\ s[1] = x /\ t[1] = x /\ t[2] = y
  BY <1>1
<1> HIDE DEF s, t
<1>3. /\ Append(s, y) \in Seq(S) /\ Len(Append(s, y)) = 2
      /\ Append(s, y)[1] = x /\ Append(s, y)[2] = y
  BY <1>1, <1>2
<1> DEFINE u == Append(s, y)
<1> HIDE DEF u
<1>4. u \in Seq(S) /\ Len(u) = Len(t) /\ \A i \in 1..Len(u) : u[i] = t[i]
  BY <1>2, <1>3 DEF u
<1>5. u = t
  BY <1>2, <1>4, SeqEqual
<1> QED
  BY <1>5 DEF u, s, t

\* The bytes of a pair are those of its key and those of what this is mapped to.
LEMMA PairHeld ==
    ASSUME NEW v, IsView(v), NEW off \in Nat, NEW key, NEW of, NEW pair, IsPair(key, of, pair),
           Holds(v, off, PairBytes(key, of, pair))
    PROVE  /\ Holds(v, off, ElementBytes(key, pair[1]))
           /\ Holds(v, off + SizeOfElement(key, pair[1]), ElementBytes(of, pair[2]))
           /\ IsElement(key, pair[1]) /\ IsElement(of, pair[2])
           /\ SizeOfElement(key, pair[1]) \in Nat /\ SizeOfElement(of, pair[2]) \in Nat
           /\ off + SizeOfElement(key, pair[1]) + SizeOfElement(of, pair[2]) <= v.size
           /\ Len(PairBytes(key, of, pair)) = SizeOfElement(key, pair[1]) + SizeOfElement(of, pair[2])
           /\ ElementBytes(of, pair[2]) \in Seq(Cell) /\ ElementBytes(key, pair[1]) \in Seq(Cell)
<1> DEFINE a == ElementBytes(key, pair[1])
           b == ElementBytes(of, pair[2])
           x == SizeOfElement(key, pair[1])
           y == SizeOfElement(of, pair[2])
<1>1. IsElement(key, pair[1]) /\ IsElement(of, pair[2])
  BY DEF IsPair
<1>2. a \in Seq(Cell) /\ b \in Seq(Cell) /\ Len(a) = x /\ x \in Nat /\ y \in Nat /\ Len(b) = y
  BY <1>1, ElementBytesFacts, CharsAreCells
<1>3. PairBytes(key, of, pair) = a \o b
  BY DEF PairBytes
<1> HIDE DEF a, b, x, y
<1>4. Holds(v, off, a) /\ Holds(v, off + x, b)
  BY <1>2, <1>3, HoldsBoth
<1>5. off + x + y <= v.size
  BY <1>2, <1>4 DEF Holds
<1>6. Len(a \o b) = x + y
  BY <1>2
<1> QED
  BY <1>1, <1>2, <1>3, <1>4, <1>5, <1>6 DEF a, b, x, y

LEMMA PairExtracted ==
    ASSUME NEW v, IsView(v), NEW key, NEW of, NEW pair, IsPair(key, of, pair), Holds(v, 0, PairBytes(key, of, pair))
    PROVE  Mapped(ExtractElement(v, key), of) = Read(Advance(v, Len(PairBytes(key, of, pair))), <<pair[1], pair[2]>>)
<1> DEFINE a == ElementBytes(key, pair[1])
           b == ElementBytes(of, pair[2])
           x == SizeOfElement(key, pair[1])
           y == SizeOfElement(of, pair[2])
           n == Len(PairBytes(key, of, pair))
<1>1. /\ Holds(v, 0, a) /\ Holds(v, 0 + x, b) /\ IsElement(key, pair[1]) /\ IsElement(of, pair[2])
      /\ x \in Nat /\ y \in Nat /\ 0 + x + y <= v.size /\ n = x + y
      /\ b \in Seq(Cell) /\ 0 \in Nat
  <2>1. 0 \in Nat
    OBVIOUS
  <2> QED
    BY <2>1, PairHeld
<1>2. ExtractElement(v, key) = Read(Advance(v, x), pair[1])
  BY <1>1, ElementRead
<1> HIDE DEF a, b, x, y, n
<1>4. v.size \in Nat /\ x <= v.size
  BY <1>1, ViewFacts
<1> DEFINE u == Advance(v, x)
<1>11. x + y <= v.size /\ n = x + y
  BY <1>1, <1>4
<1>12. IsView(u) /\ Advance(u, y) = Advance(v, n) /\ Consumed(v, u, x)
  BY <1>1, <1>4, <1>11, AdvancedTwice, Advanced
<1> HIDE DEF u
<1>13. Holds(u, 0, b)
  <2>1. Holds(v, x, b) /\ x - x = 0 /\ x <= x
    BY <1>1
  <2> QED
    BY <1>1, <1>12, <2>1, HoldsBehind
<1>14. ExtractElement(u, of) = Read(Advance(v, n), pair[2])
  <2>1. Holds(u, 0, ElementBytes(of, pair[2])) /\ 0 \in Nat
    BY <1>13 DEF b
  <2>2. ExtractElement(u, of) = Read(Advance(u, y), pair[2])
    BY <1>1, <1>12, <2>1, ElementRead DEF y
  <2> QED
    BY <1>12, <2>2
<1> DEFINE k == Read(u, pair[1])
<1>15. Mapped(ExtractElement(v, key), of) = Mapped(k, of)
  BY <1>2 DEF u
<1>16. Mapped(k, of) = Joined(Read(u, <<pair[1]>>), ExtractElement(u, of))
  <2>1. [k EXCEPT !.value = <<k.value>>] = Read(u, <<pair[1]>>)
    BY ReadFacts, ValueOfRead
  <2>2. k.ok /\ k.view = u
    BY ReadFacts
  <2> HIDE DEF k
  <2> QED
    BY <2>1, <2>2 DEF Mapped
<1>17. Joined(Read(u, <<pair[1]>>), Read(Advance(v, n), pair[2])) = Read(Advance(v, n), Append(<<pair[1]>>, pair[2]))
  BY ReadFacts
<1>18. Append(<<pair[1]>>, pair[2]) = <<pair[1], pair[2]>>
  BY AppendToOne
<1> QED
  BY <1>14, <1>15, <1>16, <1>17, <1>18 DEF n

LEMMA PairLooked ==
    ASSUME NEW v, IsView(v), NEW off \in Nat, NEW key, NEW of, key # "buffer", of # "buffer",
           NEW pair, IsPair(key, of, pair), Holds(v, off, PairBytes(key, of, pair))
    PROVE  MappedAt(v, FrontElement(v, off, key), of)
               = Seen(off + Len(PairBytes(key, of, pair)), <<Shown(key, pair[1]), Shown(of, pair[2])>>)
<1> DEFINE a == ElementBytes(key, pair[1])
           b == ElementBytes(of, pair[2])
           x == SizeOfElement(key, pair[1])
           y == SizeOfElement(of, pair[2])
           n == Len(PairBytes(key, of, pair))
<1>1. /\ Holds(v, off, a) /\ Holds(v, off + x, b) /\ IsElement(key, pair[1]) /\ IsElement(of, pair[2])
      /\ x \in Nat /\ y \in Nat /\ off + x + y <= v.size /\ n = x + y
  BY PairHeld
<1>2. FrontElement(v, off, key) = Seen(off + x, Shown(key, pair[1]))
  BY <1>1, ElementRead
<1>3. FrontElement(v, off + x, of) = Seen((off + x) + y, Shown(of, pair[2]))
  <2>1. off + x \in Nat
    BY <1>1
  <2> QED
    BY <1>1, <2>1, ElementRead
<1> HIDE DEF a, b, x, y, n
<1>4. (off + x) + y = off + n
  BY <1>1
<1> DEFINE s == Shown(key, pair[1])
           u == off + x
           k == Seen(u, s)
<1>11. FrontElement(v, off, key) = k /\ FrontElement(v, u, of) = Seen(off + n, Shown(of, pair[2]))
  BY <1>2, <1>3, <1>4
<1> HIDE DEF s, u
<1>12. MappedAt(v, k, of) = Joined(Seen(u, <<s>>), FrontElement(v, u, of))
  <2>0. k.value = s
    BY SeenFacts
  <2>1. [k EXCEPT !.value = <<k.value>>] = Seen(u, <<s>>)
    <3>1. [Seen(u, s) EXCEPT !.value = <<s>>] = Seen(u, <<s>>)
      BY ValueOfRead
    <3> QED
      BY <2>0, <3>1
  <2>2. k.ok /\ k.off = u
    BY SeenFacts
  <2> HIDE DEF k
  <2> QED
    BY <2>1, <2>2 DEF MappedAt
<1> DEFINE z == Shown(of, pair[2])
<1>13. Joined(Seen(u, <<s>>), Seen(off + n, z)) = Seen(off + n, Append(<<s>>, z))
  BY SeenFacts
<1>14. Append(<<s>>, z) = <<s, z>>
  BY AppendToOne
<1> QED
  BY <1>11, <1>12, <1>13, <1>14 DEF s, n

LEMMA ElementsSeen ==
    ASSUME NEW v, IsView(v), NEW off \in Nat, NEW e \in Seq(Cell), Holds(v, off + CountBytes, e),
           NEW of, of # "buffer", NEW items, AreElements(of, items), Joins(e, ElementParts(of, items))
    PROVE  FrontElements(v, off, of, Len(items))
               = Seen(off + CountBytes + Len(e), [i \in DOMAIN items |-> Shown(of, items[i])])
<1> DEFINE n == Len(items)
           parts == ElementParts(of, items)
           shown == [i \in DOMAIN items |-> Shown(of, items[i])]
           start == Seen(off + CountBytes, <<>>)
           base == off + CountBytes
           F(h) == [i \in 0..n |-> IF i = 0 THEN start ELSE LookedAfter(v, off, h[i - 1], of)]
           f == CHOOSE h : h = F(h)
<1>1. /\ parts \in Seq(Seq(Cell)) /\ Len(parts) = n /\ n \in Nat /\ DOMAIN items = 1..n
      /\ \A i \in 1..n : IsElement(of, items[i]) /\ parts[i] = ElementBytes(of, items[i])
  BY ElementPartsFacts
<1>1a. base \in Nat
  BY Widths
<1>1b. FrontElements(v, off, of, Len(items)) = f[n]
  <2>1. ~(n < 0)
    BY <1>1
  <2> QED
    BY <2>1 DEF FrontElements
<1>1c. start = Seen(base, <<>>)
  OBVIOUS
<1>1d. \A i \in 1..n : shown[i] = Shown(of, items[i])
  BY <1>1
<1>1e. Holds(v, base, e)
  OBVIOUS
<1> HIDE DEF parts, n, start, base, shown
<1>2. PICK o \in [0..n -> Nat] : o[0] = 0 /\ o[n] = Len(e) /\ FoundAt(v, base, o, parts)
  <2>1. Joins(e, parts)
    BY DEF parts
  <2> QED
    BY <1>1, <1>1a, <1>1e, <2>1, PartsFound
<1> DEFINE g == [i \in 0..n |-> Seen(base + o[i], FirstOf(shown, i))]
<1>3. g[0] = start
  <2>1. 0 \in 0..n /\ base + 0 = base
    BY <1>1, <1>1a
  <2> QED
    BY <1>1c, <1>2, <2>1, FirstOfNone
<1>4. ASSUME NEW i \in 1..n
      PROVE  g[i] = LookedAfter(v, off, g[i - 1], of)
  <2> DEFINE x == o[i - 1]
             y == o[i]
             u == base + x
  <2>1. i \in 0..n /\ i - 1 \in 0..n /\ i \in Nat \ {0}
    BY <1>1
  <2>3. x \in Nat /\ y \in Nat /\ y = x + Len(parts[i]) /\ Holds(v, base + x, parts[i]) /\ Len(parts[i]) \in Nat
    BY <1>1, <1>2, <2>1 DEF FoundAt
  <2> HIDE DEF x, y, u
  <2> DEFINE w == Len(parts[i])
  <2>3a. w \in Nat /\ y = x + w /\ Holds(v, u, parts[i])
    BY <2>3 DEF u
  <2> HIDE DEF w
  <2>3b. u \in Nat /\ u + w = base + y
    BY <1>1a, <2>3, <2>3a DEF u
  <2>5. u \in Nat /\ u + Len(parts[i]) = base + y /\ Holds(v, u, parts[i])
    BY <2>3a, <2>3b DEF w
  <2>8. FrontElement(v, u, of) = Seen(base + y, shown[i])
    <3>1. IsElement(of, items[i]) /\ parts[i] = ElementBytes(of, items[i])
      BY <1>1
    <3>2. Len(parts[i]) = SizeOfElement(of, items[i])
      BY <3>1, ElementBytesFacts
    <3>3. Holds(v, u, ElementBytes(of, items[i]))
      BY <2>5, <3>1
    <3>4. FrontElement(v, u, of) = Seen(u + SizeOfElement(of, items[i]), Shown(of, items[i]))
      BY <2>5, <3>1, <3>3, ElementRead
    <3> QED
      BY <1>1d, <2>5, <3>2, <3>4
  <2>9. g[i - 1] = Seen(u, FirstOf(shown, i - 1)) /\ g[i] = Seen(base + y, FirstOf(shown, i))
    BY <2>1 DEF u, x, y
  <2> HIDE DEF g
  <2>10. LookedAfter(v, off, g[i - 1], of) = SeenOr(off, Joined(g[i - 1], FrontElement(v, u, of)))
    BY <2>9, SeenFacts DEF LookedAfter
  <2>11. Joined(g[i - 1], FrontElement(v, u, of)) = Seen(base + y, Append(FirstOf(shown, i - 1), shown[i]))
    BY <2>8, <2>9, SeenFacts
  <2>12. SeenOr(off, Seen(base + y, FirstOf(shown, i))) = Seen(base + y, FirstOf(shown, i))
    BY SeenFacts
  <2> QED
    BY <2>1, <2>9, <2>10, <2>11, <2>12, FirstOfMore
<1>5. g = F(g)
  <2>1. \A i \in 0..n : i # 0 => i \in 1..n
    BY <1>1
  <2>2. \A i \in 0..n : g[i] = IF i = 0 THEN start ELSE LookedAfter(v, off, g[i - 1], of)
    BY <1>3, <1>4, <2>1
  <2>3. g = [i \in 0..n |-> g[i]]
    OBVIOUS
  <2> HIDE DEF g
  <2> QED
    BY <2>2, <2>3
<1> HIDE DEF g
<1>6. f = F(f)
  BY <1>5
<1> HIDE DEF f
<1>8. f[0] = start /\ \A i \in 1..n : f[i] = LookedAfter(v, off, f[i - 1], of)
  BY <1>1, <1>6
<1>9. f[n] = g[n]
  <2>1. SameRule(f, g, n)
    BY <1>3, <1>4, <1>8, Zenon DEF SameRule
  <2>2. \A i \in 0..n : f[i] = g[i]
    BY <1>1, <2>1, RecursionUnique
  <2> QED
    BY <1>1, <2>2
<1>10. g[n] = Seen(base + Len(e), shown)
  <2>1. n \in 0..n
    BY <1>1
  <2>2. FirstOf(shown, n) = shown
    BY <1>1, <1>1d DEF FirstOf, shown
  <2> QED
    BY <1>2, <2>1, <2>2 DEF g
<1> QED
  BY <1>1b, <1>9, <1>10 DEF base, shown

LEMMA PairsRead ==
    ASSUME NEW v, IsView(v), NEW e \in Seq(Cell), Holds(v, 0, e), NEW key, NEW of, NEW items, ArePairs(key, of, items),
           \A i \in DOMAIN items : items[i] = <<items[i][1], items[i][2]>>,
           Joins(e, PairParts(key, of, items))
    PROVE  ExtractPairs(v, key, of, Len(items)) = Read(Advance(v, Len(e)), items)
<1> DEFINE n == Len(items)
           parts == PairParts(key, of, items)
           F(h) == [i \in 0..n |-> IF i = 0 THEN Read(v, <<>>) ELSE PairAfter(h[i - 1], key, of)]
           f == CHOOSE h : h = F(h)
<1>1. /\ parts \in Seq(Seq(Cell)) /\ Len(parts) = n /\ n \in Nat /\ DOMAIN items = 1..n
      /\ \A i \in 1..n : IsPair(key, of, items[i]) /\ parts[i] = PairBytes(key, of, items[i])
      /\ IsSeq(items)
  BY PairPartsFacts DEF ArePairs
<1> HIDE DEF parts, n
<1>2. PICK o \in [0..n -> Nat] : o[0] = 0 /\ o[n] = Len(e) /\ FoundAt(v, 0, o, parts)
  <2>1. Joins(e, parts) /\ 0 \in Nat
    BY DEF parts
  <2> QED
    BY <1>1, <2>1, PartsFound
<1> DEFINE g == [i \in 0..n |-> Read(Advance(v, o[i]), FirstOf(items, i))]
<1>3. g[0] = Read(v, <<>>)
  <2>1. 0 \in 0..n /\ 0 + 0 <= v.size /\ 0 \in Nat
    BY <1>1, ViewFacts
  <2>2. Advance(v, 0) = v
    BY <2>1, AdvancedTwice
  <2> QED
    BY <1>2, <2>1, <2>2, FirstOfNone
<1>4. ASSUME NEW i \in 1..n
      PROVE  g[i] = PairAfter(g[i - 1], key, of)
  <2> DEFINE x == o[i - 1]
             y == o[i]
             w == Len(parts[i])
             u == Advance(v, x)
  <2>1. i \in 0..n /\ i - 1 \in 0..n /\ i \in Nat \ {0}
    BY <1>1
  <2>2. IsPair(key, of, items[i]) /\ parts[i] = PairBytes(key, of, items[i]) /\ items[i] = <<items[i][1], items[i][2]>>
    BY <1>1
  <2>3. x \in Nat /\ y \in Nat /\ y = x + Len(parts[i]) /\ 0 + y <= v.size /\ Holds(v, 0 + x, parts[i])
    BY <1>1, <1>2, <2>1 DEF FoundAt
  <2>4. w \in Nat /\ parts[i] \in Seq(Cell)
    BY <1>1
  <2> HIDE DEF x, y, u
  <2>5. v.size \in Nat /\ x + w <= v.size /\ y = x + w /\ x <= v.size /\ 0 + x = x
    BY <2>3, <2>4, ViewFacts
  <2> HIDE DEF w
  <2>6. IsView(u) /\ Advance(u, w) = Advance(v, y) /\ Consumed(v, u, x)
    BY <2>3, <2>4, <2>5, AdvancedTwice, Advanced DEF u
  <2>7. Holds(u, 0, parts[i])
    <3>1. Holds(v, x, parts[i]) /\ x - x = 0 /\ x <= x
      BY <2>3, <2>5
    <3> QED
      BY <2>3, <2>4, <2>6, <3>1, HoldsBehind
  <2>8. Mapped(ExtractElement(u, key), of) = Read(Advance(v, y), items[i])
    <3>1. Holds(u, 0, PairBytes(key, of, items[i])) /\ 0 \in Nat
      BY <2>2, <2>7
    <3>2. Mapped(ExtractElement(u, key), of)
            = Read(Advance(u, Len(PairBytes(key, of, items[i]))), <<items[i][1], items[i][2]>>)
      <4> DEFINE pr == items[i]
      <4>1. IsPair(key, of, pr) /\ Holds(u, 0, PairBytes(key, of, pr)) /\ 0 \in Nat
        BY <2>2, <3>1
      <4> HIDE DEF pr
      <4>2. Mapped(ExtractElement(u, key), of) = Read(Advance(u, Len(PairBytes(key, of, pr))), <<pr[1], pr[2]>>)
        BY <2>6, <4>1, PairExtracted
      <4> QED
        BY <4>2 DEF pr
    <3> QED
      BY <2>2, <2>6, <3>2 DEF w
  <2>9. g[i - 1] = Read(u, FirstOf(items, i - 1)) /\ g[i] = Read(Advance(v, y), FirstOf(items, i))
    BY <2>1 DEF u, x, y
  <2> HIDE DEF g
  <2>10. PairAfter(g[i - 1], key, of) = Joined(g[i - 1], Mapped(ExtractElement(u, key), of))
    BY <2>9, ReadFacts DEF PairAfter
  <2>11. Joined(g[i - 1], Mapped(ExtractElement(u, key), of)) = Read(Advance(v, y), Append(FirstOf(items, i - 1), items[i]))
    BY <2>8, <2>9, ReadFacts
  <2> QED
    BY <2>1, <2>9, <2>10, <2>11, FirstOfMore
<1>5. g = F(g)
  <2>1. \A i \in 0..n : i # 0 => i \in 1..n
    BY <1>1
  <2>2. \A i \in 0..n : g[i] = IF i = 0 THEN Read(v, <<>>) ELSE PairAfter(g[i - 1], key, of)
    BY <1>3, <1>4, <2>1
  <2>3. g = [i \in 0..n |-> g[i]]
    OBVIOUS
  <2> HIDE DEF g
  <2> QED
    BY <2>2, <2>3
<1> HIDE DEF g
<1>6. f = F(f)
  BY <1>5
<1>7. ExtractPairs(v, key, of, Len(items)) = f[n]
  <2>1. ~(n < 0)
    BY <1>1
  <2> QED
    BY <2>1 DEF ExtractPairs, n
<1> HIDE DEF f
<1>8. f[0] = Read(v, <<>>) /\ \A i \in 1..n : f[i] = PairAfter(f[i - 1], key, of)
  BY <1>1, <1>6
<1>9. f[n] = g[n]
  <2>1. SameRule(f, g, n)
    BY <1>3, <1>4, <1>8, Zenon DEF SameRule
  <2>2. \A i \in 0..n : f[i] = g[i]
    BY <1>1, <2>1, RecursionUnique
  <2> QED
    BY <1>1, <2>2
<1>10. g[n] = Read(Advance(v, Len(e)), items)
  <2>1. n \in 0..n
    BY <1>1
  <2>2. FirstOf(items, n) = items
    BY <1>1, FirstOfAll DEF n
  <2> QED
    BY <1>2, <2>1, <2>2 DEF g
<1> QED
  BY <1>7, <1>9, <1>10

LEMMA PairsSeen ==
    ASSUME NEW v, IsView(v), NEW off \in Nat, NEW e \in Seq(Cell), Holds(v, off + CountBytes, e),
           NEW key, NEW of, key # "buffer", of # "buffer", NEW items, ArePairs(key, of, items),
           Joins(e, PairParts(key, of, items)), Count(v, off) = Len(items)
    PROVE  FrontContainerAssociative(v, off, key, of)
               = Seen(off + CountBytes + Len(e), [i \in DOMAIN items |-> <<Shown(key, items[i][1]), Shown(of, items[i][2])>>])
<1> DEFINE n == Len(items)
           parts == PairParts(key, of, items)
           shown == [i \in DOMAIN items |-> <<Shown(key, items[i][1]), Shown(of, items[i][2])>>]
           start == Seen(off + CountBytes, <<>>)
           base == off + CountBytes
           F(h) == [i \in 0..n |-> IF i = 0 THEN start ELSE PairLookedAfter(v, off, h[i - 1], key, of)]
           f == CHOOSE h : h = F(h)
<1>1. /\ parts \in Seq(Seq(Cell)) /\ Len(parts) = n /\ n \in Nat /\ DOMAIN items = 1..n
      /\ \A i \in 1..n : IsPair(key, of, items[i]) /\ parts[i] = PairBytes(key, of, items[i])
  BY PairPartsFacts
<1>1a. base \in Nat
  BY Widths
<1>1b. FrontContainerAssociative(v, off, key, of) = f[n]
  <2>1. ~(n < 0) /\ Count(v, off) = n
    BY <1>1
  <2> QED
    BY <2>1 DEF FrontContainerAssociative
<1>1c. start = Seen(base, <<>>)
  OBVIOUS
<1>1d. \A i \in 1..n : shown[i] = <<Shown(key, items[i][1]), Shown(of, items[i][2])>>
  BY <1>1
<1>1e. Holds(v, base, e)
  OBVIOUS
<1> HIDE DEF parts, n, start, base, shown
<1>2. PICK o \in [0..n -> Nat] : o[0] = 0 /\ o[n] = Len(e) /\ FoundAt(v, base, o, parts)
  <2>1. Joins(e, parts)
    BY DEF parts
  <2> QED
    BY <1>1, <1>1a, <1>1e, <2>1, PartsFound
<1> DEFINE g == [i \in 0..n |-> Seen(base + o[i], FirstOf(shown, i))]
<1>3. g[0] = start
  <2>1. 0 \in 0..n /\ base + 0 = base
    BY <1>1, <1>1a
  <2> QED
    BY <1>1c, <1>2, <2>1, FirstOfNone
<1>4. ASSUME NEW i \in 1..n
      PROVE  g[i] = PairLookedAfter(v, off, g[i - 1], key, of)
  <2> DEFINE x == o[i - 1]
             y == o[i]
             u == base + x
  <2>1. i \in 0..n /\ i - 1 \in 0..n /\ i \in Nat \ {0}
    BY <1>1
  <2>3. x \in Nat /\ y \in Nat /\ y = x + Len(parts[i]) /\ Holds(v, base + x, parts[i]) /\ Len(parts[i]) \in Nat
    BY <1>1, <1>2, <2>1 DEF FoundAt
  <2> HIDE DEF x, y, u
  <2> DEFINE w == Len(parts[i])
  <2>3a. w \in Nat /\ y = x + w /\ Holds(v, u, parts[i])
    BY <2>3 DEF u
  <2> HIDE DEF w
  <2>3b. u \in Nat /\ u + w = base + y
    BY <1>1a, <2>3, <2>3a DEF u
  <2>5. u \in Nat /\ u + Len(parts[i]) = base + y /\ Holds(v, u, parts[i])
    BY <2>3a, <2>3b DEF w
  <2>8. MappedAt(v, FrontElement(v, u, key), of) = Seen(base + y, shown[i])
    <3>1. IsPair(key, of, items[i]) /\ parts[i] = PairBytes(key, of, items[i])
      BY <1>1
    <3>3. Holds(v, u, PairBytes(key, of, items[i]))
      BY <2>5, <3>1
    <3>4. MappedAt(v, FrontElement(v, u, key), of)
            = Seen(u + Len(parts[i]), <<Shown(key, items[i][1]), Shown(of, items[i][2])>>)
      <4> DEFINE pr == items[i]
      <4>1. IsPair(key, of, pr) /\ Holds(v, u, PairBytes(key, of, pr)) /\ u \in Nat
        BY <2>5, <3>1, <3>3
      <4> HIDE DEF pr
      <4>2. MappedAt(v, FrontElement(v, u, key), of)
              = Seen(u + Len(PairBytes(key, of, pr)), <<Shown(key, pr[1]), Shown(of, pr[2])>>)
        BY <4>1, PairLooked
      <4> QED
        BY <3>1, <4>2 DEF pr
    <3> QED
      BY <1>1d, <2>5, <3>4
  <2>9. g[i - 1] = Seen(u, FirstOf(shown, i - 1)) /\ g[i] = Seen(base + y, FirstOf(shown, i))
    BY <2>1 DEF u, x, y
  <2> HIDE DEF g
  <2>10. PairLookedAfter(v, off, g[i - 1], key, of) = SeenOr(off, Joined(g[i - 1], MappedAt(v, FrontElement(v, u, key), of)))
    BY <2>9, SeenFacts DEF PairLookedAfter
  <2>11. Joined(g[i - 1], MappedAt(v, FrontElement(v, u, key), of)) = Seen(base + y, Append(FirstOf(shown, i - 1), shown[i]))
    BY <2>8, <2>9, SeenFacts
  <2>12. SeenOr(off, Seen(base + y, FirstOf(shown, i))) = Seen(base + y, FirstOf(shown, i))
    BY SeenFacts
  <2> QED
    BY <2>1, <2>9, <2>10, <2>11, <2>12, FirstOfMore
<1>5. g = F(g)
  <2>1. \A i \in 0..n : i # 0 => i \in 1..n
    BY <1>1
  <2>2. \A i \in 0..n : g[i] = IF i = 0 THEN start ELSE PairLookedAfter(v, off, g[i - 1], key, of)
    BY <1>3, <1>4, <2>1
  <2>3. g = [i \in 0..n |-> g[i]]
    OBVIOUS
  <2> HIDE DEF g
  <2> QED
    BY <2>2, <2>3
<1> HIDE DEF g
<1>6. f = F(f)
  BY <1>5
<1> HIDE DEF f
<1>8. f[0] = start /\ \A i \in 1..n : f[i] = PairLookedAfter(v, off, f[i - 1], key, of)
  BY <1>1, <1>6
<1>9. f[n] = g[n]
  <2>1. SameRule(f, g, n)
    BY <1>3, <1>4, <1>8, Zenon DEF SameRule
  <2>2. \A i \in 0..n : f[i] = g[i]
    BY <1>1, <2>1, RecursionUnique
  <2> QED
    BY <1>1, <2>2
<1>10. g[n] = Seen(base + Len(e), shown)
  <2>1. n \in 0..n
    BY <1>1
  <2>2. FirstOf(shown, n) = shown
    BY <1>1, <1>1d DEF FirstOf, shown
  <2> QED
    BY <1>2, <2>1, <2>2 DEF g
<1> QED
  BY <1>1b, <1>9, <1>10 DEF base, shown

-----------------------------------------------------------------------------
(* Elements that are all different *)

LEMMA AllDistinct ==
    ASSUME NEW items, IsSeq(items), IsInjective(items)
    PROVE  Distinct(items) = items
<1> DEFINE n == Len(items)
           Next1(s, i) == IF items[i] \in ToSet(s) THEN s ELSE Append(s, items[i])
           F(h) == [i \in 0..n |-> IF i = 0 THEN <<>>
                                   ELSE IF items[i] \in ToSet(h[i - 1]) THEN h[i - 1] ELSE Append(h[i - 1], items[i])]
           f == CHOOSE h : h = F(h)
           g == [i \in 0..n |-> FirstOf(items, i)]
<1>1. n \in Nat /\ DOMAIN items = 1..n
  BY SeqFacts
<1>1a. Distinct(items) = f[n]
  BY DEF Distinct
<1> HIDE DEF n
<1>3. g[0] = <<>>
  BY <1>1, FirstOfNone
<1>4. ASSUME NEW i \in 1..n
      PROVE  g[i] = Next1(g[i - 1], i)
  <2>1. i \in 0..n /\ i - 1 \in 0..n /\ i \in Nat \ {0} /\ \A j \in 1..(i - 1) : j \in 1..n /\ j # i
    BY <1>1
  <2>2. g[i - 1] = FirstOf(items, i - 1) /\ g[i] = FirstOf(items, i)
    BY <2>1
  <2>3. \A j \in 1..(i - 1) : items[j] # items[i]
    BY <1>1, <2>1 DEF IsInjective
  <2>4. items[i] \notin ToSet(FirstOf(items, i - 1))
    BY <2>3 DEF FirstOf, ToSet
  <2> HIDE DEF g
  <2> QED
    BY <2>1, <2>2, <2>4, FirstOfMore
<1>5. g = F(g)
  <2>1. \A i \in 0..n : i # 0 => i \in 1..n
    BY <1>1
  <2>2. \A i \in 0..n : g[i] = IF i = 0 THEN <<>>
                               ELSE IF items[i] \in ToSet(g[i - 1]) THEN g[i - 1] ELSE Append(g[i - 1], items[i])
    BY <1>3, <1>4, <2>1
  <2>3. g = [i \in 0..n |-> g[i]]
    OBVIOUS
  <2> HIDE DEF g
  <2> QED
    BY <2>2, <2>3
<1> HIDE DEF g
<1>6. f = F(f)
  BY <1>5
<1> HIDE DEF f
<1>8. f[0] = <<>> /\ \A i \in 1..n : f[i] = Next1(f[i - 1], i)
  <2>1. \A i \in 0..n : f[i] = IF i = 0 THEN <<>>
                               ELSE IF items[i] \in ToSet(f[i - 1]) THEN f[i - 1] ELSE Append(f[i - 1], items[i])
    BY <1>6
  <2>2. ASSUME NEW i \in 1..n
        PROVE  f[i] = Next1(f[i - 1], i)
    <3>1. i \in 0..n /\ i # 0
      BY <1>1
    <3> QED
      BY <2>1, <3>1
  <2>3. 0 \in 0..n
    BY <1>1
  <2> QED
    BY <2>1, <2>2, <2>3
<1> HIDE DEF Next1
<1>9. f[n] = g[n]
  <2>1. SameRule(f, g, n)
    BY <1>3, <1>4, <1>8, Zenon DEF SameRule
  <2>2. \A i \in 0..n : f[i] = g[i]
    BY <1>1, <2>1, RecursionUnique
  <2> QED
    BY <1>1, <2>2
<1>10. g[n] = items
  <2>1. n \in 0..n
    BY <1>1
  <2> QED
    BY <2>1, FirstOfAll DEF g, n
<1> QED
  BY <1>1a, <1>9, <1>10

-----------------------------------------------------------------------------
(* What is read of a value without members *)

IsRead(r) == r = [ok |-> r.ok, view |-> r.view, value |-> r.value]

LEMMA IsReadFacts ==
    ASSUME NEW v, NEW y
    PROVE  IsRead(Read(v, y)) /\ IsRead(Throws(v)) /\ ~Throws(v).ok /\ Throws(v).view = v
BY DEF IsRead, Read, Throws

\* r is what was read of x at the front of v.
ReadsSimple(v, r, x, ahead) ==
    /\ IsRead(r)
    /\ FitsSimple(x) => /\ r.ok /\ Consumed(v, r.view, SizeOfSimple(x))
                        /\ IsSimple(x) => SaysSimple(x, r.value, ahead)
    /\ ~FitsSimple(x) => ~r.ok /\ r.view.mem = v.mem

LEMMA ReadsAs ==
    ASSUME NEW v, IsView(v), NEW n \in Nat, n <= v.size, NEW value, NEW x, n = SizeOfSimple(x), FitsSimple(x), NEW ahead,
           IsSimple(x) => SaysSimple(x, value, ahead)
    PROVE  ReadsSimple(v, Read(Advance(v, n), value), x, ahead)
<1>1. Consumed(v, Advance(v, n), n)
  BY Advanced
<1> QED
  BY <1>1, ReadFacts, IsReadFacts DEF ReadsSimple

\* How long what is found is.
LEMMA HeldLength ==
    ASSUME NEW v, IsView(v), NEW e, e \in Seq(Cell), Holds(v, 0, e)
    PROVE  Len(e) \in Nat /\ Len(e) <= v.size /\ Bytes(v, 0, Len(e)) = e /\ v.size \in Nat
<1>1. Len(e) \in Nat /\ v.size \in Nat
  BY ViewFacts
<1> QED
  BY <1>1 DEF Holds

\* What most of the kinds say.
LEMMA SaysItems ==
    ASSUME NEW x, x.kind \notin {"signed", "unsigned", "hex", "line_copy", "map", "initializer"}, NEW ahead
    PROVE  SaysSimple(x, x.items, ahead)
BY DEF SaysSimple

LEMMA FitsAlways ==
    ASSUME NEW x, x.kind \notin {"array", "copy"}
    PROVE  FitsSimple(x)
BY DEF FitsSimple

LEMMA NumberValueRead ==
    ASSUME NEW v, IsView(v), NEW x, IsMember(x), x.kind \in {"byte", "number"}, NEW ahead,
           NEW e, Holds(v, 0, e), SimpleBytes(e, x, ahead)
    PROVE  ReadsSimple(v, ExtractSimple(v, x), x, ahead)
<1> DEFINE w == Width(x)
           k == x.items[1]
<1>1. w \in Nat \ {0} /\ k \in Int /\ SizeOfSimple(x) = w
  <2>1. IsSimple(x) => k \in Int
    BY NumberValue
  <2> QED
    BY <2>1, Widths DEF IsMember, Width, SizeOfSimple, SizeOfGeneral
<1>2. ExtractSimple(v, x) = ExtractGeneral(v, w)
  BY DEF ExtractSimple, DoExtractGeneral
<1>3. e = Encoded(k, w)
  BY DEF SimpleBytes
<1> HIDE DEF w, k
<1>4. Holds(v, 0, Encoded(k, w)) /\ 0 \in Nat
  BY <1>3
<1>5. /\ ExtractGeneral(v, w) = Read(Advance(v, w), <<Decoded(Encoded(k, w))>>)
      /\ InWidth(k, w) => Decoded(Encoded(k, w)) = k
  BY <1>1, <1>4, GeneralRead
<1>6. w <= v.size
  BY <1>1, <1>4, NumberHeld
<1>7. FitsSimple(x)
  BY FitsAlways
<1>8. IsSimple(x) => SaysSimple(x, <<Decoded(Encoded(k, w))>>, ahead)
  <2> HAVE IsSimple(x)
  <2>1. InWidth(k, w)
    BY NumberValue DEF k, w
  <2>2. x.items = <<k>>
    <3>1. x.items \in Seq(Int) /\ Len(x.items) = 1
      BY DEF IsSimple, IsNumber, Container
    <3> QED
      BY <3>1 DEF k
  <2> QED
    BY <1>5, <2>1, <2>2, SaysItems
<1>9. w \in Nat
  BY <1>1
<1> QED
  BY <1>1, <1>2, <1>5, <1>6, <1>7, <1>8, <1>9, ReadsAs

LEMMA StringValueRead ==
    ASSUME NEW v, IsView(v), NEW x, IsSimple(x), x.kind \in {"string", "view", "copy", "literal"}, NEW ahead,
           NEW e, Holds(v, 0, e), SimpleBytes(e, x, ahead)
    PROVE  ReadsSimple(v, ExtractSimple(v, x), x, ahead)
<1> DEFINE n == SizeOfString(x.items)
<1>1. IsCounted(x.items) /\ e = StringBytes(x.items) /\ x.room \in Nat /\ Len(x.items) \in Nat
  BY DEF IsSimple, SimpleBytes, Container, IsCounted
<1>2. Holds(v, 0, StringBytes(x.items)) /\ 0 \in Nat
  BY <1>1
<1>3. /\ ExtractStringView(v) = Read(Advance(v, n), x.items)
      /\ \A most \in Nat :
             ExtractStringCopy(v, most) = IF Len(x.items) + 1 < most THEN ExtractStringView(v) ELSE Throws(v)
  BY <1>1, <1>2, StringRead
<1>4. n \in Nat /\ n <= v.size
  <2>1. 0 + n <= v.size /\ n \in Nat
    BY <1>1, <1>2, StringHeld
  <2> QED
    BY <2>1
<1>5. n = SizeOfSimple(x)
  <2>1. Len(StringBytes(x.items)) = SizeOfSimple(x)
    BY StringValue
  <2>2. Len(StringBytes(x.items)) = n
    BY <1>1, StringBytesFacts DEF IsCounted
  <2> QED
    BY <2>1, <2>2
<1>6. SaysSimple(x, x.items, ahead)
  BY SaysItems
<1> HIDE DEF n
<1>7. CASE x.kind # "copy"
  <2>1. ExtractSimple(v, x) = ExtractStringView(v)
    BY <1>7 DEF ExtractSimple, DoExtractLiteral, DoExtractString
  <2>2. FitsSimple(x)
    BY <1>7, FitsAlways
  <2> QED
    BY <1>3, <1>4, <1>5, <1>6, <2>1, <2>2, ReadsAs
<1>8. CASE x.kind = "copy"
  <2>1. ExtractSimple(v, x) = ExtractStringCopy(v, x.room)
    BY <1>8 DEF ExtractSimple, ExtractWithout
  <2>2. ExtractSimple(v, x) = IF Len(x.items) + 1 < x.room THEN ExtractStringView(v) ELSE Throws(v)
    BY <1>1, <1>3, <2>1
  <2>3. FitsSimple(x) <=> Len(x.items) + 1 < x.room
    BY <1>8 DEF FitsSimple
  <2>4. CASE FitsSimple(x)
    BY <1>3, <1>4, <1>5, <1>6, <2>2, <2>3, <2>4, ReadsAs
  <2>5. CASE ~FitsSimple(x)
    BY <2>2, <2>3, <2>5, IsReadFacts DEF ReadsSimple
  <2> QED
    BY <2>4, <2>5
<1> QED
  BY <1>7, <1>8

LEMMA BufferValueRead ==
    ASSUME NEW v, IsView(v), NEW x, IsSimple(x), x.kind = "buffer", NEW ahead,
           NEW e, Holds(v, 0, e), SimpleBytes(e, x, ahead)
    PROVE  ReadsSimple(v, ExtractSimple(v, x), x, ahead)
<1> DEFINE n == SizeOfBuffer(x.items)
<1>1. IsSized(x.items) /\ e = BufferBytes(x.items)
  BY DEF IsSimple, SimpleBytes, Container
<1>2. ExtractBufferView(v) = Read(Advance(v, n), x.items)
  BY <1>1, BufferRead
<1>3. ExtractSimple(v, x) = ExtractBufferView(v) /\ n = SizeOfSimple(x)
  BY DEF ExtractSimple, DoExtractBuffer, SizeOfSimple, SizeOfBufferType
<1>4. e \in Seq(Cell) /\ Len(e) = n
  BY <1>1, BufferBytesFacts, CharsAreCells DEF IsSized
<1>5. n \in Nat /\ n <= v.size
  BY <1>4, HeldLength
<1> HIDE DEF n
<1> QED
  BY <1>2, <1>3, <1>5, ReadsAs, SaysItems, FitsAlways

LEMMA BytesRead ==
    ASSUME NEW v, IsView(v), NEW e, e \in Seq(Cell), Holds(v, 0, e)
    PROVE  /\ ExtractBytes(v, Len(e)) = Read(Advance(v, Len(e)), e)
           /\ ExtractBytesTo(v, Len(e)) = Read(Advance(v, Len(e)), e)
<1> DEFINE n == Len(e)
<1>1. n \in Nat /\ n <= v.size /\ Bytes(v, 0, n) = e /\ v.size \in Nat
  BY HeldLength
<1>2. n = 0 => e = <<>> /\ Advance(v, 0) = v
  <2>1. n = 0 => e = <<>>
    OBVIOUS
  <2>2. 0 \in Nat /\ 0 + 0 <= v.size
    BY <1>1
  <2> QED
    BY <2>1, <2>2, AdvancedTwice
<1> HIDE DEF n
<1>3. ExtractBytes(v, n) = Read(Advance(v, n), e)
  BY <1>1 DEF ExtractBytes
<1>4. ExtractBytesTo(v, n) = Read(Advance(v, n), e)
  BY <1>1, <1>2 DEF ExtractBytesTo
<1> QED
  BY <1>3, <1>4 DEF n

LEMMA SkipRead ==
    ASSUME NEW v, IsView(v), NEW x, IsSimple(x), x.kind = "skip", NEW ahead,
           NEW e, e \in Seq(Cell), Holds(v, 0, e), SimpleBytes(e, x, ahead)
    PROVE  ReadsSimple(v, ExtractSimple(v, x), x, ahead)
<1> DEFINE n == Len(e)
<1>1. n = x.items[1] /\ n = SizeOfSimple(x)
  BY DEF SimpleBytes, SizeOfSimple, SizeOfSkip
<1>2. ExtractSimple(v, x) = [ExtractBytes(v, n) EXCEPT !.value = x.items]
  BY <1>1 DEF ExtractSimple, ExtractWithout
<1>3. n \in Nat /\ n <= v.size /\ ExtractBytes(v, n) = Read(Advance(v, n), e)
  BY HeldLength, BytesRead
<1> HIDE DEF n
<1>4. ExtractSimple(v, x) = Read(Advance(v, n), x.items)
  BY <1>2, <1>3, ValueOfRead
<1> QED
  BY <1>1, <1>3, <1>4, ReadsAs, SaysItems, FitsAlways

LEMMA SizeOfText ==
    ASSUME NEW x, IsSimple(x), x.kind \in Text
    PROVE  Len(TextBytes(x)) = SizeOfSimple(x) /\ TextBytes(x) \in Seq(Cell) /\ TextBytes(x) \in Seq(Char)
<1>1. TextBytes(x) \in Seq(Char) /\ TextBytes(x) \in Seq(Cell)
  BY TextBytesFacts, CharsAreCells
<1>2. CASE x.kind = "text"
  BY <1>1, <1>2 DEF SizeOfSimple, SizeOfStringType, TextBytes
<1>3. CASE x.kind # "text"
  <2>1. SizeOfSimple(x) = LengthAsText(x)
    BY <1>3 DEF SizeOfSimple, SizeWithout, Text
  <2> QED
    BY <1>1, <1>3, <2>1, LengthOfText
<1> QED
  BY <1>2, <1>3

LEMMA PlainTextRead ==
    ASSUME NEW v, IsView(v), NEW x, IsSimple(x), x.kind \in {"text", "raw", "bytes"}, NEW ahead,
           NEW e, Holds(v, 0, e), SimpleBytes(e, x, ahead)
    PROVE  ReadsSimple(v, ExtractSimple(v, x), x, ahead)
<1>1. x.kind \in Text /\ e = TextBytes(x) /\ TextBytes(x) = x.items
  BY DEF Text, SimpleBytes, TextBytes
<1>2. e \in Seq(Cell) /\ Len(e) = SizeOfSimple(x)
  BY <1>1, SizeOfText
<1>3. ExtractSimple(v, x) = IF x.kind = "raw" THEN ExtractBytesTo(v, Len(e)) ELSE ExtractBytes(v, Len(e))
  <2>1. CASE x.kind = "bytes"
    <3>1. LengthAsText(x) = Len(e)
      BY <1>1, <2>1, LengthOfText
    <3> QED
      BY <2>1, <3>1 DEF ExtractSimple, ExtractWithout
  <2>2. CASE x.kind # "bytes"
    BY <1>1, <2>2 DEF ExtractSimple, ExtractWithout
  <2> QED
    BY <2>1, <2>2
<1>4. ExtractSimple(v, x) = Read(Advance(v, Len(e)), x.items) /\ Len(e) \in Nat /\ Len(e) <= v.size
  BY <1>1, <1>2, <1>3, BytesRead, HeldLength
<1> QED
  BY <1>2, <1>4, ReadsAs, SaysItems, FitsAlways

-----------------------------------------------------------------------------
(* Numbers in text *)

LEMMA DigitsParsed ==
    ASSUME NEW n, InDigits(n)
    PROVE  /\ ParsedDigits(Digits(n)) = n
           /\ Digits(n) \in Seq(48..57) /\ Len(Digits(n)) \in Nat \ {0}
<1> DEFINE m == Max(Places(n))
           s == Digits(n)
           F(h) == [i \in 0..m |-> IF i = 0 THEN 0 ELSE 10 * h[i - 1] + (s[i] - 48)]
           f == CHOOSE h : h = F(h)
           g == [i \in 0..m |-> Shifted(n, 10, m - i)]
<1>1. n \in Nat /\ n \in Int /\ Shifted(n, 10, 10) = 0
  BY DEF InDigits
<1>2. /\ m \in 1..10 /\ m \in Places(n) /\ \A k \in Places(n) : k <= m
      /\ s = [i \in 1..m |-> 48 + (Shifted(n, 10, m - i) % 10)]
      /\ s \in Seq(48..57) /\ Len(s) = m
  BY <1>1, DigitsFacts
<1>3. /\ Shifted(n, 10, 0) = n
      /\ \A k \in Nat : /\ Shifted(n, 10, k) \in Int
                        /\ Shifted(n, 10, k + 1) = Shifted(n, 10, k) \div 10
  <2>1. 10 \in Nat \ {0}
    OBVIOUS
  <2> QED
    BY <1>1, <2>1, ShiftedSteps
<1>4. \A k \in 0..10 : Shifted(n, 10, k) \in Nat
  <2> DEFINE S == {k \in Nat : Shifted(n, 10, k) \in Nat}
  <2>1. 0 \in S
    BY <1>1, <1>3
  <2>2. ASSUME NEW i \in 1..10, i - 1 \in S
        PROVE  i \in S
    <3> DEFINE x == Shifted(n, 10, i - 1)
    <3>1. x \in Nat /\ i \in Nat /\ i - 1 \in Nat /\ (i - 1) + 1 = i
      BY <2>2
    <3>2. Shifted(n, 10, i) = x \div 10
      BY <1>3, <3>1
    <3> HIDE DEF x
    <3>3. x \div 10 \in Nat
      BY <3>1
    <3> QED
      BY <3>1, <3>2, <3>3
  <2> HIDE DEF S
  <2>3. \A i \in 0..10 : i \in S
    BY <2>1, <2>2, UpTo
  <2> QED
    BY <2>3 DEF S
<1>5. Shifted(n, 10, m) = 0
  <2>1. CASE m = 10
    BY <1>1, <2>1
  <2>2. CASE m < 10
    <3>1. m + 1 \in 1..10 /\ (m + 1) - 1 = m /\ m \in 0..10
      BY <1>2, <2>2
    <3>2. ~(m + 1 <= m)
      BY <1>2
    <3>3. m + 1 \notin Places(n)
      BY <1>2, <3>2
    <3>4. ~(Shifted(n, 10, m) > 0)
      BY <3>1, <3>3 DEF Places
    <3> QED
      BY <1>4, <3>1, <3>4
  <2> QED
    BY <1>2, <2>1, <2>2
<1>6. ParsedDigits(Digits(n)) = f[m]
  BY <1>2 DEF ParsedDigits
<1> HIDE DEF m, s
<1>7. g[0] = 0
  <2>1. 0 \in 0..m /\ m - 0 = m
    BY <1>2
  <2> QED
    BY <1>5, <2>1
<1>8. ASSUME NEW i \in 1..m
      PROVE  g[i] = 10 * g[i - 1] + (s[i] - 48)
  <2> DEFINE x == Shifted(n, 10, m - i)
             y == Shifted(n, 10, m - (i - 1))
  <2>1. m - i \in 0..10 /\ m - i \in Nat /\ (m - i) + 1 = m - (i - 1) /\ i \in 0..m /\ i - 1 \in 0..m
    BY <1>2
  <2>2. x \in Nat /\ y = x \div 10 /\ s[i] = 48 + (x % 10)
    BY <1>2, <1>3, <1>4, <2>1
  <2>3. g[i] = x /\ g[i - 1] = y
    BY <2>1
  <2> HIDE DEF x, y, g
  <2>4. x = 10 * (x \div 10) + (x % 10) /\ x % 10 \in 0..9 /\ x \div 10 \in Nat
    BY <2>2
  <2> DEFINE q == x \div 10
             r == x % 10
  <2>5. x = 10 * q + r /\ r \in Nat /\ q \in Nat /\ y = q /\ s[i] = 48 + r
    BY <2>2, <2>4
  <2> HIDE DEF q, r
  <2> QED
    BY <2>3, <2>5
<1>9. g = F(g)
  <2>1. \A i \in 0..m : i # 0 => i \in 1..m
    BY <1>2
  <2>2. \A i \in 0..m : g[i] = IF i = 0 THEN 0 ELSE 10 * g[i - 1] + (s[i] - 48)
    BY <1>7, <1>8, <2>1
  <2>3. g = [i \in 0..m |-> g[i]]
    OBVIOUS
  <2> HIDE DEF g
  <2> QED
    BY <2>2, <2>3
<1> HIDE DEF g
<1>10. f = F(f)
  BY <1>9
<1> HIDE DEF f
<1>11. f[0] = 0 /\ \A i \in 1..m : f[i] = 10 * f[i - 1] + (s[i] - 48)
  <2>1. \A i \in 0..m : f[i] = IF i = 0 THEN 0 ELSE 10 * f[i - 1] + (s[i] - 48)
    BY <1>10
  <2>2. 0 \in 0..m /\ \A i \in 1..m : i \in 0..m /\ i # 0
    BY <1>2
  <2> QED
    BY ONLY <2>1, <2>2, Zenon
<1>12. f[m] = g[m]
  <2>1. SameRule(f, g, m)
    BY <1>7, <1>8, <1>11, Zenon DEF SameRule
  <2>2. m \in Nat /\ m \in 0..m
    BY <1>2
  <2>3. \A i \in 0..m : f[i] = g[i]
    BY <2>1, <2>2, RecursionUnique
  <2> QED
    BY <2>2, <2>3
<1>13. g[m] = n
  <2>1. m \in 0..m /\ m - m = 0
    BY <1>2
  <2> QED
    BY <1>3, <2>1 DEF g
<1> QED
  BY <1>2, <1>6, <1>12, <1>13 DEF s, m

LEMMA UnsignedParsed ==
    ASSUME NEW n, InDigits(n)
    PROVE  Parsed(Digits(n)) = n
<1> DEFINE s == Digits(n)
<1>1. ParsedDigits(s) = n /\ s \in Seq(48..57) /\ Len(s) \in Nat \ {0}
  BY DigitsParsed
<1> HIDE DEF s
<1>2. s[1] # 45
  BY <1>1
<1> QED
  BY <1>1, <1>2 DEF Parsed, s

LEMMA TailOfJoined ==
    ASSUME NEW S, NEW x \in S, NEW s \in Seq(S)
    PROVE  (<<x>> \o s)[1] = x /\ Tail(<<x>> \o s) = s
<1> DEFINE t == <<x>>
           u == t \o s
<1>1. t \in Seq(S) /\ Len(t) = 1 /\ t[1] = x /\ Len(s) \in Nat
  OBVIOUS
<1> HIDE DEF t
<1>2. u \in Seq(S) /\ Len(u) = 1 + Len(s) /\ u[1] = x /\ \A i \in 1..Len(s) : u[i + 1] = s[i]
  <2>1. /\ t \o s \in Seq(S) /\ Len(t \o s) = Len(t) + Len(s)
        /\ \A i \in 1..(Len(t) + Len(s)) : (t \o s)[i] = IF i <= Len(t) THEN t[i] ELSE s[i - Len(t)]
    BY <1>1, ConcatProperties
  <2>2. /\ u \in Seq(S) /\ Len(u) = 1 + Len(s)
        /\ \A i \in 1..(1 + Len(s)) : u[i] = IF i <= 1 THEN t[i] ELSE s[i - 1]
    BY <1>1, <2>1
  <2>3. ASSUME NEW i \in 1..Len(s)
        PROVE  u[i + 1] = s[i]
    <3>1. i + 1 \in 1..(1 + Len(s)) /\ ~(i + 1 <= 1) /\ (i + 1) - 1 = i
      BY <1>1
    <3> QED
      BY <2>2, <3>1
  <2>4. u[1] = x
    BY <1>1, <2>2
  <2> QED
    BY <2>2, <2>3, <2>4
<1> HIDE DEF u
<1>3. Tail(u) \in Seq(S) /\ Len(Tail(u)) = Len(s) /\ \A i \in 1..Len(s) : Tail(u)[i] = s[i]
  BY <1>1, <1>2
<1>4. Tail(u) = s
  BY <1>3, SeqEqual
<1> QED
  BY <1>2, <1>4 DEF u, t

LEMMA SignedParsed ==
    ASSUME NEW n \in Int, InDigits(Magnitude(n)), n # -(Base^WordBytes \div 2)
    PROVE  Parsed(SignedBytes(n)) = n
<1> DEFINE s == Digits(Magnitude(n))
           t == <<45>>
<1>1. ParsedDigits(s) = Magnitude(n) /\ s \in Seq(48..57) /\ s \in Seq(Int)
  <2>1. 48..57 \subseteq Int
    OBVIOUS
  <2> QED
    BY <2>1, DigitsParsed, SeqMonotonic
<1>2. SignedBytes(n) = (IF n < 0 THEN t ELSE <<>>) \o [i \in DOMAIN s |-> s[i]]
  BY DEF SignedBytes
<1>3. Parsed(s) = Magnitude(n)
  BY UnsignedParsed
<1> HIDE DEF s
<1>4. [i \in DOMAIN s |-> s[i]] = s
  BY <1>1
<1>5. t \in Seq(Int) /\ Len(t) = 1 /\ t[1] = 45
  OBVIOUS
<1> HIDE DEF t
<1>6. CASE n < 0
  <2> DEFINE u == t \o s
  <2>1. SignedBytes(n) = u
    BY <1>2, <1>4, <1>6
  <2>2. u[1] = 45 /\ Tail(u) = s
    <3>1. 45 \in Int
      OBVIOUS
    <3> QED
      BY <1>1, <3>1, TailOfJoined DEF t
  <2> HIDE DEF u
  <2>5. Parsed(u) = -ParsedDigits(s)
    BY <2>2 DEF Parsed
  <2> QED
    BY <1>1, <1>6, <2>1, <2>5 DEF Magnitude
<1>7. CASE ~(n < 0)
  <2>1. SignedBytes(n) = s
    BY <1>1, <1>2, <1>4, <1>7
  <2> QED
    BY <1>3, <1>7, <2>1 DEF Magnitude
<1> QED
  BY <1>6, <1>7

LEMMA HexParsed ==
    ASSUME NEW bytes \in Seq(Char)
    PROVE  bytes = [i \in DOMAIN bytes |-> 16 * FromHex(HexBytes(bytes)[2 * i - 1]) + FromHex(HexBytes(bytes)[2 * i])]
<1> DEFINE n == Len(bytes)
           s == HexBytes(bytes)
<1>1. n \in Nat /\ DOMAIN bytes = 1..n /\ \A i \in 1..n : bytes[i] \in 0..255
  BY SeqElements DEF Char, Base
<1>2. \A d \in 0..15 : FromHex(HexDigit(d)) = d
  BY DEF FromHex, HexDigit
<1>3. ASSUME NEW i \in 1..n
      PROVE  bytes[i] = 16 * FromHex(s[2 * i - 1]) + FromHex(s[2 * i])
  <2> DEFINE b == bytes[i]
             q == b \div 16
             r == b % 16
  <2>1. /\ 2 * i - 1 \in 1..(2 * n) /\ 2 * i \in 1..(2 * n) /\ (2 * i - 1) % 2 = 1 /\ (2 * i) % 2 = 0
        /\ ((2 * i - 1) + 1) \div 2 = i /\ (2 * i + 1) \div 2 = i
    BY <1>1
  <2>2. s[2 * i - 1] = HexDigit(q) /\ s[2 * i] = HexDigit(r)
    BY <2>1 DEF HexBytes
  <2>3. b \in 0..255
    BY <1>1
  <2> HIDE DEF b, s
  <2>4. q \in 0..15 /\ r \in 0..15 /\ b = 16 * q + r
    BY <2>3
  <2>5. FromHex(s[2 * i - 1]) = q /\ FromHex(s[2 * i]) = r
    BY <1>2, <2>2, <2>4
  <2> QED
    BY <2>4, <2>5 DEF b
<1>4. bytes = [i \in 1..n |-> bytes[i]]
  BY <1>1
<1> HIDE DEF n, s
<1>5. bytes = [i \in 1..n |-> 16 * FromHex(s[2 * i - 1]) + FromHex(s[2 * i])]
  BY <1>3, <1>4
<1> QED
  BY <1>1, <1>5 DEF s

LEMMA NumbersTextRead ==
    ASSUME NEW v, IsView(v), NEW x, IsSimple(x), x.kind \in {"signed", "unsigned", "hex"}, NEW ahead,
           NEW e, Holds(v, 0, e), SimpleBytes(e, x, ahead)
    PROVE  ReadsSimple(v, ExtractSimple(v, x), x, ahead)
<1>1. x.kind \in Text /\ e = TextBytes(x)
  BY DEF Text, SimpleBytes
<1>2. e \in Seq(Cell) /\ Len(e) = SizeOfSimple(x) /\ LengthAsText(x) = Len(e)
  BY <1>1, SizeOfText, LengthOfText
<1>3. ExtractSimple(v, x) = ExtractBytes(v, Len(e))
  BY <1>2 DEF ExtractSimple, ExtractWithout
<1>4. ExtractSimple(v, x) = Read(Advance(v, Len(e)), e) /\ Len(e) \in Nat /\ Len(e) <= v.size
  BY <1>2, <1>3, BytesRead, HeldLength
<1>5. SaysSimple(x, e, ahead)
  <2>1. CASE x.kind = "signed"
    <3>1. e = SignedBytes(x.items[1])
      BY <1>1, <2>1 DEF TextBytes
    <3>2. x.items[1] \in Int /\ InDigits(Magnitude(x.items[1]))
      BY <2>1 DEF IsSimple, Container, IsNumber, InWidth, Magnitude
    <3>3. x.items[1] # -(Base^WordBytes \div 2) => Parsed(e) = x.items[1]
      BY <3>1, <3>2, SignedParsed
    <3> QED
      BY <2>1, <3>3 DEF SaysSimple
  <2>2. CASE x.kind = "unsigned"
    <3>1. e = Digits(x.items[1])
      BY <1>1, <2>2 DEF TextBytes
    <3>2. InDigits(x.items[1])
      BY <2>2 DEF IsSimple, Container
    <3>3. Parsed(e) = x.items[1]
      BY <3>1, <3>2, UnsignedParsed
    <3> QED
      BY <2>2, <3>3 DEF SaysSimple
  <2>3. CASE x.kind = "hex"
    <3>1. e = HexBytes(x.items)
      BY <1>1, <2>3 DEF TextBytes
    <3>2. x.items \in Seq(Char)
      BY <2>3 DEF IsSimple, Container
    <3>3. x.items = [i \in DOMAIN x.items |-> 16 * FromHex(e[2 * i - 1]) + FromHex(e[2 * i])]
      BY <3>1, <3>2, HexParsed
    <3> QED
      BY <2>3, <3>3 DEF SaysSimple
  <2> QED
    BY <2>1, <2>2, <2>3
<1> QED
  BY <1>2, <1>4, <1>5, ReadsAs, FitsAlways

-----------------------------------------------------------------------------
(* Lines *)

\* A line has no end of a line within it.
IsLine(s) == s \in Seq(Char) /\ \A i \in 1..(Len(s) - 1) : <<s[i], s[i + 1]>> # LineEnd

LEMMA LineHeld ==
    ASSUME NEW v, IsView(v), NEW s, IsLine(s), NEW off \in Nat, Holds(v, off, s \o LineEnd)
    PROVE  /\ Len(s) \in Nat /\ off + Len(s) + 2 <= v.size /\ v.size \in Nat
           /\ Bytes(v, off, Len(s)) = s /\ Bytes(v, off + Len(s), 2) = LineEnd
           /\ \A i \in off..(off + Len(s) - 1) : Bytes(v, i, 2) # LineEnd
<1> DEFINE n == Len(s)
           e == s \o LineEnd
           mem == v.mem
           at == v.at
<1>1. s \in Seq(Char) /\ LineEnd \in Seq(Char) /\ Len(LineEnd) = 2 /\ LineEnd[1] = 13 /\ LineEnd[2] = 10
  <2>1. 13 \in Char /\ 10 \in Char
    BY DEF Char, Base
  <2> QED
    BY <2>1 DEF IsLine, LineEnd
<1>2. s \in Seq(Cell) /\ LineEnd \in Seq(Cell) /\ n \in Nat
  BY <1>1, CharsAreCells
<1>3. Holds(v, off, s) /\ Holds(v, off + n, LineEnd)
  BY <1>2, HoldsBoth
<1>4. v.size \in Nat /\ at \in Nat /\ mem \in Seq(Cell)
  BY ViewFacts
<1>5. Bytes(v, off, n) = s /\ Bytes(v, off + n, 2) = LineEnd /\ (off + n) + 2 <= v.size
  BY <1>1, <1>3 DEF Holds
<1>6. \A i \in 1..n : s[i] = mem[at + off + i]
  <2>1. off + n <= v.size
    BY <1>2, <1>4, <1>5
  <2> QED
    BY <1>2, <1>5, <2>1, SlicesOfViews
<1>7. mem[at + (off + n) + 1] = 13
  <2>1. off + n \in Nat /\ 2 \in Nat /\ 1 \in 1..2
    BY <1>2
  <2>2. Bytes(v, off + n, 2)[1] = mem[at + (off + n) + 1]
    BY <1>5, <2>1, SlicesOfViews
  <2> QED
    BY <1>1, <1>5, <2>2
<1> HIDE DEF n, mem, at
<1>8. ASSUME NEW i \in off..(off + n - 1), Bytes(v, i, 2) = LineEnd
      PROVE  FALSE
  <2>1. i \in Nat /\ 2 \in Nat /\ i + 2 <= v.size /\ 1 \in 1..2 /\ 2 \in 1..2
    BY <1>2, <1>4, <1>5
  <2>2. \A k \in 1..2 : Bytes(v, i, 2)[k] = mem[at + i + k]
    BY <2>1, SlicesOfViews DEF mem, at
  <2>3. mem[at + i + 1] = 13 /\ mem[at + i + 2] = 10
    BY <1>1, <1>8, <2>1, <2>2
  <2>4. CASE i = off + n - 1
    <3>1. at + i + 2 = at + (off + n) + 1
      BY <1>2, <1>4, <2>1, <2>4
    <3> QED
      BY <1>7, <2>3, <3>1
  <2>5. CASE i # off + n - 1
    <3> DEFINE k == (i - off) + 1
    <3>1. k \in 1..(n - 1) /\ k \in 1..n /\ k + 1 \in 1..n
      BY <1>2, <2>1, <2>5
    <3>2. at + off + k = at + i + 1 /\ at + off + (k + 1) = at + i + 2
      BY <1>4, <2>1
    <3> HIDE DEF k
    <3>3. s[k] = 13 /\ s[k + 1] = 10
      BY <1>6, <2>3, <3>1, <3>2
    <3>4. <<s[k], s[k + 1]>> # LineEnd
      BY <3>1 DEF IsLine, n
    <3> QED
      BY <3>3, <3>4 DEF LineEnd
  <2> QED
    BY <2>4, <2>5
<1>9. off + n + 2 <= v.size
  BY <1>2, <1>4, <1>5
<1> QED
  BY <1>2, <1>4, <1>5, <1>8, <1>9 DEF n

LEMMA LineRead ==
    ASSUME NEW v, IsView(v), NEW s, IsLine(s), Holds(v, 0, s \o LineEnd)
    PROVE  /\ ExtractWeb(v) = Read(Advance(v, Len(s) + 2), s)
           /\ Len(s) \in Nat /\ Len(s) + 2 <= v.size /\ v.size \in Nat
<1> DEFINE n == Len(s)
           ends == LineEnds(v, 0, v.size - 2)
<1>1. /\ n \in Nat /\ n + 2 <= v.size /\ v.size \in Nat
      /\ Bytes(v, 0, n) = s /\ Bytes(v, n, 2) = LineEnd
      /\ \A i \in 0..(n - 1) : Bytes(v, i, 2) # LineEnd
  <2>1. 0 \in Nat
    OBVIOUS
  <2>2. /\ n \in Nat /\ 0 + n + 2 <= v.size /\ v.size \in Nat
        /\ Bytes(v, 0, n) = s /\ Bytes(v, 0 + n, 2) = LineEnd
        /\ \A i \in 0..(0 + n - 1) : Bytes(v, i, 2) # LineEnd
    BY <2>1, LineHeld
  <2>3. 0 + n = n
    BY <2>2
  <2> QED
    BY <2>2, <2>3
<1> HIDE DEF n
<1>2. n \in ends /\ ends \subseteq Nat /\ \A i \in ends : n <= i
  <2>1. n \in 0..(v.size - 2)
    BY <1>1
  <2>2. \A i \in 0..(v.size - 2) : i \in Nat /\ (~(n <= i) => i \in 0..(n - 1))
    BY <1>1
  <2>3. n \in ends
    BY <1>1, <2>1 DEF LineEnds
  <2>4. ASSUME NEW i \in ends
        PROVE  i \in Nat /\ n <= i
    <3>1. i \in 0..(v.size - 2) /\ Bytes(v, i, 2) = LineEnd
      BY DEF LineEnds
    <3> QED
      BY <1>1, <2>2, <3>1
  <2> QED
    BY <2>3, <2>4
<1>3. Min(ends) = n
  <2>1. Min(ends) \in ends /\ \A i \in ends : Min(ends) <= i
    BY <1>2, MinFacts
  <2> QED
    BY <1>1, <1>2, <2>1
<1>4. ends # {}
  BY <1>2
<1>5. ExtractWeb(v) = Read(Advance(v, n + 2), s)
  BY <1>1, <1>3, <1>4 DEF ExtractWeb
<1> QED
  BY <1>1, <1>5 DEF n

\* The byte that is written is the line's own.
LEMMA LineModified ==
    ASSUME NEW v, IsView(v), NEW n \in Nat, n + 2 <= v.size, NEW s, Len(s) = n,
           ExtractWeb(v) = Read(Advance(v, n + 2), s)
    PROVE  /\ ExtractWebModify(v).ok /\ ExtractWebModify(v).value = s /\ IsRead(ExtractWebModify(v))
           /\ Consumed(v, ExtractWebModify(v).view, n + 2)
<1> DEFINE u == Advance(v, n + 2)
           line == Read(u, s)
           k == v.at + n + 1
           at1 == v.at + (n + 2)
           size1 == v.size - (n + 2)
           mem1 == [v.mem EXCEPT ![k] = 0]
           w == [mem |-> mem1, at |-> at1, size |-> size1]
<1>1. /\ v.mem \in Seq(Cell) /\ v.at \in Nat /\ v.size \in Nat /\ v.at + v.size <= Len(v.mem) /\ Len(v.mem) \in Nat
      /\ n + 2 \in Nat
  BY ViewFacts
<1>2. u = [mem |-> v.mem, at |-> at1, size |-> size1]
  BY <1>1, Advanced
<1>3. line.view # v
  <2>1. line.view = u /\ u.size = size1
    BY <1>2, ReadFacts
  <2>2. size1 # v.size
    BY <1>1
  <2> QED
    BY <2>1, <2>2
<1>4. ExtractWebModify(v) = [line EXCEPT !.view.mem[v.at + Len(line.value) + 1] = 0]
  BY <1>3 DEF ExtractWebModify
<1>5. v.at + Len(line.value) + 1 = k
  BY ReadFacts
<1>6. k \in 1..Len(v.mem) /\ k \in (v.at + 1)..(v.at + (n + 2)) /\ size1 \in Nat /\ at1 \in Nat /\ at1 + size1 <= Len(v.mem)
  BY <1>1
<1>7. mem1 \in Seq(Cell) /\ Len(mem1) = Len(v.mem) /\ \A i \in 1..Len(v.mem) : i # k => mem1[i] = v.mem[i]
  <2>1. 0 \in Cell
    BY CellFacts DEF Char, Base
  <2> DEFINE mem == v.mem
  <2>2. mem \in Seq(Cell) /\ k \in 1..Len(mem)
    BY <1>1, <1>6
  <2> HIDE DEF k, mem
  <2>3. [mem EXCEPT ![k] = 0] \in Seq(Cell) /\ Len([mem EXCEPT ![k] = 0]) = Len(mem)
    BY <2>1, <2>2
  <2>4. \A i \in 1..Len(mem) : i # k => [mem EXCEPT ![k] = 0][i] = mem[i]
    BY <2>2
  <2> QED
    BY <2>3, <2>4 DEF mem
<1>8. ExtractWebModify(v) = [line EXCEPT !.view.mem[k] = 0]
  BY <1>4, <1>5
<1>9. /\ [line EXCEPT !.view.mem[k] = 0].ok /\ [line EXCEPT !.view.mem[k] = 0].value = s
      /\ [line EXCEPT !.view.mem[k] = 0].view = [u EXCEPT !.mem[k] = 0]
      /\ IsRead([line EXCEPT !.view.mem[k] = 0])
  <2> DEFINE t == TRUE
             z == [u EXCEPT !.mem[k] = 0]
             one == [ok |-> t, view |-> u, value |-> s]
  <2>1. line = one
    BY DEF Read
  <2> HIDE DEF t
  <2>2. one = [ok |-> t, view |-> u, value |-> s]
    OBVIOUS
  <2> HIDE DEF one, u, k
  <2>3. [one EXCEPT !.view.mem[k] = 0] = [ok |-> t, view |-> z, value |-> s]
    BY ONLY <2>2
  <2> HIDE DEF z, line
  <2>4. [line EXCEPT !.view.mem[k] = 0] = [ok |-> t, view |-> z, value |-> s]
    BY <2>1, <2>3
  <2> QED
    BY <2>4 DEF IsRead, t, z
<1>10. [u EXCEPT !.mem[k] = 0] = w
  <2> DEFINE mem == v.mem
  <2>1. u = [mem |-> mem, at |-> at1, size |-> size1] /\ w = [mem |-> [mem EXCEPT ![k] = 0], at |-> at1, size |-> size1]
    BY <1>2
  <2> HIDE DEF u, w, k, at1, size1, mem
  <2> QED
    BY ONLY <2>1
<1>11. Consumed(v, w, n + 2)
  <2>1. IsView(w)
    BY <1>6, <1>7 DEF IsView, Views
  <2>2. \A i \in 1..Len(v.mem) : i \notin (v.at + 1)..(v.at + (n + 2)) => i # k
    BY <1>6
  <2>3. w.mem = mem1 /\ w.at = at1 /\ w.size = size1
    OBVIOUS
  <2> HIDE DEF w, mem1, k
  <2> QED
    BY <1>7, <2>1, <2>2, <2>3 DEF Consumed
<1> QED
  BY <1>8, <1>9, <1>10, <1>11

LEMMA LineValueRead ==
    ASSUME NEW v, IsView(v), NEW x, IsSimple(x), x.kind \in {"line", "line_modify", "line_copy"}, NEW ahead,
           NEW e, Holds(v, 0, e), SimpleBytes(e, x, ahead)
    PROVE  ReadsSimple(v, ExtractSimple(v, x), x, ahead)
<1> DEFINE s == x.items
           n == Len(s) + 2
<1>1. IsLine(s) /\ e = s \o LineEnd /\ x.kind \in Text
  BY DEF IsSimple, Container, IsLine, SimpleBytes, Text, TextBytes
<1>2. ExtractWeb(v) = Read(Advance(v, n), s) /\ Len(s) \in Nat /\ n <= v.size /\ v.size \in Nat
  BY <1>1, LineRead
<1>3. n = SizeOfSimple(x)
  <2>1. Len(TextBytes(x)) = SizeOfSimple(x) /\ TextBytes(x) = e
    BY <1>1, SizeOfText DEF SimpleBytes
  <2>2. Len(s \o LineEnd) = Len(s) + 2
    BY <1>1 DEF IsLine, LineEnd
  <2> QED
    BY <1>1, <2>1, <2>2
<1>4. FitsSimple(x) /\ n \in Nat
  BY <1>2, FitsAlways
<1> HIDE DEF n
<1>5. CASE x.kind = "line"
  <2>1. ExtractSimple(v, x) = ExtractWeb(v)
    BY <1>5 DEF ExtractSimple, DoExtractWeb
  <2>2. SaysSimple(x, s, ahead)
    BY <1>5, SaysItems
  <2> QED
    BY <1>2, <1>3, <1>4, <2>1, <2>2, ReadsAs
<1>6. CASE x.kind = "line_modify"
  <2>1. ExtractSimple(v, x) = ExtractWebModify(v)
    BY <1>6 DEF ExtractSimple, DoExtractWebModify
  <2>2. SaysSimple(x, s, ahead)
    BY <1>6, SaysItems
  <2>3. ExtractWebModify(v).ok /\ ExtractWebModify(v).value = s /\ Consumed(v, ExtractWebModify(v).view, n)
        /\ IsRead(ExtractWebModify(v))
    BY <1>2, LineModified DEF n
  <2> QED
    BY <1>3, <1>4, <2>1, <2>2, <2>3 DEF ReadsSimple
<1>7. CASE x.kind = "line_copy"
  <2> DEFINE part == SubSeq(s, 1, Min({Len(s), x.room - 1}))
  <2>1. ExtractSimple(v, x) = ExtractWebCopy(v, x.room)
    BY <1>7 DEF ExtractSimple, ExtractWithout
  <2>2. ExtractWebCopy(v, x.room) = [Read(Advance(v, n), s) EXCEPT !.value = SubSeq(@, 1, Min({Len(@), x.room - 1}))]
    BY <1>2 DEF ExtractWebCopy
  <2>3. [Read(Advance(v, n), s) EXCEPT !.value = SubSeq(@, 1, Min({Len(@), x.room - 1}))] = [Read(Advance(v, n), s) EXCEPT !.value = part]
    <3>1. Read(Advance(v, n), s).value = s
      BY ReadFacts
    <3> QED
      BY <3>1
  <2>4. ExtractSimple(v, x) = Read(Advance(v, n), part)
    BY <2>1, <2>2, <2>3, ValueOfRead
  <2>5. SaysSimple(x, part, ahead)
    BY <1>7 DEF SaysSimple
  <2> QED
    BY <1>2, <1>3, <1>4, <2>4, <2>5, ReadsAs
<1> QED
  BY <1>5, <1>6, <1>7

-----------------------------------------------------------------------------
(* Containers *)

LEMMA CountedHeld ==
    ASSUME NEW v, IsView(v), NEW off \in Nat, NEW e \in Seq(Cell), Holds(v, off, e), NEW n, InWidth(n, CountBytes),
           NEW parts \in Seq(Seq(Cell)), Counted(e, n, parts)
    PROVE  /\ Count(v, off) = n /\ off + CountBytes <= v.size
           /\ Len(e) = CountBytes + Total(Lengths(parts))
           /\ \E f \in Seq(Cell) : /\ Holds(v, off + CountBytes, f) /\ Joins(f, parts)
                                   /\ Len(f) = Total(Lengths(parts)) /\ Len(f) \in Nat
<1>1. PICK f \in Seq(Cell) : e = Encoded(n, CountBytes) \o f /\ Joins(f, parts)
  BY DEF Counted
<1> DEFINE count == Encoded(n, CountBytes)
<1>2. CountBytes \in Nat \ {0} /\ n \in Int
  BY Widths DEF InWidth
<1>3. count \in Seq(Cell) /\ Len(count) = CountBytes
  BY <1>2, EncodedType, CharsAreCells
<1>4. Holds(v, off, Encoded(n, CountBytes))
  <2>1. Holds(v, off, count \o f)
    BY <1>1
  <2> HIDE DEF count
  <2>2. Holds(v, off, count)
    BY <1>1, <1>3, <2>1, HoldsBoth
  <2> QED
    BY <2>2 DEF count
<1>5. Holds(v, off + CountBytes, f)
  <2>1. Holds(v, off, count \o f)
    BY <1>1
  <2> HIDE DEF count
  <2> QED
    BY <1>1, <1>3, <2>1, HoldsBoth
<1>6. Count(v, off) = n /\ off + CountBytes <= v.size
  BY <1>2, <1>4, NumberHeld DEF Count
<1>7. Len(f) = Total(Lengths(parts)) /\ Len(f) \in Nat
  BY <1>1, JoinsTotal
<1>8. Len(e) = CountBytes + Len(f)
  <2>1. Len(count \o f) = Len(count) + Len(f)
    BY <1>3, SMTT(30)
  <2> QED
    BY <1>1, <1>3, <2>1
<1> QED
  BY <1>1, <1>5, <1>6, <1>7, <1>8

\* At the front of a view.
LEMMA CountedAhead ==
    ASSUME NEW v, IsView(v), NEW e \in Seq(Cell), Holds(v, 0, e), NEW n, InWidth(n, CountBytes),
           NEW parts \in Seq(Seq(Cell)), Counted(e, n, parts)
    PROVE  /\ Count(v, 0) = n /\ CountBytes <= v.size /\ IsView(Advance(v, CountBytes))
           /\ Len(e) = CountBytes + Total(Lengths(parts)) /\ Len(e) <= v.size /\ Len(e) \in Nat
           /\ \E f \in Seq(Cell) : /\ Holds(Advance(v, CountBytes), 0, f) /\ Joins(f, parts)
                                   /\ Advance(Advance(v, CountBytes), Len(f)) = Advance(v, Len(e))
<1> DEFINE u == Advance(v, CountBytes)
<1>0. 0 \in Nat /\ CountBytes \in Nat /\ v.size \in Nat
  BY Widths, ViewFacts
<1>1. /\ Count(v, 0) = n /\ 0 + CountBytes <= v.size
      /\ Len(e) = CountBytes + Total(Lengths(parts))
      /\ \E f \in Seq(Cell) : /\ Holds(v, 0 + CountBytes, f) /\ Joins(f, parts)
                              /\ Len(f) = Total(Lengths(parts)) /\ Len(f) \in Nat
  BY <1>0, CountedHeld
<1>2. PICK f \in Seq(Cell) : /\ Holds(v, 0 + CountBytes, f) /\ Joins(f, parts)
                             /\ Len(f) = Total(Lengths(parts)) /\ Len(f) \in Nat
  BY <1>1
<1>3. CountBytes <= v.size /\ 0 + CountBytes = CountBytes /\ CountBytes - CountBytes = 0 /\ CountBytes <= CountBytes
  BY <1>0, <1>1
<1>4. Consumed(v, u, CountBytes) /\ IsView(u)
  BY <1>0, <1>3, Advanced DEF Consumed
<1>5. Len(e) \in Nat /\ Len(e) <= v.size /\ Len(e) = CountBytes + Len(f)
  BY <1>1, <1>2, HeldLength
<1>6. Advance(u, Len(f)) = Advance(v, Len(e))
  <2>1. CountBytes + Len(f) <= v.size
    BY <1>5
  <2>2. Advance(u, Len(f)) = Advance(v, CountBytes + Len(f))
    BY <1>0, <1>2, <2>1, AdvancedTwice
  <2> QED
    BY <1>5, <2>2
<1> HIDE DEF u
<1>7. Holds(u, 0, f)
  <2>1. Holds(v, CountBytes, f)
    BY <1>2, <1>3
  <2>2. Holds(v, CountBytes, f) <=> Holds(u, CountBytes - CountBytes, f)
    BY <1>0, <1>3, <1>4, HoldsBehind
  <2> QED
    BY <1>3, <2>1, <2>2
<1> QED
  BY <1>1, <1>2, <1>3, <1>4, <1>5, <1>6, <1>7 DEF u

\* What is read of a container, however its type is read.
LEMMA ElementsOf ==
    ASSUME NEW v, IsView(v), NEW e \in Seq(Cell), Holds(v, 0, e), NEW of, NEW items, AreElements(of, items),
           InWidth(Len(items), CountBytes), Counted(e, Len(items), ElementParts(of, items))
    PROVE  /\ Count(v, 0) = Len(items) /\ CountBytes <= v.size /\ Len(items) \in Nat
           /\ Len(e) = CountBytes + Total(Lengths(ElementParts(of, items))) /\ Len(e) <= v.size /\ Len(e) \in Nat
           /\ ExtractElements(Advance(v, CountBytes), of, Len(items)) = Read(Advance(v, Len(e)), items)
           /\ v.size \in Nat /\ Advance(v, CountBytes).mem = v.mem
<1> DEFINE parts == ElementParts(of, items)
           u == Advance(v, CountBytes)
           n == Len(items)
<1>1. parts \in Seq(Seq(Cell)) /\ n \in Nat
  BY ElementPartsFacts
<1>2. /\ Count(v, 0) = n /\ CountBytes <= v.size /\ IsView(u)
      /\ Len(e) = CountBytes + Total(Lengths(parts)) /\ Len(e) <= v.size /\ Len(e) \in Nat
      /\ \E f \in Seq(Cell) : Holds(u, 0, f) /\ Joins(f, parts) /\ Advance(u, Len(f)) = Advance(v, Len(e))
  BY <1>1, CountedAhead
<1>3. PICK f \in Seq(Cell) : Holds(u, 0, f) /\ Joins(f, parts) /\ Advance(u, Len(f)) = Advance(v, Len(e))
  BY <1>2
<1>4. ExtractElements(u, of, n) = Read(Advance(u, Len(f)), items)
  <2> HIDE DEF u
  <2> QED
    BY <1>2, <1>3, ElementsRead
<1>5. v.size \in Nat /\ u.mem = v.mem
  BY <1>2, Widths, ViewFacts, Advanced
<1> QED
  BY <1>1, <1>2, <1>3, <1>4, <1>5

LEMMA ContainerRead ==
    ASSUME NEW v, IsView(v), NEW x, IsSimple(x), x.kind \in Container, NEW ahead,
           NEW e \in Seq(Cell), Holds(v, 0, e), SimpleBytes(e, x, ahead)
    PROVE  ReadsSimple(v, ExtractSimple(v, x), x, ahead)
<1> DEFINE items == x.items
           of == x.of
           n == Len(items)
           k == Len(e)
           all == ExtractElements(Advance(v, CountBytes), of, n)
<1>1. /\ AreElements(of, items) /\ InWidth(n, CountBytes)
      /\ x.kind = "span" => of = "number"
      /\ SizeOfSimple(x) = CountBytes + Total(Lengths(ElementParts(of, items)))
  BY ElementsOfSimple
<1>2. Counted(e, n, ElementParts(of, items))
  BY DEF SimpleBytes
<1>3. /\ Count(v, 0) = n /\ CountBytes <= v.size /\ n \in Nat
      /\ k = CountBytes + Total(Lengths(ElementParts(of, items))) /\ k <= v.size /\ k \in Nat
      /\ all = Read(Advance(v, k), items)
      /\ v.size \in Nat /\ Advance(v, CountBytes).mem = v.mem
  BY <1>1, <1>2, ElementsOf
<1>4. k = SizeOfSimple(x)
  BY <1>1, <1>3
<1>5. ~(v.size < CountBytes) /\ CountBytes \in Nat
  BY <1>3, Widths
<1>6. of = "number" => ~(v.size < CountBytes + WordBytes * n)
  <2> HAVE of = "number"
  <2>1. Total(Lengths(ElementParts(of, items))) = WordBytes * n
    BY <1>1, NumberBytesFacts
  <2> QED
    BY <1>3, <2>1
<1>7. SaysSimple(x, items, ahead)
  BY SaysItems DEF Container
<1> HIDE DEF k, n, items, of
<1>8. all.value = items
  BY <1>3, ReadFacts
<1>9. ASSUME FitsSimple(x), ExtractSimple(v, x) = Read(Advance(v, k), items)
      PROVE  ReadsSimple(v, ExtractSimple(v, x), x, ahead)
  BY <1>3, <1>4, <1>7, <1>9, ReadsAs
<1>10. CASE x.kind \in {"iterator", "list"}
  <2>1. ExtractSimple(v, x) = ExtractContainerList(v, of)
    BY <1>10 DEF ExtractSimple, DoExtractLinear, ExtractWithout, of
  <2>2. ExtractContainerList(v, of) = all
    BY <1>3, <1>5 DEF ExtractContainerList
  <2> QED
    BY <1>3, <1>9, <1>10, <2>1, <2>2, FitsAlways
<1>11. CASE x.kind = "vector"
  <2>1. ExtractSimple(v, x) = IF of = "number" THEN ExtractContainerArrayCopy(v) ELSE ExtractContainerArray(v, of)
    BY <1>11 DEF ExtractSimple, DoExtractReserve, Copied, of
  <2>2. ExtractContainerArray(v, of) = all
    BY <1>3, <1>5 DEF ExtractContainerArray
  <2>3. of = "number" => ExtractContainerArrayCopy(v) = all
    BY <1>3, <1>5, <1>6 DEF ExtractContainerArrayCopy
  <2> QED
    BY <1>3, <1>9, <1>11, <2>1, <2>2, <2>3, FitsAlways
<1>12. CASE x.kind = "span"
  <2>1. ExtractSimple(v, x) = ExtractContainerSpan(v) /\ of = "number"
    BY <1>1, <1>12 DEF ExtractSimple, DoExtractSpan, of
  <2>2. ExtractContainerSpan(v) = all
    BY <1>3, <1>5, <1>6, <2>1 DEF ExtractContainerSpan
  <2> QED
    BY <1>3, <1>9, <1>12, <2>1, <2>2, FitsAlways
<1>13. CASE x.kind = "set"
  <2>1. ExtractSimple(v, x) = ExtractSet(v, of)
    BY <1>13 DEF ExtractSimple, DoExtractSet, of
  <2>2. ExtractContainerList(v, of) = all
    BY <1>3, <1>5 DEF ExtractContainerList
  <2>3. Distinct(items) = items
    <3>1. IsSeq(items) /\ IsInjective(items)
      BY <1>13 DEF IsSimple, Container, items
    <3> QED
      BY <3>1, AllDistinct
  <2>4. ExtractSet(v, of) = [Read(Advance(v, k), items) EXCEPT !.value = Distinct(@)]
    BY <1>3, <2>2 DEF ExtractSet
  <2>5. [Read(Advance(v, k), items) EXCEPT !.value = Distinct(@)] = [Read(Advance(v, k), items) EXCEPT !.value = items]
    BY <2>3, ReadFacts
  <2>6. ExtractSet(v, of) = Read(Advance(v, k), items)
    BY <2>4, <2>5, ValueOfRead
  <2> QED
    BY <1>9, <1>13, <2>1, <2>6, FitsAlways
<1>14. CASE x.kind = "array"
  <2>1. ExtractSimple(v, x) = ExtractArray(v, of, x.room)
    BY <1>14 DEF ExtractSimple, DoExtractArray, of
  <2>2. FitsSimple(x) <=> n <= x.room
    BY <1>14 DEF FitsSimple, n, items
  <2>3. x.room \in Nat
    BY DEF IsSimple
  <2>4. CASE n <= x.room
    <3>1. n \in 0..x.room
      BY <1>3, <2>3, <2>4
    <3>2. ExtractArray(v, of, x.room) = all
      BY <1>3, <1>5, <3>1 DEF ExtractArray
    <3> QED
      BY <1>3, <1>9, <2>1, <2>2, <2>4, <3>2
  <2>5. CASE ~(n <= x.room)
    <3>1. n \notin 0..x.room
      BY <2>5
    <3>2. ExtractArray(v, of, x.room) = Throws(Advance(v, CountBytes))
      BY <1>3, <1>5, <3>1 DEF ExtractArray
    <3> QED
      BY <1>3, <2>1, <2>2, <2>5, <3>2, IsReadFacts DEF ReadsSimple
  <2> QED
    BY <2>4, <2>5
<1> QED
  BY <1>10, <1>11, <1>12, <1>13, <1>14 DEF Container

LEMMA InitializerRead ==
    ASSUME NEW v, IsView(v), NEW x, IsSimple(x), x.kind = "initializer", NEW ahead,
           NEW e \in Seq(Cell), Holds(v, 0, e), SimpleBytes(e, x, ahead)
    PROVE  ReadsSimple(v, ExtractSimple(v, x), x, ahead)
<1> DEFINE items == x.items
           of == x.of
           shown == IF ahead THEN Reverse(items) ELSE items
           parts == ElementParts(of, items)
<1>1. AreElements(of, items) /\ SizeOfSimple(x) = Total(Lengths(parts))
  BY ElementsOfSimple
<1>2. Joins(e, IF ahead THEN Reverse(parts) ELSE parts)
  BY DEF SimpleBytes
<1>3. IsSeq(items)
  BY <1>1 DEF AreElements
<1>4. ExtractSimple(v, x) = ExtractElements(v, of, Len(items))
  BY DEF ExtractSimple, ExtractWithout
<1>5. FitsSimple(x) /\ SaysSimple(x, shown, ahead)
  BY FitsAlways DEF SaysSimple
<1> HIDE DEF items, of
<1>6. /\ AreElements(of, shown) /\ Len(shown) = Len(items)
      /\ Joins(e, ElementParts(of, shown))
      /\ Total(Lengths(ElementParts(of, shown))) = Total(Lengths(parts))
  <2>1. CASE ahead
    <3>1. /\ AreElements(of, Reverse(items)) /\ Len(Reverse(items)) = Len(items)
          /\ Total(Lengths(ElementParts(of, Reverse(items)))) = Total(Lengths(ElementParts(of, items)))
      BY <1>1, ReversedParts
    <3>2. Reverse(ElementParts(of, Reverse(Reverse(items)))) = ElementParts(of, Reverse(items))
      BY <3>1, ReversedParts
    <3>3. Reverse(Reverse(items)) = items
      BY <1>3, ReverseTwice DEF IsSeq
    <3>4. Joins(e, ElementParts(of, Reverse(items)))
      BY <1>2, <2>1, <3>2, <3>3
    <3> QED
      BY <2>1, <3>1, <3>4
  <2>2. CASE ~ahead
    BY <1>1, <1>2, <2>2
  <2> QED
    BY <2>1, <2>2
<1> HIDE DEF shown
<1>7. ExtractSimple(v, x) = Read(Advance(v, Len(e)), shown)
  BY <1>4, <1>6, ElementsRead
<1>8. Len(e) = SizeOfSimple(x) /\ Len(e) \in Nat /\ Len(e) <= v.size
  <2>1. ElementParts(of, shown) \in Seq(Seq(Cell))
    BY <1>6, ElementPartsFacts
  <2>2. Len(e) = Total(Lengths(ElementParts(of, shown)))
    BY <1>6, <2>1, JoinsTotal
  <2> QED
    BY <1>1, <1>6, <2>2, HeldLength
<1> QED
  BY <1>5, <1>7, <1>8, ReadsAs

-----------------------------------------------------------------------------
(* Maps *)

LEMMA ReversedPairs ==
    ASSUME NEW key, NEW of, NEW items, ArePairs(key, of, items)
    PROVE  /\ ArePairs(key, of, Reverse(items))
           /\ Len(Reverse(items)) = Len(items)
           /\ Reverse(PairParts(key, of, Reverse(items))) = PairParts(key, of, items)
           /\ Total(Lengths(PairParts(key, of, Reverse(items)))) = Total(Lengths(PairParts(key, of, items)))
<1> DEFINE n == Len(items)
           back == Reverse(items)
           S == ToSet(items)
           parts == PairParts(key, of, items)
           rest == PairParts(key, of, back)
<1>1. items \in Seq(S)
  BY SeqFacts DEF ArePairs
<1>2. /\ back \in Seq(S) /\ Len(back) = n /\ DOMAIN back = 1..n
      /\ \A i \in 1..n : (n - i) + 1 \in 1..n /\ back[i] = items[(n - i) + 1]
  BY <1>1, ReverseTwice
<1>3. n \in Nat /\ DOMAIN items = 1..n /\ \A i \in 1..n : IsPair(key, of, items[i])
  BY PairPartsFacts
<1>4. \A i \in 1..n : IsPair(key, of, back[i])
  BY <1>2, <1>3
<1>5. IsSeq(back)
  <2>1. \A i \in 1..n : back[i] \in ToSet(back)
    BY <1>2 DEF ToSet
  <2> HIDE DEF back, n
  <2>2. back \in Seq(ToSet(back))
    BY <1>2, <1>3, <2>1
  <2> QED
    BY <2>2 DEF IsSeq
<1>6. ArePairs(key, of, back)
  BY <1>2, <1>4, <1>5 DEF ArePairs
<1>7. /\ parts \in Seq(Seq(Cell)) /\ Len(parts) = n
      /\ \A i \in 1..n : parts[i] = PairBytes(key, of, items[i])
  BY PairPartsFacts
<1>8. /\ rest \in Seq(Seq(Cell)) /\ Len(rest) = n
      /\ \A i \in 1..n : rest[i] = PairBytes(key, of, back[i])
  BY <1>2, <1>6, PairPartsFacts
<1> HIDE DEF n, back, S, parts, rest
<1>9. /\ Reverse(parts) \in Seq(Seq(Cell)) /\ Len(Reverse(parts)) = n /\ DOMAIN Reverse(parts) = 1..n
      /\ Reverse(Reverse(parts)) = parts
      /\ \A i \in 1..n : Reverse(parts)[i] = parts[(n - i) + 1]
  BY <1>7, ReverseTwice
<1>10. rest = Reverse(parts)
  <2>1. ASSUME NEW i \in 1..n
        PROVE  rest[i] = Reverse(parts)[i]
    <3> DEFINE j == (n - i) + 1
    <3>1. j \in 1..n /\ back[i] = items[j]
      BY <1>2
    <3>2. Reverse(parts)[i] = parts[j]
      BY <1>9
    <3> HIDE DEF j
    <3> QED
      BY <1>7, <1>8, <3>1, <3>2
  <2> QED
    BY <1>8, <1>9, <2>1
<1>11. Lengths(parts) \in Seq(Nat) /\ Len(Lengths(parts)) = n /\ \A i \in 1..n : Lengths(parts)[i] = Len(parts[i])
  <2>1. \A i \in 1..n : Len(parts[i]) \in Nat
    BY <1>7
  <2> QED
    BY <1>3, <1>7, <2>1 DEF Lengths
<1>12. Lengths(Reverse(parts)) = Reverse(Lengths(parts))
  <2>1. Lengths(Reverse(parts)) = [i \in 1..n |-> Len(Reverse(parts)[i])]
    BY <1>9 DEF Lengths
  <2>2. Reverse(Lengths(parts)) = [i \in 1..n |-> Lengths(parts)[(n - i) + 1]]
    BY <1>11 DEF Reverse
  <2>3. \A i \in 1..n : Len(Reverse(parts)[i]) = Lengths(parts)[(n - i) + 1]
    BY <1>2, <1>9, <1>11
  <2> QED
    BY <2>1, <2>2, <2>3
<1>13. Total(Lengths(rest)) = Total(Lengths(parts))
  BY <1>10, <1>11, <1>12, TotalReverse
<1> QED
  BY <1>2, <1>6, <1>9, <1>10, <1>13 DEF n, back, parts, rest

\* Each pair is one.
AreTwo(items) == \A i \in DOMAIN items : items[i] = <<items[i][1], items[i][2]>>

LEMMA ReversedTwo ==
    ASSUME NEW items, IsSeq(items), AreTwo(items)
    PROVE  AreTwo(Reverse(items))
<1> DEFINE n == Len(items)
           back == Reverse(items)
           S == ToSet(items)
<1>1. items \in Seq(S) /\ n \in Nat /\ DOMAIN items = 1..n
  BY SeqFacts
<1>2. DOMAIN back = 1..n /\ \A i \in 1..n : (n - i) + 1 \in 1..n /\ back[i] = items[(n - i) + 1]
  BY <1>1, ReverseTwice
<1> HIDE DEF n, back
<1>3. ASSUME NEW i \in 1..n
      PROVE  back[i] = <<back[i][1], back[i][2]>>
  <2> DEFINE j == (n - i) + 1
  <2>1. j \in 1..n /\ back[i] = items[j]
    BY <1>2
  <2> HIDE DEF j
  <2>2. items[j] = <<items[j][1], items[j][2]>>
    BY <1>1, <2>1 DEF AreTwo
  <2> QED
    BY <2>1, <2>2
<1> QED
  BY <1>2, <1>3 DEF AreTwo, back

LEMMA MapRead ==
    ASSUME NEW v, IsView(v), NEW x, IsSimple(x), x.kind = "map", NEW ahead,
           NEW e \in Seq(Cell), Holds(v, 0, e), SimpleBytes(e, x, ahead)
    PROVE  ReadsSimple(v, ExtractSimple(v, x), x, ahead)
<1> DEFINE items == x.items
           key == x.key
           of == x.of
           n == Len(items)
           shown == IF ahead THEN Reverse(items) ELSE items
           parts == PairParts(key, of, items)
           u == Advance(v, CountBytes)
<1>1. ArePairs(key, of, items) /\ InWidth(n, CountBytes) /\ AreTwo(items) /\ SizeOfSimple(x) = CountBytes + Total(Lengths(parts))
  BY MapFacts DEF AreTwo
<1>2. Counted(e, n, IF ahead THEN Reverse(parts) ELSE parts)
  BY DEF SimpleBytes
<1>3. IsSeq(items)
  BY <1>1 DEF ArePairs
<1>4. ExtractSimple(v, x) = ExtractContainerAssociative(v, key, of)
  BY DEF ExtractSimple, DoExtractAssociative
<1>5. FitsSimple(x) /\ SaysSimple(x, shown, ahead)
  BY FitsAlways DEF SaysSimple
<1> HIDE DEF items, of, key
<1>6. /\ ArePairs(key, of, shown) /\ Len(shown) = n /\ AreTwo(shown)
      /\ Counted(e, n, PairParts(key, of, shown))
      /\ Total(Lengths(PairParts(key, of, shown))) = Total(Lengths(parts))
  <2>1. CASE ahead
    <3>1. /\ ArePairs(key, of, Reverse(items)) /\ Len(Reverse(items)) = Len(items)
          /\ Total(Lengths(PairParts(key, of, Reverse(items)))) = Total(Lengths(PairParts(key, of, items)))
      BY <1>1, ReversedPairs
    <3>2. Reverse(PairParts(key, of, Reverse(Reverse(items)))) = PairParts(key, of, Reverse(items))
      BY <3>1, ReversedPairs
    <3>3. Reverse(Reverse(items)) = items
      BY <1>3, ReverseTwice DEF IsSeq
    <3>4. Counted(e, n, PairParts(key, of, Reverse(items)))
      BY <1>2, <2>1, <3>2, <3>3
    <3>5. AreTwo(Reverse(items))
      BY <1>1, <1>3, ReversedTwo
    <3> QED
      BY <2>1, <3>1, <3>4, <3>5
  <2>2. CASE ~ahead
    BY <1>1, <1>2, <2>2
  <2> QED
    BY <2>1, <2>2
<1> HIDE DEF shown, n
<1> DEFINE rest == PairParts(key, of, shown)
<1>7. rest \in Seq(Seq(Cell))
  BY <1>6, PairPartsFacts
<1>8. /\ Count(v, 0) = n /\ CountBytes <= v.size /\ IsView(u)
      /\ Len(e) = CountBytes + Total(Lengths(rest)) /\ Len(e) <= v.size /\ Len(e) \in Nat
      /\ \E f \in Seq(Cell) : Holds(u, 0, f) /\ Joins(f, rest) /\ Advance(u, Len(f)) = Advance(v, Len(e))
  <2>1. Counted(e, n, rest)
    BY <1>6
  <2> HIDE DEF rest
  <2> QED
    BY <1>1, <1>7, <2>1, CountedAhead
<1>9. PICK f \in Seq(Cell) : Holds(u, 0, f) /\ Joins(f, rest) /\ Advance(u, Len(f)) = Advance(v, Len(e))
  BY <1>8
<1>10. ExtractPairs(u, key, of, n) = Read(Advance(v, Len(e)), shown)
  <2>1. Joins(f, PairParts(key, of, shown)) /\ \A i \in DOMAIN shown : shown[i] = <<shown[i][1], shown[i][2]>>
    BY <1>6, <1>9 DEF AreTwo
  <2> HIDE DEF u
  <2>2. ExtractPairs(u, key, of, Len(shown)) = Read(Advance(u, Len(f)), shown)
    BY <1>6, <1>8, <1>9, <2>1, PairsRead, SMTT(30)
  <2> QED
    BY <1>6, <1>9, <2>2
<1>11. ExtractContainerAssociative(v, key, of) = ExtractPairs(u, key, of, n)
  <2>1. ~(v.size < CountBytes)
    BY <1>8, Widths, ViewFacts
  <2> QED
    BY <1>8, <2>1 DEF ExtractContainerAssociative
<1>12. Len(e) = SizeOfSimple(x)
  BY <1>1, <1>6, <1>8
<1> QED
  BY <1>4, <1>5, <1>8, <1>10, <1>11, <1>12, ReadsAs

-----------------------------------------------------------------------------
(* Any value without members *)

LEMMA SimpleRead ==
    ASSUME NEW v, IsView(v), NEW x, IsMember(x), x.kind \notin AtTheBack, NEW ahead,
           NEW e \in Seq(Cell), Holds(v, 0, e), SimpleBytes(e, x, ahead)
    PROVE  ReadsSimple(v, ExtractSimple(v, x), x, ahead)
<1>1. CASE x.kind \in {"byte", "number"}
  BY <1>1, NumberValueRead
<1>2. CASE x.kind \notin {"byte", "number"}
  <2>1. IsSimple(x)
    BY <1>2 DEF IsMember
  <2>2. x.kind \in {"string", "view", "copy", "literal", "buffer", "skip", "initializer", "map", "text", "bytes", "raw",
                    "hex", "signed", "unsigned", "line", "line_modify", "line_copy"} \union Container
    BY <1>2, <2>1, SimpleKinds DEF Text, AtTheBack
  <2>3. CASE x.kind \in {"string", "view", "copy", "literal"}
    BY <2>1, <2>3, StringValueRead
  <2>4. CASE x.kind = "buffer"
    BY <2>1, <2>4, BufferValueRead
  <2>5. CASE x.kind = "skip"
    BY <2>1, <2>5, SkipRead
  <2>6. CASE x.kind = "initializer"
    BY <2>1, <2>6, InitializerRead
  <2>7. CASE x.kind = "map"
    BY <2>1, <2>7, MapRead
  <2>8. CASE x.kind \in {"text", "bytes", "raw"}
    BY <2>1, <2>8, PlainTextRead
  <2>9. CASE x.kind \in {"hex", "signed", "unsigned"}
    BY <2>1, <2>9, NumbersTextRead
  <2>10. CASE x.kind \in {"line", "line_modify", "line_copy"}
    BY <2>1, <2>10, LineValueRead
  <2>11. CASE x.kind \in Container
    BY <2>1, <2>11, ContainerRead
  <2> QED
    BY <2>2, <2>3, <2>4, <2>5, <2>6, <2>7, <2>8, <2>9, <2>10, <2>11
<1> QED
  BY <1>1, <1>2

\* What is read at the back is taken off there.
LEMMA BackRead ==
    ASSUME NEW v, IsView(v), NEW x, IsSimple(x), x.kind \in AtTheBack, NEW e, SimpleBytes(e, x, FALSE),
           NEW off \in Nat, Holds(v, off, e), off + Len(e) = v.size
    PROVE  /\ ExtractSimple(v, x) = Read([mem |-> v.mem, at |-> v.at, size |-> off], x.items)
           /\ FitsSimple(x) /\ SaysSimple(x, x.items, FALSE)
           /\ off + SizeOfSimple(x) = v.size
<1> DEFINE w == [mem |-> v.mem, at |-> v.at, size |-> off]
           n == Len(e)
<1>1. FitsSimple(x) /\ SaysSimple(x, x.items, FALSE)
  BY FitsAlways, SaysItems DEF AtTheBack
<1>2. v = [mem |-> v.mem, at |-> v.at, size |-> v.size] /\ v.size \in Nat
  BY ViewFacts
<1>3. CASE x.kind = "trailer"
  <2>1. /\ e = Encoded(x.items[1], WordBytes) /\ x.items[1] \in Int /\ WordBytes \in Nat \ {0}
        /\ InWidth(x.items[1], WordBytes) /\ Len(e) = WordBytes /\ SizeOfSimple(x) = WordBytes
    BY <1>3, NumberValue DEF SimpleBytes, Width
  <2>2. x.items = <<x.items[1]>>
    <3>1. x.items \in Seq(Int) /\ Len(x.items) = 1
      BY <1>3 DEF IsSimple, IsNumber, Container
    <3> QED
      BY <3>1
  <2>3. Number(v, off, WordBytes) = x.items[1]
    <3>1. Holds(v, off, Encoded(x.items[1], WordBytes))
      BY <2>1
    <3> QED
      BY <2>1, <3>1, NumberHeld
  <2>4. v.size - WordBytes = off /\ ~(v.size < WordBytes)
    BY <1>2, <2>1
  <2>5. [v EXCEPT !.size = @ - WordBytes] = w
    BY <1>2, <2>4
  <2>6. ExtractSimple(v, x) = SubtractGeneral(v, WordBytes)
    BY <1>3 DEF ExtractSimple, ExtractWithout
  <2> HIDE DEF w
  <2>7. SubtractGeneral(v, WordBytes) = Read(w, <<x.items[1]>>)
    BY <2>3, <2>4, <2>5 DEF SubtractGeneral
  <2> QED
    BY <1>1, <2>1, <2>2, <2>6, <2>7 DEF w
<1>4. CASE x.kind = "tail"
  <2>1. x.kind \in Text /\ e = x.items /\ Len(e) = SizeOfSimple(x) /\ e \in Seq(Cell) /\ n \in Nat
    <3>1. x.kind \in Text /\ e = TextBytes(x) /\ TextBytes(x) = x.items
      BY <1>4 DEF Text, SimpleBytes, TextBytes
    <3>2. Len(e) = SizeOfSimple(x) /\ e \in Seq(Cell)
      BY <3>1, SizeOfText
    <3> QED
      BY <3>1, <3>2
  <2>2. Bytes(v, off, n) = x.items
    BY <2>1 DEF Holds
  <2>3. v.size - n = off /\ ~(v.size < n)
    BY <1>2, <2>1
  <2>5. [v EXCEPT !.size = @ - n] = w
    BY <1>2, <2>3
  <2>6. ExtractSimple(v, x) = SubtractBytes(v, n)
    BY <1>4, <2>1 DEF ExtractSimple, ExtractWithout
  <2> HIDE DEF w, n
  <2>7. SubtractBytes(v, n) = Read(w, x.items)
    BY <2>2, <2>3, <2>5 DEF SubtractBytes
  <2> QED
    BY <1>1, <2>1, <2>6, <2>7 DEF w
<1> QED
  BY <1>3, <1>4 DEF AtTheBack

-----------------------------------------------------------------------------
(* Values that are read one after the other *)

LEMMA AppendFacts ==
    ASSUME NEW s, IsSeq(s), NEW y
    PROVE  /\ IsSeq(Append(s, y)) /\ Len(Append(s, y)) = Len(s) + 1 /\ Len(s) \in Nat
           /\ \A i \in 1..Len(s) : Append(s, y)[i] = s[i]
           /\ Append(s, y)[Len(s) + 1] = y
<1> DEFINE S == ToSet(s) \union {y}
           t == Append(s, y)
<1>1. ToSet(s) \subseteq S /\ y \in S /\ s \in Seq(ToSet(s))
  BY DEF IsSeq
<1>2. s \in Seq(S)
  BY <1>1, SeqMonotonic
<1> HIDE DEF S
<1>3. /\ t \in Seq(S) /\ Len(t) = Len(s) + 1 /\ Len(s) \in Nat
      /\ \A i \in 1..Len(s) : t[i] = s[i]
      /\ t[Len(s) + 1] = y
  BY <1>1, <1>2
<1> HIDE DEF t
<1>4. IsSeq(t)
  <2>1. DOMAIN t = 1..Len(t) /\ Len(t) \in Nat
    BY <1>3
  <2>2. \A i \in 1..Len(t) : t[i] \in ToSet(t)
    BY <2>1 DEF ToSet
  <2>3. t = [i \in 1..Len(t) |-> t[i]]
    BY <1>3, <2>1
  <2>4. t \in [1..Len(t) -> ToSet(t)]
    BY <2>2, <2>3
  <2> QED
    BY <2>1, <2>4 DEF IsSeq
<1> QED
  BY <1>3, <1>4 DEF t

LEMMA EmptyIsSeq == IsSeq(<<>>) /\ Len(<<>>) = 0
BY DEF IsSeq

\* w is of the same memory as v, in which only what v sees may have changed.
Within(v, w) ==
    /\ Len(w.mem) = Len(v.mem) /\ w.mem \in Seq(Cell)
    /\ \A i \in 1..Len(v.mem) : i \notin (v.at + 1)..(v.at + v.size) => w.mem[i] = v.mem[i]

LEMMA WithinSame ==
    ASSUME NEW v, IsView(v), NEW w, w.mem = v.mem
    PROVE  Within(v, w)
BY ViewFacts DEF Within

LEMMA WithinBehind ==
    ASSUME NEW v, IsView(v), NEW n \in Nat, NEW u, Consumed(v, u, n), NEW w, Within(u, w)
    PROVE  Within(v, w)
<1> DEFINE vm == v.mem
           um == u.mem
           wm == w.mem
           z == Len(vm)
<1>1. /\ n <= v.size /\ u.at = v.at + n /\ u.size = v.size - n /\ Len(um) = z
      /\ \A i \in 1..z : i \notin (v.at + 1)..(v.at + n) => um[i] = vm[i]
  BY DEF Consumed
<1>2. /\ Len(wm) = Len(um) /\ wm \in Seq(Cell)
      /\ \A i \in 1..Len(um) : i \notin (u.at + 1)..(u.at + u.size) => wm[i] = um[i]
  BY DEF Within
<1>3. v.at \in Nat /\ v.size \in Nat /\ z \in Nat
  BY ViewFacts
<1> HIDE DEF vm, um, wm, z
<1>4. ASSUME NEW i \in 1..z, i \notin (v.at + 1)..(v.at + v.size)
      PROVE  wm[i] = vm[i]
  <2>1. i \notin (v.at + 1)..(v.at + n) /\ i \notin (u.at + 1)..(u.at + u.size)
    BY <1>1, <1>3, <1>4
  <2> QED
    BY <1>1, <1>2, <2>1
<1> QED
  BY <1>1, <1>2, <1>4 DEF Within, vm, wm, z

LEMMA BehindWithin ==
    ASSUME NEW v, IsView(v), NEW n \in Nat, NEW u, Consumed(v, u, n)
    PROVE  Within(v, u)
<1>1. IsView(u)
  BY DEF Consumed
<1>2. Within(u, u)
  BY <1>1, WithinSame
<1> QED
  BY <1>2, WithinBehind

LEMMA CountedLength ==
    ASSUME NEW e \in Seq(Cell), NEW n \in Int, NEW parts \in Seq(Seq(Cell)), Counted(e, n, parts)
    PROVE  Len(e) = CountBytes + Total(Lengths(parts))
<1>1. PICK f \in Seq(Cell) : e = Encoded(n, CountBytes) \o f /\ Joins(f, parts)
  BY DEF Counted
<1> DEFINE count == Encoded(n, CountBytes)
<1>2. count \in Seq(Cell) /\ Len(count) = CountBytes
  BY Widths, EncodedType, CharsAreCells
<1>3. Len(f) = Total(Lengths(parts))
  BY <1>1, JoinsTotal
<1> HIDE DEF count
<1>4. Len(count \o f) = Len(count) + Len(f)
  BY <1>2
<1> QED
  BY <1>1, <1>2, <1>3, <1>4 DEF count

LEMMA PartsReversed ==
    ASSUME NEW of, NEW items, AreElements(of, items)
    PROVE  /\ ElementParts(of, items) \in Seq(Seq(Cell)) /\ ElementParts(of, Reverse(items)) \in Seq(Seq(Cell))
           /\ Reverse(ElementParts(of, items)) = ElementParts(of, Reverse(items))
           /\ Total(Lengths(ElementParts(of, Reverse(items)))) = Total(Lengths(ElementParts(of, items)))
<1>1. /\ AreElements(of, Reverse(items))
      /\ Total(Lengths(ElementParts(of, Reverse(items)))) = Total(Lengths(ElementParts(of, items)))
  BY ReversedParts
<1>2. Reverse(ElementParts(of, Reverse(Reverse(items)))) = ElementParts(of, Reverse(items))
  BY <1>1, ReversedParts
<1>3. Reverse(Reverse(items)) = items
  BY ReverseTwice DEF AreElements, IsSeq
<1>4. ElementParts(of, items) \in Seq(Seq(Cell)) /\ ElementParts(of, Reverse(items)) \in Seq(Seq(Cell))
  BY <1>1, ElementPartsFacts
<1> QED
  BY <1>1, <1>2, <1>3, <1>4

LEMMA PairsReversed ==
    ASSUME NEW key, NEW of, NEW items, ArePairs(key, of, items)
    PROVE  /\ PairParts(key, of, items) \in Seq(Seq(Cell)) /\ PairParts(key, of, Reverse(items)) \in Seq(Seq(Cell))
           /\ Reverse(PairParts(key, of, items)) = PairParts(key, of, Reverse(items))
           /\ Total(Lengths(PairParts(key, of, Reverse(items)))) = Total(Lengths(PairParts(key, of, items)))
<1>1. /\ ArePairs(key, of, Reverse(items))
      /\ Total(Lengths(PairParts(key, of, Reverse(items)))) = Total(Lengths(PairParts(key, of, items)))
  BY ReversedPairs
<1>2. Reverse(PairParts(key, of, Reverse(Reverse(items)))) = PairParts(key, of, Reverse(items))
  BY <1>1, ReversedPairs
<1>3. Reverse(Reverse(items)) = items
  BY ReverseTwice DEF ArePairs, IsSeq
<1>4. PairParts(key, of, items) \in Seq(Seq(Cell)) /\ PairParts(key, of, Reverse(items)) \in Seq(Seq(Cell))
  BY <1>1, PairPartsFacts
<1> QED
  BY <1>1, <1>2, <1>3, <1>4

\* As many bytes as get_size_of says.
LEMMA SimpleLength ==
    ASSUME NEW x, IsMember(x), NEW ahead, NEW e \in Seq(Cell), SimpleBytes(e, x, ahead)
    PROVE  Len(e) = SizeOfSimple(x)
<1>1. CASE x.kind \in {"byte", "number", "trailer"}
  <2>1. x.items[1] \in Int
    BY <1>1, NumberValue DEF IsMember
  <2>2. Width(x) \in Nat /\ SizeOfSimple(x) = Width(x)
    BY <1>1, Widths DEF Width, SizeOfSimple, SizeOfGeneral, SizeWithout
  <2>3. e = Encoded(x.items[1], Width(x))
    BY <1>1 DEF SimpleBytes
  <2> QED
    BY <2>1, <2>2, <2>3, EncodedType
<1>2. CASE x.kind \notin {"byte", "number", "trailer"}
  <2>1. IsSimple(x)
    BY <1>2 DEF IsMember
  <2>2. x.kind \in {"string", "view", "copy", "literal", "buffer", "skip", "initializer", "map"} \union Text \union Container
    BY <1>2, <2>1, SimpleKinds
  <2>3. CASE x.kind \in {"string", "view", "copy", "literal"}
    BY <2>1, <2>3, StringValue DEF SimpleBytes
  <2>4. CASE x.kind = "buffer"
    <3>1. e = BufferBytes(x.items) /\ x.items \in Seq(Char)
      BY <2>1, <2>4 DEF SimpleBytes, IsSimple, Container, IsSized
    <3> QED
      BY <2>4, <3>1, BufferBytesFacts DEF SizeOfSimple, SizeOfBufferType
  <2>5. CASE x.kind = "skip"
    BY <2>5 DEF SimpleBytes, SizeOfSimple, SizeOfSkip
  <2>6. CASE x.kind \in Text
    BY <2>1, <2>6, SizeOfText DEF SimpleBytes
  <2>7. CASE x.kind \in Container
    <3> DEFINE parts == ElementParts(x.of, x.items)
               n == Len(x.items)
    <3>1. AreElements(x.of, x.items) /\ SizeOfSimple(x) = CountBytes + Total(Lengths(parts)) /\ n \in Int
      BY <2>1, <2>7, ElementsOfSimple
    <3>2. parts \in Seq(Seq(Cell))
      BY <3>1, ElementPartsFacts
    <3>3. Counted(e, n, parts)
      BY <2>7 DEF SimpleBytes
    <3> HIDE DEF parts, n
    <3> QED
      BY <3>1, <3>2, <3>3, CountedLength
  <2>8. CASE x.kind = "initializer"
    <3> DEFINE parts == ElementParts(x.of, x.items)
               back == ElementParts(x.of, Reverse(x.items))
    <3>1. AreElements(x.of, x.items) /\ SizeOfSimple(x) = Total(Lengths(parts))
      BY <2>1, <2>8, ElementsOfSimple
    <3>2. parts \in Seq(Seq(Cell)) /\ back \in Seq(Seq(Cell)) /\ Reverse(parts) = back /\ Total(Lengths(back)) = Total(Lengths(parts))
      BY <3>1, PartsReversed
    <3>3. Joins(e, IF ahead THEN Reverse(parts) ELSE parts)
      BY <2>8 DEF SimpleBytes
    <3> HIDE DEF parts, back
    <3>4. Joins(e, back) \/ Joins(e, parts)
      BY <3>2, <3>3
    <3>5. Len(e) = Total(Lengths(parts))
      BY <3>2, <3>4, JoinsTotal
    <3> QED
      BY <3>1, <3>5
  <2>9. CASE x.kind = "map"
    <3> DEFINE parts == PairParts(x.key, x.of, x.items)
               back == PairParts(x.key, x.of, Reverse(x.items))
               n == Len(x.items)
    <3>1. ArePairs(x.key, x.of, x.items) /\ SizeOfSimple(x) = CountBytes + Total(Lengths(parts)) /\ n \in Int
      BY <2>1, <2>9, MapFacts DEF InWidth
    <3>2. parts \in Seq(Seq(Cell)) /\ back \in Seq(Seq(Cell)) /\ Reverse(parts) = back /\ Total(Lengths(back)) = Total(Lengths(parts))
      BY <3>1, PairsReversed
    <3>3. Counted(e, n, IF ahead THEN Reverse(parts) ELSE parts)
      BY <2>9 DEF SimpleBytes
    <3> HIDE DEF parts, back, n
    <3>4. Counted(e, n, back) \/ Counted(e, n, parts)
      BY <3>2, <3>3
    <3>5. Len(e) = CountBytes + Total(Lengths(parts))
      BY <3>1, <3>2, <3>4, CountedLength
    <3> QED
      BY <3>1, <3>5
  <2> QED
    BY <2>2, <2>3, <2>4, <2>5, <2>6, <2>7, <2>8, <2>9
<1> QED
  BY <1>1, <1>2

-----------------------------------------------------------------------------
(* Members *)

MembersExtracted(g, xs) == \A i \in 1..Len(xs) : g[i] = MemberAfter(g[i - 1], xs[i])

LEMMA ExtractMembersUnfolds ==
    ASSUME NEW v, NEW xs, IsSeq(xs)
    PROVE  \E g : g[0] = Read(v, <<>>) /\ MembersExtracted(g, xs) /\ ExtractMembers(v, xs) = g[Len(xs)]
<1> DEFINE n == Len(xs)
           Upto(g, k) == /\ g = [i \in 0..k |-> g[i]] /\ g[0] = Read(v, <<>>)
                         /\ \A i \in 1..k : g[i] = MemberAfter(g[i - 1], xs[i])
           S == {k \in Nat : \E g : Upto(g, k)}
           F(h) == [i \in 0..n |-> IF i = 0 THEN Read(v, <<>>) ELSE MemberAfter(h[i - 1], xs[i])]
           f == CHOOSE h : h = F(h)
<1>1. n \in Nat
  BY SeqFacts
<1>2. 0 \in S
  <2> DEFINE g == [i \in 0..0 |-> Read(v, <<>>)]
  <2>1. Upto(g, 0)
    OBVIOUS
  <2> QED
    BY <2>1
<1>3. ASSUME NEW i \in 1..n, i - 1 \in S
      PROVE  i \in S
  <2>1. PICK g : Upto(g, i - 1)
    BY <1>3
  <2> DEFINE y == MemberAfter(g[i - 1], xs[i])
             h == [j \in 0..i |-> IF j = i THEN y ELSE g[j]]
  <2>2. i \in Nat /\ \A j \in 0..(i - 1) : j # i /\ j \in 0..i
    OBVIOUS
  <2>3. h[i] = y /\ \A j \in 0..(i - 1) : h[j] = g[j]
    BY <2>2
  <2>4. h = [j \in 0..i |-> h[j]]
    OBVIOUS
  <2> HIDE DEF h
  <2>5. ASSUME NEW j \in 1..i
        PROVE  h[j] = MemberAfter(h[j - 1], xs[j])
    <3>1. CASE j = i
      <4>1. i - 1 \in 0..(i - 1)
        BY <2>2
      <4> QED
        BY <2>3, <3>1, <4>1
    <3>2. CASE j # i
      <4>1. j \in 1..(i - 1) /\ j \in 0..(i - 1) /\ j - 1 \in 0..(i - 1)
        BY <2>2, <3>2
      <4> QED
        BY <2>1, <2>3, <4>1
    <3> QED
      BY <3>1, <3>2
  <2>6. h[0] = Read(v, <<>>)
    <3>1. 0 \in 0..(i - 1)
      BY <2>2
    <3> QED
      BY <2>1, <2>3, <3>1
  <2>7. Upto(h, i)
    BY <2>4, <2>5, <2>6
  <2> HIDE DEF Upto
  <2> QED
    BY <2>2, <2>7
<1> HIDE DEF S
<1>4. \A i \in 0..n : i \in S
  BY <1>1, <1>2, <1>3, UpTo
<1>5. PICK g : Upto(g, n)
  BY <1>1, <1>4 DEF S
<1>6. g = F(g)
  <2>1. \A i \in 0..n : i # 0 => i \in 1..n
    BY <1>1
  <2>2. \A i \in 0..n : g[i] = IF i = 0 THEN Read(v, <<>>) ELSE MemberAfter(g[i - 1], xs[i])
    BY <1>5, <2>1
  <2> QED
    BY <1>5, <2>2
<1>7. f = F(f)
  BY <1>6
<1>8. ExtractMembers(v, xs) = f[n]
  BY DEF ExtractMembers
<1> HIDE DEF f
<1>9. f[0] = Read(v, <<>>) /\ \A i \in 1..n : f[i] = MemberAfter(f[i - 1], xs[i])
  BY <1>1, <1>7
<1> QED
  BY <1>8, <1>9 DEF MembersExtracted

\* Of the first k values everything is said, each with ahead.
SaidUpTo(value, xs, k, ahead) ==
    /\ IsSeq(value) /\ Len(value) = k
    /\ \A i \in 1..k : IsSimple(xs[i]) => SaysSimple(xs[i], value[i], ahead)
FitUpTo(xs, k) == \A i \in 1..k : FitsSimple(xs[i])
ReadsMembers(v, r, xs, k, n, ahead) ==
    /\ IsRead(r)
    /\ FitUpTo(xs, k) => r.ok /\ Consumed(v, r.view, n) /\ SaidUpTo(r.value, xs, k, ahead)
    /\ ~FitUpTo(xs, k) => ~r.ok /\ Within(v, r.view)

LEMMA MemberRead ==
    ASSUME NEW v, IsView(v), NEW xs, AreMembers(xs), NEW ahead, NEW i \in 1..Len(xs), xs[i].kind \notin AtTheBack,
           NEW n \in Nat, NEW e \in Seq(Cell), Holds(v, n, e), SimpleBytes(e, xs[i], ahead), Len(e) = SizeOfSimple(xs[i]),
           NEW r, ReadsMembers(v, r, xs, i - 1, n, ahead)
    PROVE  ReadsMembers(v, MemberAfter(r, xs[i]), xs, i, n + Len(e), ahead)
<1> DEFINE x == xs[i]
           u == r.view
           one == ExtractSimple(u, x)
           k == Len(e)
<1>1. IsMember(x) /\ i \in Nat /\ i - 1 \in Nat /\ i \in 1..i
  BY SeqFacts DEF AreMembers
<1>2. FitUpTo(xs, i) <=> FitUpTo(xs, i - 1) /\ FitsSimple(x)
  <2>1. \A j \in 1..i : j = i \/ j \in 1..(i - 1)
    BY <1>1
  <2>2. \A j \in 1..(i - 1) : j \in 1..i
    BY <1>1
  <2> QED
    BY <1>1, <2>1, <2>2 DEF FitUpTo
<1>3. CASE ~FitUpTo(xs, i - 1)
  <2>1. ~r.ok /\ Within(v, r.view) /\ IsRead(r)
    BY <1>3 DEF ReadsMembers
  <2>2. MemberAfter(r, xs[i]) = r
    BY <2>1 DEF MemberAfter
  <2> QED
    BY <1>2, <1>3, <2>1, <2>2 DEF ReadsMembers
<1>4. CASE FitUpTo(xs, i - 1)
  <2>1. r.ok /\ Consumed(v, u, n) /\ SaidUpTo(r.value, xs, i - 1, ahead)
    BY <1>4 DEF ReadsMembers
  <2>2. MemberAfter(r, xs[i]) = Joined(r, one)
    BY <2>1 DEF MemberAfter
  <2>3. IsView(u) /\ n - n = 0 /\ n <= n
    BY <2>1 DEF Consumed
  <2>4. Holds(u, 0, e)
    <3> HIDE DEF u
    <3>1. Holds(v, n, e) <=> Holds(u, n - n, e)
      BY <2>1, <2>3, HoldsBehind
    <3> QED
      BY <2>3, <3>1
  <2>5. ReadsSimple(u, one, x, ahead)
    <3>1. SimpleBytes(e, x, ahead) /\ x.kind \notin AtTheBack
      OBVIOUS
    <3> HIDE DEF x, u
    <3> QED
      BY <1>1, <2>3, <2>4, <3>1, SimpleRead
  <2> DEFINE z == Append(r.value, one.value)
             both == [ok |-> one.ok, view |-> one.view, value |-> z]
  <2>6. Joined(r, one) = both
    <3>1. one = [ok |-> one.ok, view |-> one.view, value |-> one.value]
      BY <2>5 DEF ReadsSimple, IsRead
    <3> DEFINE a == one.ok
               b == one.view
    <3>2. one = [ok |-> a, view |-> b, value |-> one.value] /\ both = [ok |-> a, view |-> b, value |-> z]
      BY <3>1
    <3>3. Joined(r, one) = [one EXCEPT !.value = z]
      BY DEF Joined
    <3> HIDE DEF one, a, b, z
    <3>4. [one EXCEPT !.value = z] = [ok |-> a, view |-> b, value |-> z]
      BY ONLY <3>2
    <3> QED
      BY <3>2, <3>3, <3>4
  <2>7. IsRead(both) /\ both.ok = one.ok /\ both.view = one.view /\ both.value = z
    BY DEF IsRead
  <2>8. CASE FitsSimple(x)
    <3>1. one.ok /\ Consumed(u, one.view, k) /\ (IsSimple(x) => SaysSimple(x, one.value, ahead))
      BY <2>5, <2>8 DEF ReadsSimple
    <3>2. k \in Nat
      OBVIOUS
    <3>3. Consumed(v, one.view, n + k)
      <4> HIDE DEF one, u, k
      <4> QED
        BY <2>1, <3>1, <3>2, BehindTwice
    <3>4. SaidUpTo(z, xs, i, ahead)
      <4>1. /\ IsSeq(r.value) /\ Len(r.value) = i - 1
            /\ \A j \in 1..(i - 1) : IsSimple(xs[j]) => SaysSimple(xs[j], r.value[j], ahead)
        BY <2>1 DEF SaidUpTo
      <4>2. /\ IsSeq(z) /\ Len(z) = Len(r.value) + 1
            /\ \A j \in 1..Len(r.value) : z[j] = r.value[j]
            /\ z[Len(r.value) + 1] = one.value
        BY <4>1, AppendFacts
      <4> DEFINE val == r.value
                 y == one.value
      <4>3. Len(z) = i /\ z[i] = y /\ \A j \in 1..(i - 1) : z[j] = val[j]
        BY <1>1, <4>1, <4>2
      <4>4. ASSUME NEW j \in 1..i, IsSimple(xs[j])
            PROVE  SaysSimple(xs[j], z[j], ahead)
        <5>1. CASE j = i
          BY <3>1, <4>3, <4>4, <5>1
        <5>2. CASE j # i
          <6>1. j \in 1..(i - 1)
            BY <1>1, <5>2
          <6>2. z[j] = val[j]
            BY <4>3, <6>1
          <6> QED
            BY <4>1, <4>4, <6>1, <6>2
        <5> QED
          BY <5>1, <5>2
      <4> QED
        BY <4>2, <4>3, <4>4 DEF SaidUpTo
    <3> QED
      BY <1>2, <1>4, <2>2, <2>6, <2>7, <2>8, <3>1, <3>3, <3>4 DEF ReadsMembers
  <2>9. CASE ~FitsSimple(x)
    <3>1. ~one.ok /\ one.view.mem = u.mem
      BY <2>5, <2>9 DEF ReadsSimple
    <3>2. Within(u, one.view)
      BY <2>3, <3>1, WithinSame
    <3>3. Within(v, one.view)
      <4> HIDE DEF one, u
      <4> QED
        BY <2>1, <3>2, WithinBehind
    <3> QED
      BY <1>2, <2>2, <2>6, <2>7, <2>9, <3>1, <3>3 DEF ReadsMembers
  <2> QED
    BY <2>8, <2>9
<1> QED
  BY <1>3, <1>4

LEMMA MembersRead ==
    ASSUME NEW v, IsView(v), NEW xs, AreMembers(xs), \A i \in DOMAIN xs : xs[i].kind \notin AtTheBack, NEW ahead,
           NEW e \in Seq(Cell), Holds(v, 0, e), MembersBytes(e, xs, ahead)
    PROVE  ReadsMembers(v, ExtractMembers(v, xs), xs, Len(xs), Len(e), ahead)
<1> DEFINE n == Len(xs)
<1>1. n \in Nat /\ DOMAIN xs = 1..n /\ IsSeq(xs)
  BY MemberSizes DEF AreMembers
<1>2. PICK parts : Joins(e, parts) /\ PartsOf(parts, xs, ahead)
  BY DEF MembersBytes
<1>3. /\ parts \in Seq(Seq(Cell)) /\ Len(parts) = n
      /\ \A i \in 1..n : SimpleBytes(parts[i], xs[i], ahead)
  BY <1>2 DEF PartsOf
<1>4. PICK o \in [0..n -> Nat] : o[0] = 0 /\ o[n] = Len(e) /\ FoundAt(v, 0, o, parts)
  <2>1. 0 \in Nat
    OBVIOUS
  <2> QED
    BY <1>2, <1>3, <2>1, PartsFound
<1>5. PICK g : g[0] = Read(v, <<>>) /\ MembersExtracted(g, xs) /\ ExtractMembers(v, xs) = g[n]
  BY <1>1, ExtractMembersUnfolds
<1> HIDE DEF n
<1> DEFINE S == {i \in Nat : ReadsMembers(v, g[i], xs, i, o[i], ahead)}
<1>6. 0 \in S
  <2>1. FitUpTo(xs, 0) /\ SaidUpTo(<<>>, xs, 0, ahead)
    BY EmptyIsSeq DEF FitUpTo, SaidUpTo
  <2>2. Consumed(v, v, 0)
    <3>1. 0 \in Nat /\ 0 + 0 <= v.size /\ 0 <= v.size
      BY ViewFacts
    <3> QED
      BY <3>1, Advanced, AdvancedTwice
  <2>3. ReadsMembers(v, Read(v, <<>>), xs, 0, 0, ahead)
    BY <2>1, <2>2, ReadFacts, IsReadFacts DEF ReadsMembers
  <2> QED
    BY <1>4, <1>5, <2>3
<1>7. ASSUME NEW i \in 1..n, i - 1 \in S
      PROVE  i \in S
  <2> DEFINE p == parts[i]
             a == o[i - 1]
             b == o[i]
  <2>1. i \in Nat /\ i - 1 \in 0..n /\ i \in 0..n
    BY <1>1
  <2>2. p \in Seq(Cell) /\ SimpleBytes(p, xs[i], ahead) /\ Len(p) \in Nat
    BY <1>3
  <2>3. b = a + Len(p) /\ Holds(v, 0 + a, p) /\ a \in Nat
    BY <1>3, <1>4, <2>1 DEF FoundAt
  <2>4. Holds(v, a, p)
    BY <2>3
  <2>5. IsMember(xs[i]) /\ xs[i].kind \notin AtTheBack
    BY <1>1 DEF AreMembers
  <2>6. ReadsMembers(v, g[i - 1], xs, i - 1, a, ahead)
    BY <1>7
  <2>7. g[i] = MemberAfter(g[i - 1], xs[i])
    BY <1>5 DEF MembersExtracted, n
  <2> HIDE DEF a, b, p, S
  <2>8. Len(p) = SizeOfSimple(xs[i])
    BY <2>2, <2>5, SimpleLength
  <2>9. ReadsMembers(v, g[i], xs, i, a + Len(p), ahead)
    <3>1. i \in 1..Len(xs)
      BY DEF n
    <3> QED
      BY <2>2, <2>3, <2>4, <2>5, <2>6, <2>7, <2>8, <3>1, MemberRead
  <2> QED
    BY <2>1, <2>3, <2>9 DEF S, b
<1> HIDE DEF S
<1>8. \A i \in 0..n : i \in S
  BY <1>1, <1>6, <1>7, UpTo
<1>9. n \in S
  BY <1>1, <1>8
<1> QED
  BY <1>4, <1>5, <1>9 DEF S, n

-----------------------------------------------------------------------------
(* Any value *)

LEMMA MembersLength ==
    ASSUME NEW xs, AreMembers(xs), NEW ahead, NEW e \in Seq(Cell), MembersBytes(e, xs, ahead)
    PROVE  Len(e) = SizeOfMembers(xs)
<1>1. PICK parts : Joins(e, parts) /\ PartsOf(parts, xs, ahead)
  BY DEF MembersBytes
<1>2. /\ parts \in Seq(Seq(Cell)) /\ Len(parts) = Len(xs)
      /\ \A i \in 1..Len(xs) : SimpleBytes(parts[i], xs[i], ahead)
  BY <1>1 DEF PartsOf
<1>3. Len(xs) \in Nat /\ DOMAIN xs = 1..Len(xs) /\ \A i \in 1..Len(xs) : IsMember(xs[i])
  BY MemberSizes DEF AreMembers
<1>4. ASSUME NEW i \in 1..Len(xs)
      PROVE  Len(parts[i]) = SizeOfSimple(xs[i])
  <2> DEFINE p == parts[i]
             x == xs[i]
  <2>1. p \in Seq(Cell) /\ SimpleBytes(p, x, ahead) /\ IsMember(x)
    BY <1>2, <1>3
  <2> HIDE DEF p, x
  <2>2. Len(p) = SizeOfSimple(x)
    BY <2>1, SimpleLength
  <2> QED
    BY <2>2 DEF p, x
<1>5. DOMAIN parts = 1..Len(xs)
  BY <1>2
<1>6. Lengths(parts) = [i \in DOMAIN xs |-> SizeOfSimple(xs[i])]
  BY <1>3, <1>4, <1>5 DEF Lengths
<1>7. Len(e) = Total(Lengths(parts))
  BY <1>1, <1>2, JoinsTotal
<1> QED
  BY <1>6, <1>7 DEF SizeOfMembers

LEMMA SameMembers ==
    ASSUME NEW v, NEW xs, IsSeq(xs), NEW ys, IsSeq(ys), Len(xs) = Len(ys),
           \A i \in 1..Len(xs) : \A u : ExtractSimple(u, xs[i]) = ExtractSimple(u, ys[i])
    PROVE  ExtractMembers(v, xs) = ExtractMembers(v, ys)
<1> DEFINE n == Len(xs)
<1>1. n \in Nat
  BY SeqFacts
<1>2. PICK g : g[0] = Read(v, <<>>) /\ MembersExtracted(g, xs) /\ ExtractMembers(v, xs) = g[Len(xs)]
  BY ExtractMembersUnfolds
<1>3. PICK h : h[0] = Read(v, <<>>) /\ MembersExtracted(h, ys) /\ ExtractMembers(v, ys) = h[Len(ys)]
  BY ExtractMembersUnfolds
<1>4. ASSUME NEW i \in 1..n, g[i - 1] = h[i - 1]
      PROVE  g[i] = h[i]
  <2>1. g[i] = MemberAfter(g[i - 1], xs[i]) /\ h[i] = MemberAfter(h[i - 1], ys[i])
    BY <1>2, <1>3 DEF MembersExtracted
  <2>2. ExtractSimple(g[i - 1].view, xs[i]) = ExtractSimple(g[i - 1].view, ys[i])
    OBVIOUS
  <2> QED
    BY <1>4, <2>1, <2>2 DEF MemberAfter
<1>5. SameRule(g, h, n)
  BY <1>2, <1>3, <1>4 DEF SameRule
<1> HIDE DEF n
<1>6. \A i \in 0..n : g[i] = h[i]
  BY <1>1, <1>5, RecursionUnique
<1>7. g[n] = h[n]
  BY <1>1, <1>6
<1> QED
  BY <1>2, <1>3, <1>7 DEF n

\* r is what was read of x, a value of any kind, at the front of v.
ReadsAny(v, r, x, ahead) ==
    /\ IsRead(r)
    /\ Fits(x) => r.ok /\ Consumed(v, r.view, SizeOfAny(x)) /\ Says(x, r.value, ahead)
    /\ ~Fits(x) => ~r.ok /\ Within(v, r.view)

LEMMA ValuesMembers ==
    ASSUME NEW x, IsValue(x), x.kind \in Composite
    PROVE  /\ AreMembers(x.items) /\ Len(x.items) \in Nat /\ DOMAIN x.items = 1..Len(x.items)
           /\ \A i \in DOMAIN x.items : x.items[i].kind \notin AtTheBack /\ IsSimple(x.items[i])
           /\ Fits(x) <=> FitUpTo(x.items, Len(x.items))
           /\ SizeOfAny(x) = SizeOfMembers(x.items)
           /\ x.kind = "struct" => AreInMemory(x.items)
<1>1. IsSeq(x.items) /\ \A i \in DOMAIN x.items : IsSimple(x.items[i]) /\ x.items[i].kind \notin AtTheBack
  BY DEF IsValue
<1>2. Len(x.items) \in Nat /\ DOMAIN x.items = 1..Len(x.items)
  BY <1>1, SeqFacts
<1>3. AreMembers(x.items)
  BY <1>1 DEF AreMembers, IsMember
<1>4. Fits(x) <=> FitUpTo(x.items, Len(x.items))
  BY <1>2 DEF Fits, FitUpTo
<1>5. SizeOfAny(x) = SizeOfMembers(x.items)
  BY DEF SizeOfAny, Composite, Tuple, Pointer, SizeOfTuple, SizeOfStruct, SizeOfObject, SizeOfPointer
<1>6. x.kind = "struct" => AreInMemory(x.items)
  BY <1>1 DEF IsValue, AreInMemory
<1> QED
  BY <1>1, <1>2, <1>3, <1>4, <1>5, <1>6

LEMMA AnyLength ==
    ASSUME NEW x, IsValue(x), NEW ahead, NEW e \in Seq(Cell), AnyBytes(e, x, ahead)
    PROVE  Len(e) = SizeOfAny(x)
<1>1. CASE x.kind \notin Composite
  <2>1. IsMember(x) /\ SimpleBytes(e, x, ahead)
    BY <1>1 DEF IsValue, IsMember, AnyBytes
  <2>2. SizeOfAny(x) = SizeOfSimple(x)
    BY <1>1 DEF SizeOfAny, Composite, Tuple, Pointer
  <2> QED
    BY <2>1, <2>2, SimpleLength
<1>2. CASE x.kind \in Composite
  <2>1. AreMembers(x.items) /\ SizeOfAny(x) = SizeOfMembers(x.items) /\ (x.kind = "struct" => AreInMemory(x.items))
    BY <1>2, ValuesMembers
  <2>2. CASE x.kind = "struct"
    <3> DEFINE ys == MembersFound(x.items)
    <3>1. AreMembers(ys) /\ SizeOfMembers(ys) = SizeOfMembers(x.items)
      BY <2>1, <2>2, MembersFoundFacts
    <3>2. MembersBytes(e, ys, ahead)
      BY <2>2 DEF AnyBytes
    <3> HIDE DEF ys
    <3>3. Len(e) = SizeOfMembers(ys)
      BY <3>1, <3>2, MembersLength
    <3> QED
      BY <2>1, <3>1, <3>3
  <2>3. CASE x.kind # "struct"
    <3> DEFINE ys == x.items
    <3>1. AreMembers(ys) /\ MembersBytes(e, ys, ahead)
      BY <1>2, <2>1, <2>3 DEF AnyBytes
    <3> HIDE DEF ys
    <3>2. Len(e) = SizeOfMembers(ys)
      BY <3>1, MembersLength
    <3> QED
      BY <2>1, <3>2 DEF ys
  <2> QED
    BY <2>2, <2>3
<1> QED
  BY <1>1, <1>2

LEMMA AnyRead ==
    ASSUME NEW v, IsView(v), NEW x, IsValue(x), x.kind \notin AtTheBack, NEW ahead,
           NEW e \in Seq(Cell), Holds(v, 0, e), AnyBytes(e, x, ahead)
    PROVE  ReadsAny(v, ExtractAny(v, x), x, ahead)
<1> DEFINE r == ExtractAny(v, x)
<1>1. CASE x.kind \notin Composite
  <2>1. IsMember(x) /\ SimpleBytes(e, x, ahead) /\ IsSimple(x)
    BY <1>1 DEF IsValue, IsMember, AnyBytes
  <2>2. SizeOfAny(x) = SizeOfSimple(x) /\ r = ExtractSimple(v, x)
    BY <1>1 DEF SizeOfAny, ExtractAny, Composite, Tuple, Pointer
  <2>3. (Fits(x) <=> FitsSimple(x)) /\ (Says(x, r.value, ahead) <=> SaysSimple(x, r.value, ahead))
    BY <1>1 DEF Fits, Says
  <2> HIDE DEF r
  <2>4. ReadsSimple(v, r, x, ahead)
    BY <2>1, <2>2, SimpleRead
  <2>5. r.view.mem = v.mem => Within(v, r.view)
    BY WithinSame
  <2> QED
    BY <2>1, <2>2, <2>3, <2>4, <2>5 DEF ReadsSimple, ReadsAny, r
<1>2. CASE x.kind \in Composite
  <2> DEFINE xs == x.items
             n == Len(xs)
  <2>1. /\ AreMembers(xs) /\ n \in Nat /\ DOMAIN xs = 1..n
        /\ \A i \in DOMAIN xs : xs[i].kind \notin AtTheBack /\ IsSimple(xs[i])
        /\ (Fits(x) <=> FitUpTo(xs, n))
        /\ SizeOfAny(x) = SizeOfMembers(xs)
        /\ (x.kind = "struct" => AreInMemory(xs))
    BY <1>2, ValuesMembers
  <2>2. r = ExtractMembers(v, xs)
    BY <1>2 DEF ExtractAny, Composite, Tuple, Pointer, DoExtractTuple, DoExtractStruct, DoExtractObject, DoExtractPointer
  <2>3. Len(e) = SizeOfAny(x)
    BY AnyLength
  <2>4. IsSeq(xs)
    BY <2>1 DEF AreMembers
  <2> HIDE DEF r
  <2>5. ASSUME ReadsMembers(v, r, xs, n, Len(e), ahead)
        PROVE  ReadsAny(v, r, x, ahead)
    <3>1. ASSUME Fits(x)
          PROVE  r.ok /\ Consumed(v, r.view, SizeOfAny(x)) /\ Says(x, r.value, ahead)
      <4>1. r.ok /\ Consumed(v, r.view, Len(e)) /\ SaidUpTo(r.value, xs, n, ahead)
        BY <2>1, <2>5, <3>1 DEF ReadsMembers
      <4>2. Len(r.value) = n /\ \A i \in 1..n : SaysSimple(xs[i], r.value[i], ahead)
        BY <2>1, <4>1 DEF SaidUpTo
      <4>3. Says(x, r.value, ahead)
        BY <1>2, <2>1, <4>2 DEF Says
      <4> QED
        BY <2>3, <4>1, <4>3
    <3> QED
      BY <2>1, <2>5, <3>1 DEF ReadsMembers, ReadsAny
  <2>6. CASE x.kind # "struct"
    <3>1. MembersBytes(e, xs, ahead)
      BY <1>2, <2>6 DEF AnyBytes
    <3>2. \A i \in DOMAIN xs : xs[i].kind \notin AtTheBack
      BY <2>1
    <3> HIDE DEF xs, n
    <3>3. ReadsMembers(v, ExtractMembers(v, xs), xs, Len(xs), Len(e), ahead)
      BY <2>1, <3>1, <3>2, MembersRead
    <3> QED
      BY <2>2, <2>5, <3>3 DEF n, r
  <2>7. CASE x.kind = "struct"
    <3> DEFINE ys == MembersFound(xs)
    <3>1. AreMembers(ys) /\ DOMAIN ys = DOMAIN xs /\ AreInMemory(xs)
      BY <2>1, <2>7, MembersFoundFacts
    <3>2. MembersBytes(e, ys, ahead)
      BY <2>7 DEF AnyBytes
    <3>3. IsSeq(ys) /\ Len(ys) = n
      <4>1. IsSeq(ys)
        BY <3>1 DEF AreMembers
      <4> HIDE DEF ys
      <4>2. DOMAIN ys = 1..Len(ys) /\ Len(ys) \in Nat
        BY <4>1, SeqFacts
      <4> QED
        BY <2>1, <3>1, <4>1, <4>2
    <3>4. \A i \in DOMAIN xs : IsSimple(xs[i]) /\ xs[i].kind \in {"byte", "number", "string"}
      BY <3>1 DEF AreInMemory
    <3>5. ASSUME NEW i \in DOMAIN xs
          PROVE  /\ ys[i].kind = xs[i].kind /\ ys[i].kind \in {"byte", "number", "string"}
                 /\ \A u : ExtractSimple(u, xs[i]) = ExtractSimple(u, ys[i])
      <4>1. ys[i] = IF i \in Numbers(xs) THEN [xs[i] EXCEPT !.items = <<Decoded(BytesFound(xs, i))>>] ELSE xs[i]
        BY MembersFoundAre
      <4> DEFINE p == xs[i]
                 q == ys[i]
                 z == <<Decoded(BytesFound(xs, i))>>
      <4>2. CASE i \in Numbers(xs)
        <5>1. HasFields(p) /\ p.kind \in {"byte", "number"}
          BY <3>4, <4>2 DEF IsSimple, Numbers
        <5>2. q = [p EXCEPT !.items = z]
          BY <4>1, <4>2
        <5> HIDE DEF p, q, z
        <5>3. q.kind = p.kind
          BY <5>1, <5>2 DEF HasFields
        <5>4. \A u : ExtractSimple(u, p) = ExtractSimple(u, q)
          BY <5>1, <5>3 DEF ExtractSimple, DoExtractGeneral, Width
        <5> QED
          BY <5>1, <5>3, <5>4 DEF p, q
      <4>3. CASE i \notin Numbers(xs)
        BY <3>4, <4>1, <4>3
      <4> QED
        BY <4>2, <4>3
    <3>6. \A i \in DOMAIN ys : ys[i].kind \notin AtTheBack
      <4>1. ASSUME NEW i \in DOMAIN ys
            PROVE  ys[i].kind \notin AtTheBack
        <5>1. ys[i].kind \in {"byte", "number", "string"}
          BY <3>1, <3>5
        <5> QED
          BY <5>1 DEF AtTheBack
      <4> QED
        BY <4>1
    <3>7. ExtractMembers(v, xs) = ExtractMembers(v, ys)
      <4>1. \A i \in 1..Len(xs) : \A u : ExtractSimple(u, xs[i]) = ExtractSimple(u, ys[i])
        BY <2>1, <3>5
      <4>2. Len(xs) = Len(ys)
        BY <3>3
      <4> HIDE DEF xs, ys
      <4> QED
        BY <2>4, <3>3, <4>1, <4>2, SameMembers
    <3>8. FitUpTo(xs, n) /\ FitUpTo(ys, n)
      <4>1. ASSUME NEW i \in 1..n
            PROVE  FitsSimple(xs[i]) /\ FitsSimple(ys[i])
        <5>1. xs[i].kind \in {"byte", "number", "string"} /\ ys[i].kind \in {"byte", "number", "string"}
          BY <2>1, <3>4, <3>5
        <5> QED
          BY <5>1 DEF FitsSimple
      <4> QED
        BY <4>1 DEF FitUpTo
    <3>9. ReadsMembers(v, r, ys, n, Len(e), ahead)
      <4> HIDE DEF ys
      <4>1. ReadsMembers(v, ExtractMembers(v, ys), ys, Len(ys), Len(e), ahead)
        BY <3>1, <3>2, <3>6, MembersRead
      <4> QED
        BY <2>2, <3>3, <3>7, <4>1
    <3>10. IsRead(r) /\ r.ok /\ Consumed(v, r.view, Len(e)) /\ Len(r.value) = n /\ SaidUpTo(r.value, ys, n, ahead)
      BY <3>8, <3>9 DEF ReadsMembers, SaidUpTo
    <3>11. Fits(x)
      BY <2>1, <3>8
    <3>12. Says(x, r.value, ahead)
      <4>1. ASSUME Found(xs) = LaidOut(xs)
            PROVE  Len(r.value) = n /\ \A i \in 1..n : SaysSimple(xs[i], r.value[i], ahead)
        <5>1. ys = xs
          BY <3>1, <4>1, AllFound
        <5> QED
          BY <2>1, <3>10, <5>1 DEF SaidUpTo
      <4> DEFINE value == r.value
      <4>2. Found(x.items) = LaidOut(x.items) =>
               Len(value) = Len(x.items) /\ \A i \in DOMAIN x.items : SaysSimple(x.items[i], value[i], ahead)
        BY <2>1, <4>1
      <4> HIDE DEF value
      <4>3. Says(x, value, ahead)
        BY <1>2, <2>7, <4>2 DEF Says
      <4> QED
        BY <4>3 DEF value
    <3> QED
      BY <2>3, <3>10, <3>11, <3>12 DEF ReadsAny, r
  <2> QED
    BY <2>6, <2>7
<1> QED
  BY <1>1, <1>2

-----------------------------------------------------------------------------
(* The values of a message *)

ValuesExtracted(g, xs) == \A i \in 1..Len(xs) : g[i] = ValueAfter(g[i - 1], xs[i])

LEMMA ExtractedUnfolds ==
    ASSUME NEW v, NEW xs, IsSeq(xs)
    PROVE  \E g : g[0] = Read(v, <<>>) /\ ValuesExtracted(g, xs) /\ Extracted(v, xs) = g[Len(xs)]
<1> DEFINE n == Len(xs)
           Upto(g, k) == /\ g = [i \in 0..k |-> g[i]] /\ g[0] = Read(v, <<>>)
                         /\ \A i \in 1..k : g[i] = ValueAfter(g[i - 1], xs[i])
           S == {k \in Nat : \E g : Upto(g, k)}
           F(h) == [i \in 0..n |-> IF i = 0 THEN Read(v, <<>>) ELSE ValueAfter(h[i - 1], xs[i])]
           f == CHOOSE h : h = F(h)
<1>1. n \in Nat
  BY SeqFacts
<1>2. 0 \in S
  <2> DEFINE g == [i \in 0..0 |-> Read(v, <<>>)]
  <2>1. Upto(g, 0)
    OBVIOUS
  <2> QED
    BY <2>1
<1>3. ASSUME NEW i \in 1..n, i - 1 \in S
      PROVE  i \in S
  <2>1. PICK g : Upto(g, i - 1)
    BY <1>3
  <2> DEFINE y == ValueAfter(g[i - 1], xs[i])
             h == [j \in 0..i |-> IF j = i THEN y ELSE g[j]]
  <2>2. i \in Nat /\ \A j \in 0..(i - 1) : j # i /\ j \in 0..i
    OBVIOUS
  <2>3. h[i] = y /\ \A j \in 0..(i - 1) : h[j] = g[j]
    BY <2>2
  <2>4. h = [j \in 0..i |-> h[j]]
    OBVIOUS
  <2> HIDE DEF h
  <2>5. ASSUME NEW j \in 1..i
        PROVE  h[j] = ValueAfter(h[j - 1], xs[j])
    <3>1. CASE j = i
      <4>1. i - 1 \in 0..(i - 1)
        BY <2>2
      <4> QED
        BY <2>3, <3>1, <4>1
    <3>2. CASE j # i
      <4>1. j \in 1..(i - 1) /\ j \in 0..(i - 1) /\ j - 1 \in 0..(i - 1)
        BY <2>2, <3>2
      <4> QED
        BY <2>1, <2>3, <4>1
    <3> QED
      BY <3>1, <3>2
  <2>6. h[0] = Read(v, <<>>)
    <3>1. 0 \in 0..(i - 1)
      BY <2>2
    <3> QED
      BY <2>1, <2>3, <3>1
  <2>7. Upto(h, i)
    BY <2>4, <2>5, <2>6
  <2> HIDE DEF Upto
  <2> QED
    BY <2>2, <2>7
<1> HIDE DEF S
<1>4. \A i \in 0..n : i \in S
  BY <1>1, <1>2, <1>3, UpTo
<1>5. PICK g : Upto(g, n)
  BY <1>1, <1>4 DEF S
<1>6. g = F(g)
  <2>1. \A i \in 0..n : i # 0 => i \in 1..n
    BY <1>1
  <2>2. \A i \in 0..n : g[i] = IF i = 0 THEN Read(v, <<>>) ELSE ValueAfter(g[i - 1], xs[i])
    BY <1>5, <2>1
  <2> QED
    BY <1>5, <2>2
<1>7. f = F(f)
  BY <1>6
<1>8. Extracted(v, xs) = f[n]
  BY DEF Extracted
<1> HIDE DEF f
<1>9. f[0] = Read(v, <<>>) /\ \A i \in 1..n : f[i] = ValueAfter(f[i - 1], xs[i])
  BY <1>1, <1>7
<1> QED
  BY <1>8, <1>9 DEF ValuesExtracted

\* Of the values of m the first k are said behind the first c, of which one is z.
SaidOf(value, m, k, c, z) ==
    /\ IsSeq(value) /\ Len(value) = c + k
    /\ c = 1 => value[1] = z
    /\ \A i \in 1..k : Says(m.values[i], value[c + i], i <= m.prepended)
FitsUpTo(m, k) == \A i \in 1..k : Fits(m.values[i])
ReadsValues(v, r, m, k, n, c, z) ==
    /\ IsRead(r)
    /\ FitsUpTo(m, k) => r.ok /\ Consumed(v, r.view, n) /\ SaidOf(r.value, m, k, c, z)
    /\ ~FitsUpTo(m, k) => ~r.ok /\ Within(v, r.view)

LEMMA JoinedFacts ==
    ASSUME NEW r, NEW one, IsRead(one)
    PROVE  /\ IsRead(Joined(r, one)) /\ Joined(r, one).ok = one.ok /\ Joined(r, one).view = one.view
           /\ Joined(r, one).value = Append(r.value, one.value)
<1> DEFINE z == Append(r.value, one.value)
           a == one.ok
           b == one.view
           both == [ok |-> a, view |-> b, value |-> z]
<1>1. one = [ok |-> a, view |-> b, value |-> one.value]
  BY DEF IsRead
<1>2. Joined(r, one) = [one EXCEPT !.value = z]
  BY DEF Joined
<1>3. both = [ok |-> a, view |-> b, value |-> z]
  OBVIOUS
<1>4. IsRead(both) /\ both.ok = a /\ both.view = b /\ both.value = z
  BY DEF IsRead
<1> HIDE DEF a, b, z, both
<1>5. [one EXCEPT !.value = z] = [ok |-> a, view |-> b, value |-> z]
  BY ONLY <1>1
<1>6. Joined(r, one) = both
  BY <1>2, <1>3, <1>5
<1> QED
  BY <1>4, <1>6 DEF a, b, z

LEMMA ValueRead ==
    ASSUME NEW v, IsView(v), NEW m, IsMessage(m), NEW c \in Nat, NEW z, NEW i \in 1..Len(m.values),
           m.values[i].kind \notin AtTheBack,
           NEW n \in Nat, NEW e \in Seq(Cell), Holds(v, n, e), PartOf(e, m, i),
           NEW r, ReadsValues(v, r, m, i - 1, n, c, z)
    PROVE  ReadsValues(v, ValueAfter(r, m.values[i]), m, i, n + Len(e), c, z)
<1> DEFINE x == m.values[i]
           u == r.view
           one == ExtractAny(u, x)
           both == Joined(r, one)
           k == Len(e)
           ahead == i <= m.prepended
<1>1. IsValue(x) /\ i \in Nat /\ i - 1 \in Nat /\ i \in 1..i /\ m.prepended \in Nat
  BY MessageFacts
<1>2. FitsUpTo(m, i) <=> FitsUpTo(m, i - 1) /\ Fits(x)
  <2>1. \A j \in 1..i : j = i \/ j \in 1..(i - 1)
    BY <1>1
  <2>2. \A j \in 1..(i - 1) : j \in 1..i
    BY <1>1
  <2> QED
    BY <1>1, <2>1, <2>2 DEF FitsUpTo
<1>3. AnyBytes(e, x, ahead)
  <2>1. CASE i <= m.prepended
    <3>1. ahead = TRUE
      BY <2>1
    <3> QED
      BY <2>1, <3>1 DEF PartOf
  <2>2. CASE ~(i <= m.prepended)
    <3>1. ahead = FALSE /\ i > m.prepended
      BY <1>1, <2>2
    <3> QED
      BY <3>1 DEF PartOf
  <2> QED
    BY <2>1, <2>2
<1>4. k = SizeOfAny(x) /\ k \in Nat
  <2> HIDE DEF x, ahead
  <2> QED
    BY <1>1, <1>3, AnyLength
<1>5. CASE ~FitsUpTo(m, i - 1)
  <2>1. ~r.ok /\ Within(v, r.view) /\ IsRead(r)
    BY <1>5 DEF ReadsValues
  <2>2. ValueAfter(r, x) = r
    BY <2>1 DEF ValueAfter
  <2> QED
    BY <1>2, <1>5, <2>1, <2>2 DEF ReadsValues
<1>6. CASE FitsUpTo(m, i - 1)
  <2>1. r.ok /\ Consumed(v, u, n) /\ SaidOf(r.value, m, i - 1, c, z)
    BY <1>6 DEF ReadsValues
  <2>2. ValueAfter(r, x) = both
    BY <2>1 DEF ValueAfter
  <2>3. IsView(u) /\ n - n = 0 /\ n <= n
    BY <2>1 DEF Consumed
  <2>4. Holds(u, 0, e)
    <3> HIDE DEF u
    <3>1. Holds(v, n, e) <=> Holds(u, n - n, e)
      BY <2>1, <2>3, HoldsBehind
    <3> QED
      BY <2>3, <3>1
  <2>5. ReadsAny(u, one, x, ahead)
    <3>1. x.kind \notin AtTheBack
      OBVIOUS
    <3> HIDE DEF x, u, ahead
    <3> QED
      BY <1>1, <1>3, <2>3, <2>4, <3>1, AnyRead
  <2>6. /\ IsRead(both) /\ both.ok = one.ok /\ both.view = one.view
        /\ both.value = Append(r.value, one.value)
    <3>1. IsRead(one)
      BY <2>5 DEF ReadsAny
    <3> HIDE DEF one
    <3> QED
      BY <3>1, JoinedFacts
  <2> HIDE DEF both
  <2>7. CASE Fits(x)
    <3>1. one.ok /\ Consumed(u, one.view, k) /\ Says(x, one.value, ahead)
      BY <1>4, <2>5, <2>7 DEF ReadsAny
    <3>2. Consumed(v, one.view, n + k)
      <4> HIDE DEF one, u, k
      <4> QED
        BY <1>4, <2>1, <3>1, BehindTwice
    <3>3. SaidOf(both.value, m, i, c, z)
      <4> DEFINE val == r.value
                 y == one.value
                 t == both.value
      <4>1. /\ IsSeq(val) /\ Len(val) = c + (i - 1) /\ (c = 1 => val[1] = z)
            /\ \A j \in 1..(i - 1) : Says(m.values[j], val[c + j], j <= m.prepended)
        BY <2>1 DEF SaidOf
      <4>2. t = Append(val, y)
        BY <2>6
      <4>3. Says(m.values[i], y, i <= m.prepended)
        BY <3>1
      <4> HIDE DEF val, y, t
      <4>4. /\ IsSeq(t) /\ Len(t) = Len(val) + 1
            /\ \A j \in 1..Len(val) : t[j] = val[j]
            /\ t[Len(val) + 1] = y
        BY <4>1, <4>2, AppendFacts
      <4>5. Len(t) = c + i /\ t[c + i] = y /\ \A j \in 1..(i - 1) : t[c + j] = val[c + j]
        <5>1. Len(val) + 1 = c + i
          BY <1>1, <4>1
        <5>2. \A j \in 1..(i - 1) : c + j \in 1..Len(val)
          BY <1>1, <4>1
        <5> QED
          BY <4>4, <5>1, <5>2
      <4>6. c = 1 => t[1] = z
        <5>1. ASSUME c = 1
              PROVE  t[1] = z
          <6>1. 1 \in 1..Len(val)
            BY <1>1, <4>1, <5>1
          <6> QED
            BY <4>1, <4>4, <5>1, <6>1
        <5> QED
          BY <5>1
      <4>7. ASSUME NEW j \in 1..i
            PROVE  Says(m.values[j], t[c + j], j <= m.prepended)
        <5>1. CASE j = i
          BY <4>3, <4>5, <5>1
        <5>2. CASE j # i
          <6>1. j \in 1..(i - 1)
            BY <1>1, <5>2
          <6>2. t[c + j] = val[c + j]
            BY <4>5, <6>1
          <6> QED
            BY <4>1, <6>1, <6>2
        <5> QED
          BY <5>1, <5>2
      <4> QED
        BY <4>4, <4>5, <4>6, <4>7 DEF SaidOf, t
    <3> QED
      BY <1>2, <1>6, <2>2, <2>6, <2>7, <3>1, <3>2, <3>3 DEF ReadsValues
  <2>8. CASE ~Fits(x)
    <3>1. ~one.ok /\ Within(u, one.view)
      BY <2>5, <2>8 DEF ReadsAny
    <3>2. Within(v, one.view)
      <4> HIDE DEF one, u
      <4> QED
        BY <2>1, <3>1, WithinBehind
    <3> QED
      BY <1>2, <2>2, <2>6, <2>8, <3>1, <3>2 DEF ReadsValues
  <2> QED
    BY <2>7, <2>8
<1> QED
  BY <1>5, <1>6

\* Where the parts are that values were written as.
PartsAt(v, m, n, o, parts) ==
    /\ o[0] = 0
    /\ \A i \in 1..n : /\ parts[i] \in Seq(Cell) /\ PartOf(parts[i], m, i) /\ Holds(v, o[i - 1], parts[i])
                       /\ o[i] = o[i - 1] + Len(parts[i])

LEMMA ValuesRead ==
    ASSUME NEW v, IsView(v), NEW m, IsMessage(m), NEW c \in Nat, NEW z, NEW n \in 0..Len(m.values),
           \A i \in 1..n : m.values[i].kind \notin AtTheBack,
           NEW parts, NEW o \in [0..n -> Nat], PartsAt(v, m, n, o, parts),
           NEW g, ReadsValues(v, g[c], m, 0, 0, c, z),
           \A i \in 1..n : g[c + i] = ValueAfter(g[c + (i - 1)], m.values[i])
    PROVE  ReadsValues(v, g[c + n], m, n, o[n], c, z)
<1> DEFINE S == {i \in Nat : ReadsValues(v, g[c + i], m, i, o[i], c, z)}
<1>1. n \in Nat /\ n <= Len(m.values) /\ Len(m.values) \in Nat
  BY MessageFacts
<1>2. 0 \in S
  <2>1. c + 0 = c /\ o[0] = 0
    BY DEF PartsAt
  <2> QED
    BY <2>1
<1>3. ASSUME NEW i \in 1..n, i - 1 \in S
      PROVE  i \in S
  <2> DEFINE p == parts[i]
             a == o[i - 1]
  <2>1. i \in Nat /\ i - 1 \in 0..n /\ i \in 1..Len(m.values)
    BY <1>1
  <2>2. p \in Seq(Cell) /\ PartOf(p, m, i) /\ Holds(v, a, p) /\ o[i] = a + Len(p) /\ a \in Nat
    BY <2>1 DEF PartsAt
  <2>3. ReadsValues(v, g[c + (i - 1)], m, i - 1, a, c, z)
    BY <1>3
  <2> HIDE DEF p, a, S
  <2>4. ReadsValues(v, ValueAfter(g[c + (i - 1)], m.values[i]), m, i, a + Len(p), c, z)
    BY <2>1, <2>2, <2>3, ValueRead
  <2>5. ReadsValues(v, g[c + i], m, i, o[i], c, z)
    BY <2>2, <2>4
  <2> QED
    BY <2>1, <2>5 DEF S
<1> HIDE DEF S
<1>4. \A i \in 0..n : i \in S
  BY <1>1, <1>2, <1>3, UpTo
<1>5. n \in S
  BY <1>1, <1>4
<1> QED
  BY <1>5 DEF S

LEMMA InOrderFacts ==
    ASSUME NEW xs, IsSeq(xs), EndsAtTheBack(xs)
    PROVE  /\ Len(xs) \in Nat \ {0}
           /\ IsSeq(InOrder(xs)) /\ Len(InOrder(xs)) = Len(xs)
           /\ InOrder(xs)[1] = xs[Len(xs)] /\ xs[Len(xs)].kind \in AtTheBack
           /\ \A i \in 1..(Len(xs) - 1) : InOrder(xs)[1 + i] = xs[i]
<1> DEFINE V == ToSet(xs)
           n == Len(xs)
           s == <<Last(xs)>>
           t == Front(xs)
           ys == InOrder(xs)
<1>1. xs \in Seq(V) /\ n \in Nat /\ DOMAIN xs = 1..n /\ xs # <<>>
  BY SeqFacts DEF EndsAtTheBack
<1> HIDE DEF V
<1>2. n >= 1
  BY <1>1
<1>3. Last(xs) = xs[n] /\ xs[n] \in V
  BY <1>1, <1>2 DEF Last
<1>4. t = SubSeq(xs, 1, n - 1)
  BY DEF Front
<1>5. t \in Seq(V) /\ Len(t) = n - 1 /\ \A i \in 1..(n - 1) : t[i] = xs[i]
  BY <1>1, <1>2, <1>4
<1>6. s \in Seq(V) /\ Len(s) = 1 /\ s[1] = xs[n]
  BY <1>3
<1>7. ys = s \o t
  BY DEF InOrder
<1> HIDE DEF s, t, ys
<1>8. ys \in Seq(V) /\ Len(ys) = 1 + (n - 1) /\ ys[1] = s[1] /\ \A i \in 1..(n - 1) : ys[1 + i] = t[i]
  <2>1. ys \in Seq(V) /\ Len(ys) = Len(s) + Len(t)
    BY <1>5, <1>6, <1>7, ConcatProperties
  <2>2. \A i \in 1..(Len(s) + Len(t)) : ys[i] = IF i <= Len(s) THEN s[i] ELSE t[i - Len(s)]
    BY <1>5, <1>6, <1>7, ConcatProperties
  <2>3. \A i \in 1..(n - 1) : 1 + i \in 1..(1 + (n - 1)) /\ ~(1 + i <= 1) /\ (1 + i) - 1 = i
    BY <1>1
  <2>4. 1 \in 1..(1 + (n - 1))
    BY <1>2, <1>1
  <2> QED
    BY <1>5, <1>6, <2>1, <2>2, <2>3, <2>4
<1>9. IsSeq(ys)
  <2>1. DOMAIN ys = 1..Len(ys) /\ Len(ys) \in Nat /\ ys = [i \in 1..Len(ys) |-> ys[i]]
    BY <1>8, <1>1
  <2>2. \A i \in 1..Len(ys) : ys[i] \in ToSet(ys)
    BY <2>1 DEF ToSet
  <2>3. ys \in [1..Len(ys) -> ToSet(ys)]
    BY <2>1, <2>2
  <2> QED
    BY <2>1, <2>3 DEF IsSeq
<1>10. xs[n].kind \in AtTheBack
  BY <1>3 DEF EndsAtTheBack
<1> QED
  BY <1>1, <1>2, <1>5, <1>6, <1>8, <1>9, <1>10 DEF ys

LEMMA RestoredFacts ==
    ASSUME NEW s, IsSeq(s), Len(s) >= 1
    PROVE  /\ Append(Tail(s), Head(s))[Len(s)] = s[1]
           /\ \A i \in 1..(Len(s) - 1) : Append(Tail(s), Head(s))[i] = s[1 + i]
<1> DEFINE V == ToSet(s)
           n == Len(s)
           t == Tail(s)
<1>1. s \in Seq(V) /\ n \in Nat /\ n >= 1 /\ s # <<>>
  BY SeqFacts
<1> HIDE DEF V
<1>2. Head(s) = s[1] /\ s[1] \in V
  BY <1>1
<1>3. t \in Seq(V) /\ Len(t) = n - 1 /\ \A i \in 1..(n - 1) : t[i] = s[i + 1]
  BY <1>1
<1> HIDE DEF t
<1>4. /\ Len(Append(t, s[1])) = n /\ Append(t, s[1])[n] = s[1]
      /\ \A i \in 1..(n - 1) : Append(t, s[1])[i] = t[i]
  BY <1>1, <1>2, <1>3
<1>5. \A i \in 1..(n - 1) : i + 1 = 1 + i
  BY <1>1
<1> QED
  BY <1>2, <1>3, <1>4, <1>5 DEF t

AllFit(m) == \A k \in DOMAIN m.values : Fits(m.values[k])

\* r is what on_message takes out of v, which is what m says.
HeardAs(v, r, m) ==
    /\ IsRead(r) /\ Within(v, r.view)
    /\ r.ok <=> AllFit(m)
    /\ r.ok => /\ r.view.size = 0
               /\ \A k \in DOMAIN m.values : Says(m.values[k], Restored(m.values, r.value)[k], k <= m.prepended)

LEMMA PartsOfMessage ==
    ASSUME NEW v, IsView(v), NEW m, IsMessage(m), NEW e \in Seq(Cell), Holds(v, 0, e),
           ValuesBytes(e, m, 1, Len(m.values))
    PROVE  \E parts : \E o \in [0..Len(m.values) -> Nat] :
               PartsAt(v, m, Len(m.values), o, parts) /\ o[Len(m.values)] = Len(e)
<1> DEFINE n == Len(m.values)
<1>1. n \in Nat /\ n + 1 - 1 = n
  BY MessageFacts
<1>2. PICK parts \in Seq(Seq(Cell)) : /\ Len(parts) = n + 1 - 1 /\ Joins(e, parts)
                                      /\ \A j \in 1..Len(parts) : PartOf(parts[j], m, 1 + j - 1)
  BY DEF ValuesBytes
<1> HIDE DEF n
<1>3. PICK o \in [0..Len(parts) -> Nat] : o[0] = 0 /\ o[Len(parts)] = Len(e) /\ FoundAt(v, 0, o, parts)
  <2>1. 0 \in Nat
    OBVIOUS
  <2> QED
    BY <1>2, <2>1, PartsFound
<1>4. Len(parts) = n
  BY <1>1, <1>2
<1>5. ASSUME NEW i \in 1..n
      PROVE  /\ parts[i] \in Seq(Cell) /\ PartOf(parts[i], m, i) /\ Holds(v, o[i - 1], parts[i])
             /\ o[i] = o[i - 1] + Len(parts[i])
  <2>1. 1 + i - 1 = i /\ i \in 1..Len(parts) /\ i - 1 \in 0..n
    BY <1>1, <1>4
  <2> DEFINE a == o[i - 1]
  <2>2. a \in Nat
    BY <1>4, <2>1
  <2>3. 0 + a = a
    BY <2>2
  <2> QED
    BY <1>2, <1>3, <2>1, <2>3 DEF FoundAt
<1> QED
  BY <1>3, <1>4, <1>5 DEF PartsAt, n

LEMMA PartsRise ==
    ASSUME NEW v, NEW m, NEW n \in Nat, NEW parts, NEW o \in [0..n -> Nat], PartsAt(v, m, n, o, parts)
    PROVE  \A i \in 0..n : \A j \in 0..i : o[j] <= o[i]
<1> DEFINE S == {i \in Nat : \A j \in 0..i : o[j] <= o[i]}
<1>1. 0 \in S
  <2>1. 0 \in 0..n
    OBVIOUS
  <2>2. o[0] \in Nat /\ \A j \in 0..0 : j = 0
    BY <2>1
  <2> QED
    BY <2>2
<1>2. ASSUME NEW i \in 1..n, i - 1 \in S
      PROVE  i \in S
  <2>1. o[i] = o[i - 1] + Len(parts[i]) /\ parts[i] \in Seq(Cell)
    BY DEF PartsAt
  <2>2. Len(parts[i]) \in Nat
    BY <2>1
  <2> DEFINE a == o[i - 1]
             b == o[i]
             w == Len(parts[i])
  <2>3. a \in Nat /\ b = a + w /\ w \in Nat
    BY <2>1, <2>2
  <2>4. \A j \in 0..(i - 1) : o[j] <= a
    BY <1>2
  <2> HIDE DEF a, w
  <2>5. ASSUME NEW j \in 0..i
        PROVE  o[j] <= b
    <3>1. CASE j = i
      BY <2>3, <3>1
    <3>2. CASE j # i
      <4>1. j \in 0..(i - 1) /\ j \in 0..n
        BY <3>2
      <4> DEFINE d == o[j]
      <4>2. d <= a /\ d \in Nat
        BY <2>4, <4>1
      <4> HIDE DEF d
      <4>3. d <= b
        BY <2>3, <4>2
      <4> QED
        BY <4>3 DEF d
    <3> QED
      BY <3>1, <3>2
  <2> QED
    BY <2>5
<1> HIDE DEF S
<1>3. \A i \in 0..n : i \in S
  BY <1>1, <1>2, UpTo
<1> QED
  BY <1>3 DEF S

LEMMA StartRead ==
    ASSUME NEW v, IsView(v), NEW m
    PROVE  /\ \A z : ReadsValues(v, Read(v, <<>>), m, 0, 0, 0, z)
           /\ \A z : ReadsValues(v, Joined(Read(v, <<>>), Read(v, z)), m, 0, 0, 1, z)
<1>1. FitsUpTo(m, 0)
  BY DEF FitsUpTo
<1>2. Consumed(v, v, 0)
  <2>1. 0 \in Nat /\ 0 + 0 <= v.size /\ 0 <= v.size
    BY ViewFacts
  <2> QED
    BY <2>1, Advanced, AdvancedTwice
<1>3. ASSUME NEW z
      PROVE  ReadsValues(v, Read(v, <<>>), m, 0, 0, 0, z)
  <2>1. SaidOf(<<>>, m, 0, 0, z)
    BY EmptyIsSeq DEF SaidOf
  <2> QED
    BY <1>1, <1>2, <2>1, ReadFacts, IsReadFacts DEF ReadsValues
<1>4. ASSUME NEW z
      PROVE  ReadsValues(v, Joined(Read(v, <<>>), Read(v, z)), m, 0, 0, 1, z)
  <2> DEFINE one == Read(v, z)
             r == Joined(Read(v, <<>>), one)
  <2>1. IsRead(one) /\ one.ok /\ one.view = v /\ one.value = z
    BY ReadFacts, IsReadFacts
  <2>2. Read(v, <<>>).value = <<>>
    BY ReadFacts
  <2> HIDE DEF one
  <2>3. IsRead(r) /\ r.ok /\ r.view = v /\ r.value = Append(<<>>, z)
    BY <2>1, <2>2, JoinedFacts
  <2> HIDE DEF r
  <2>4. SaidOf(r.value, m, 0, 1, z)
    <3>1. IsSeq(Append(<<>>, z)) /\ Len(Append(<<>>, z)) = 0 + 1 /\ Append(<<>>, z)[0 + 1] = z
      BY EmptyIsSeq, AppendFacts
    <3>2. 0 + 1 = 1 /\ 1 + 0 = 1 /\ 1..0 = {}
      OBVIOUS
    <3> QED
      BY <2>3, <3>1, <3>2 DEF SaidOf
  <2> QED
    BY <1>1, <1>2, <2>3, <2>4 DEF ReadsValues, r, one
<1> QED
  BY <1>3, <1>4

LEMMA MessageReadForward ==
    ASSUME NEW v, IsView(v), NEW m, IsMessage(m), ~EndsAtTheBack(m.values),
           NEW e \in Seq(Cell), Holds(v, 0, e), Len(e) = v.size, ValuesBytes(e, m, 1, Len(m.values))
    PROVE  HeardAs(v, Extracted(v, InOrder(m.values)), m)
<1> DEFINE xs == m.values
           n == Len(xs)
           r == Extracted(v, InOrder(xs))
<1>1. n \in Nat /\ DOMAIN xs = 1..n /\ IsSeq(xs)
  BY MessageFacts DEF AreValues
<1>2. InOrder(xs) = xs
  BY DEF InOrder
<1>3. ASSUME NEW i \in 1..n
      PROVE  xs[i].kind \notin AtTheBack
  <2>1. CASE i = n
    <3>1. xs # <<>>
      <4>1. CASE xs = <<>>
        <5>1. n = 0
          BY <4>1
        <5> QED
          BY <5>1
      <4> QED
        BY <4>1
    <3>2. Last(xs) = xs[n]
      BY DEF Last
    <3> QED
      BY <2>1, <3>1, <3>2 DEF EndsAtTheBack
  <2>2. CASE i # n
    <3>1. i \in 1..(Len(m.values) - 1)
      BY <1>1, <2>2
    <3> QED
      BY <3>1 DEF IsMessage
  <2> QED
    BY <2>1, <2>2
<1>4. PICK parts : \E o \in [0..n -> Nat] : PartsAt(v, m, n, o, parts) /\ o[n] = Len(e)
  BY PartsOfMessage
<1>5. PICK o \in [0..n -> Nat] : PartsAt(v, m, n, o, parts) /\ o[n] = Len(e)
  BY <1>4
<1>6. PICK g : g[0] = Read(v, <<>>) /\ ValuesExtracted(g, xs) /\ Extracted(v, xs) = g[n]
  BY <1>1, ExtractedUnfolds
<1>7. ReadsValues(v, r, m, n, v.size, 0, 0)
  <2>1. ReadsValues(v, g[0], m, 0, 0, 0, 0)
    BY <1>6, StartRead
  <2>2. \A i \in 1..n : g[0 + i] = ValueAfter(g[0 + (i - 1)], xs[i])
    <3>1. ASSUME NEW i \in 1..n
          PROVE  g[0 + i] = ValueAfter(g[0 + (i - 1)], xs[i])
      <4>1. 0 + i = i /\ 0 + (i - 1) = i - 1
        OBVIOUS
      <4>2. g[i] = ValueAfter(g[i - 1], xs[i])
        BY <1>6 DEF ValuesExtracted
      <4> QED
        BY <4>1, <4>2
    <3> QED
      BY <3>1
  <2>3. 0 \in Nat /\ n \in 0..Len(m.values)
    BY <1>1
  <2>4. \A i \in 1..n : m.values[i].kind \notin AtTheBack
    BY <1>3
  <2>5. \A i \in 1..n : g[0 + i] = ValueAfter(g[0 + (i - 1)], m.values[i])
    BY <2>2
  <2> HIDE DEF n, r, xs
  <2>6. ReadsValues(v, g[0 + n], m, n, o[n], 0, 0)
    BY <1>5, <2>1, <2>3, <2>4, <2>5, ValuesRead
  <2>7. 0 + n = n
    BY <1>1
  <2> QED
    BY <1>2, <1>5, <1>6, <2>6, <2>7 DEF r
<1>8. AllFit(m) <=> FitsUpTo(m, n)
  BY <1>1 DEF AllFit, FitsUpTo
<1>9. \A y : Restored(xs, y) = y
  BY DEF Restored
<1> HIDE DEF r
<1>10. ASSUME AllFit(m)
       PROVE  HeardAs(v, r, m)
  <2>1. IsRead(r) /\ r.ok /\ Consumed(v, r.view, v.size) /\ SaidOf(r.value, m, n, 0, 0)
    BY <1>7, <1>8, <1>10 DEF ReadsValues
  <2>2. r.view.size = 0 /\ Within(v, r.view)
    <3>1. v.size \in Nat /\ v.size - v.size = 0
      BY ViewFacts
    <3>2. r.view.size = v.size - v.size
      BY <2>1 DEF Consumed
    <3> HIDE DEF n
    <3> QED
      BY <2>1, <3>1, <3>2, BehindWithin
  <2>3. ASSUME NEW k \in 1..n
        PROVE  Says(m.values[k], Restored(m.values, r.value)[k], k <= m.prepended)
    <3>1. Says(m.values[k], r.value[0 + k], k <= m.prepended) /\ 0 + k = k
      BY <2>1 DEF SaidOf
    <3> QED
      BY <1>9, <3>1
  <2> QED
    BY <1>1, <1>10, <2>1, <2>2, <2>3 DEF HeardAs
<1>11. ASSUME ~AllFit(m)
       PROVE  HeardAs(v, r, m)
  BY <1>7, <1>8, <1>11 DEF ReadsValues, HeardAs
<1> QED
  BY <1>10, <1>11 DEF r

LEMMA MessageReadFromTheBack ==
    ASSUME NEW v, IsView(v), NEW m, IsMessage(m), EndsAtTheBack(m.values),
           NEW e \in Seq(Cell), Holds(v, 0, e), Len(e) = v.size, ValuesBytes(e, m, 1, Len(m.values))
    PROVE  HeardAs(v, Extracted(v, InOrder(m.values)), m)
<1> DEFINE xs == m.values
           n == Len(xs)
           k == n - 1
           ys == InOrder(xs)
           r == Extracted(v, ys)
           x == xs[n]
           z == x.items
<1>1. /\ n \in Nat /\ DOMAIN xs = 1..n /\ IsSeq(xs) /\ m.prepended \in Nat /\ m.prepended <= n
      /\ \A i \in 1..m.prepended : CanPrepend(xs[i])
      /\ \A i \in 1..n : IsValue(xs[i])
  BY MessageFacts DEF AreValues
<1>2. /\ n \in Nat \ {0} /\ IsSeq(ys) /\ Len(ys) = n /\ ys[1] = x /\ x.kind \in AtTheBack
      /\ \A i \in 1..k : ys[1 + i] = xs[i]
  BY <1>1, InOrderFacts
<1>3. k \in Nat /\ k \in 0..n /\ n \in 1..n /\ k + 1 = n /\ 1 + k = n /\ k \in 0..n
  BY <1>2
<1>4. PICK parts : \E o \in [0..n -> Nat] : PartsAt(v, m, n, o, parts) /\ o[n] = Len(e)
  BY PartsOfMessage
<1>5. PICK o \in [0..n -> Nat] : PartsAt(v, m, n, o, parts) /\ o[n] = Len(e)
  BY <1>4
<1> DEFINE off == o[k]
           p == parts[n]
           w == [mem |-> v.mem, at |-> v.at, size |-> off]
<1>6. off \in Nat /\ p \in Seq(Cell) /\ PartOf(p, m, n) /\ Holds(v, off, p) /\ off + Len(p) = v.size /\ Len(p) \in Nat
  <2>1. off \in Nat /\ p \in Seq(Cell) /\ PartOf(p, m, n) /\ Holds(v, o[n - 1], p) /\ o[n] = o[n - 1] + Len(p)
    BY <1>3, <1>5 DEF PartsAt
  <2>2. o[n] = v.size /\ o[n - 1] = off
    BY <1>5
  <2> QED
    BY <2>1, <2>2
<1>7. n > m.prepended /\ IsSimple(x) /\ x.kind \notin Composite
  <2>1. x.kind \notin Composite
    BY <1>2 DEF AtTheBack, Composite, Tuple, Pointer
  <2>2. IsSimple(x)
    BY <1>1, <1>3, <2>1 DEF IsValue
  <2>3. ~CanPrepend(x)
    BY <1>2, <2>1 DEF CanPrepend, CanPrependSimple, AtTheBack, Container, Composite
  <2>4. n \notin 1..m.prepended
    BY <1>1, <2>3
  <2> QED
    BY <1>1, <1>3, <2>1, <2>2, <2>4
<1>8. SimpleBytes(p, x, FALSE)
  <2>1. AnyBytes(p, x, FALSE)
    BY <1>6, <1>7 DEF PartOf
  <2> QED
    BY <1>7, <2>1 DEF AnyBytes
<1> HIDE DEF off, p
<1>9. /\ ExtractSimple(v, x) = Read(w, z)
      /\ FitsSimple(x) /\ SaysSimple(x, z, FALSE)
  <2> HIDE DEF x
  <2> QED
    BY <1>2, <1>6, <1>7, <1>8, BackRead
<1>10. ExtractAny(v, x) = Read(w, z) /\ Fits(x) /\ Says(x, z, FALSE)
  BY <1>7, <1>9 DEF ExtractAny, Fits, Says, Composite, Tuple, Pointer
<1>11. PICK g : g[0] = Read(v, <<>>) /\ ValuesExtracted(g, ys) /\ r = g[n]
  BY <1>2, ExtractedUnfolds
<1>12. g[1] = Joined(Read(v, <<>>), Read(w, z))
  <2>1. 1 \in 1..n /\ 1 - 1 = 0
    BY <1>2
  <2>2. g[1] = ValueAfter(g[0], x)
    <3>1. g[1] = ValueAfter(g[1 - 1], ys[1])
      BY <1>2, <1>11, <2>1 DEF ValuesExtracted
    <3> QED
      BY <1>2, <2>1, <3>1
  <2>3. Read(v, <<>>).ok /\ Read(v, <<>>).view = v
    BY ReadFacts
  <2> QED
    BY <1>10, <1>11, <2>2, <2>3 DEF ValueAfter
<1>13. /\ IsView(w) /\ w.mem = v.mem /\ w.at = v.at /\ w.size = off /\ off <= v.size
  BY <1>6, ViewFacts DEF IsView, Views
<1> HIDE DEF w
<1>14. PartsAt(w, m, k, o, parts)
  <2>1. \A i \in 0..n : \A j \in 0..i : o[j] <= o[i]
    BY <1>1, <1>5, PartsRise
  <2>2. ASSUME NEW i \in 1..k
        PROVE  Holds(w, o[i - 1], parts[i])
    <3> DEFINE a == o[i - 1]
               q == parts[i]
    <3>1. Holds(v, a, q) /\ o[i] = a + Len(q)
      BY <1>3, <1>5 DEF PartsAt
    <3>2. o[i] <= off
      BY <1>3, <2>1 DEF off
    <3>3. Bytes(v, a, Len(q)) = q
      BY <3>1 DEF Holds
    <3> HIDE DEF a, q
    <3>4. Bytes(w, a, Len(q)) = q
      BY <1>13, <3>3 DEF Bytes
    <3>5. a + Len(q) <= w.size
      BY <1>13, <3>1, <3>2
    <3> QED
      BY <3>4, <3>5 DEF Holds, a, q
  <2>3. \A i \in 1..k : i \in 1..n
    BY <1>3
  <2> QED
    BY <1>5, <2>2, <2>3 DEF PartsAt
<1>15. ReadsValues(w, r, m, k, off, 1, z)
  <2>1. ReadsValues(w, g[1], m, 0, 0, 1, z)
    <3>1. Joined(Read(v, <<>>), Read(w, z)) = Joined(Read(w, <<>>), Read(w, z))
      <4>1. Read(v, <<>>).value = <<>> /\ Read(w, <<>>).value = <<>>
        BY ReadFacts
      <4> QED
        BY <4>1 DEF Joined
    <3>2. \A y : ReadsValues(w, Joined(Read(w, <<>>), Read(w, y)), m, 0, 0, 1, y)
      BY <1>13, StartRead
    <3> HIDE DEF z
    <3> QED
      BY <1>12, <3>1, <3>2
  <2>2. ASSUME NEW i \in 1..k
        PROVE  g[1 + i] = ValueAfter(g[1 + (i - 1)], m.values[i])
    <3>1. 1 + i \in 1..n /\ (1 + i) - 1 = 1 + (i - 1)
      BY <1>3
    <3>2. g[1 + i] = ValueAfter(g[(1 + i) - 1], ys[1 + i])
      BY <1>2, <1>11, <3>1 DEF ValuesExtracted
    <3> QED
      BY <1>2, <3>1, <3>2
  <2>3. k \in 0..Len(m.values) /\ 1 \in Nat
    BY <1>3
  <2>4. \A i \in 1..k : m.values[i].kind \notin AtTheBack
    BY DEF IsMessage
  <2>5. [i \in 0..k |-> o[i]] \in [0..k -> Nat]
    BY <1>3
  <2> DEFINE u == [i \in 0..k |-> o[i]]
  <2>6. u \in [0..k -> Nat] /\ \A i \in 0..k : u[i] = o[i]
    BY <2>5
  <2> HIDE DEF u
  <2>7. PartsAt(w, m, k, u, parts)
    <3>1. u[0] = 0
      BY <1>3, <1>14, <2>6 DEF PartsAt
    <3>2. \A i \in 1..k : u[i] = o[i] /\ u[i - 1] = o[i - 1]
      <4>1. \A i \in 1..k : i \in 0..k /\ i - 1 \in 0..k
        BY <1>3
      <4> QED
        BY <2>6, <4>1
    <3> QED
      BY <1>14, <3>1, <3>2 DEF PartsAt
  <2> HIDE DEF k, z, r
  <2>8. ReadsValues(w, g[1 + k], m, k, u[k], 1, z)
    BY <1>13, <2>1, <2>2, <2>3, <2>4, <2>6, <2>7, ValuesRead
  <2>9. u[k] = off
    BY <1>3, <2>6 DEF off
  <2> QED
    BY <1>3, <1>11, <2>8, <2>9
<1>16. AllFit(m) <=> FitsUpTo(m, k)
  <2>1. \A i \in 1..n : i = n \/ i \in 1..k
    BY <1>3
  <2>2. \A i \in 1..k : i \in 1..n
    BY <1>3
  <2> QED
    BY <1>1, <1>10, <2>1, <2>2 DEF AllFit, FitsUpTo
<1>17. \A y : Restored(xs, y) = Append(Tail(y), Head(y))
  BY DEF Restored
<1>18. ASSUME NEW u, Within(w, u)
       PROVE  Within(v, u)
  <2> DEFINE vm == v.mem
             um == u.mem
             a == v.at
             s == v.size
  <2>1. Len(um) = Len(vm) /\ um \in Seq(Cell) /\ \A i \in 1..Len(vm) : i \notin (a + 1)..(a + off) => um[i] = vm[i]
    BY <1>13, <1>18 DEF Within
  <2>2. off <= s /\ a \in Nat /\ s \in Nat
    BY <1>13, ViewFacts
  <2> HIDE DEF vm, um, a, s
  <2>3. \A i \in 1..Len(vm) : i \notin (a + 1)..(a + s) => i \notin (a + 1)..(a + off)
    BY <1>6, <2>2
  <2> QED
    BY <2>1, <2>3 DEF Within, vm, um, a, s
<1> HIDE DEF r
<1>19. ASSUME AllFit(m)
       PROVE  HeardAs(v, r, m)
  <2>1. IsRead(r) /\ r.ok /\ Consumed(w, r.view, off) /\ SaidOf(r.value, m, k, 1, z)
    BY <1>15, <1>16, <1>19 DEF ReadsValues
  <2>2. r.view.size = 0 /\ Within(v, r.view)
    <3>1. off - off = 0
      BY <1>6
    <3>2. r.view.size = off - off
      BY <1>13, <2>1 DEF Consumed
    <3>3. Within(w, r.view)
      <4> DEFINE q == r.view
      <4>1. Consumed(w, q, off)
        BY <2>1
      <4> HIDE DEF q
      <4>2. Within(w, q)
        BY <1>6, <1>13, <4>1, BehindWithin
      <4> QED
        BY <4>2 DEF q
    <3> QED
      BY <1>18, <3>1, <3>2, <3>3
  <2> DEFINE val == r.value
  <2>3. /\ IsSeq(val) /\ Len(val) = n /\ val[1] = z
        /\ \A i \in 1..k : Says(m.values[i], val[1 + i], i <= m.prepended)
    BY <1>3, <2>1 DEF SaidOf
  <2> DEFINE t == Append(Tail(val), Head(val))
  <2> HIDE DEF val
  <2>4. t[Len(val)] = val[1] /\ \A i \in 1..(Len(val) - 1) : t[i] = val[1 + i]
    <3>1. Len(val) >= 1
      BY <1>2, <2>3
    <3> QED
      BY <2>3, <3>1, RestoredFacts
  <2> HIDE DEF t
  <2>5. t[n] = z /\ \A i \in 1..k : t[i] = val[1 + i]
    BY <2>3, <2>4
  <2>6. ASSUME NEW i \in 1..n
        PROVE  Says(m.values[i], t[i], i <= m.prepended)
    <3>1. CASE i = n
      <4>1. (i <= m.prepended) = FALSE
        BY <1>1, <1>7, <3>1
      <4>2. Says(m.values[i], t[i], FALSE)
        BY <1>10, <2>5, <3>1
      <4> QED
        BY <4>1, <4>2
    <3>2. CASE i # n
      <4>1. i \in 1..k
        BY <1>3, <3>2
      <4> QED
        BY <2>3, <2>5, <4>1
    <3> QED
      BY <3>1, <3>2
  <2>7. Restored(m.values, r.value) = t
    BY <1>17 DEF t, val
  <2> QED
    BY <1>1, <1>19, <2>1, <2>2, <2>6, <2>7 DEF HeardAs
<1>20. ASSUME ~AllFit(m)
       PROVE  HeardAs(v, r, m)
  BY <1>15, <1>16, <1>18, <1>20 DEF ReadsValues, HeardAs
<1> QED
  BY <1>19, <1>20 DEF r

LEMMA MessageRead ==
    ASSUME NEW v, IsView(v), NEW m, IsMessage(m),
           NEW e \in Seq(Cell), Holds(v, 0, e), Len(e) = v.size, ValuesBytes(e, m, 1, Len(m.values))
    PROVE  HeardAs(v, Extracted(v, InOrder(m.values)), m)
BY MessageReadForward, MessageReadFromTheBack

-----------------------------------------------------------------------------
(* What is on its way *)

Rises(o, n) == \A i \in 1..n : o[i - 1] <= o[i]

LEMMA RisesFrom ==
    ASSUME NEW n \in Nat, NEW o \in [0..n -> Nat], Rises(o, n), NEW j \in 0..n
    PROVE  \A i \in j..n : o[j] <= o[i]
<1> DEFINE S == {i \in Nat : j <= i => o[j] <= o[i]}
<1>1. 0 \in S
  <2>1. j <= 0 => j = 0
    OBVIOUS
  <2>2. 0 \in 0..n /\ o[0] \in Nat
    OBVIOUS
  <2> QED
    BY <2>1, <2>2
<1>2. ASSUME NEW i \in 1..n, i - 1 \in S
      PROVE  i \in S
  <2> DEFINE a == o[j]
             b == o[i - 1]
             c == o[i]
  <2>1. a \in Nat /\ b \in Nat /\ c \in Nat /\ b <= c
    BY DEF Rises
  <2>2. j <= i - 1 => a <= b
    BY <1>2
  <2>3. j = i => a = c
    OBVIOUS
  <2> HIDE DEF a, b, c
  <2>4. j <= i => a <= c
    BY <2>1, <2>2, <2>3
  <2> QED
    BY <2>4 DEF a, c
<1> HIDE DEF S
<1>3. \A i \in 0..n : i \in S
  BY <1>1, <1>2, UpTo
<1>4. \A i \in j..n : i \in 0..n /\ j <= i
  OBVIOUS
<1> QED
  BY <1>3, <1>4 DEF S

LEMMA JoinsTail ==
    ASSUME NEW e \in Seq(Cell), NEW parts \in Seq(Seq(Cell)), Joins(e, parts), Len(parts) >= 1
    PROVE  /\ parts[1] \in Seq(Cell) /\ Len(parts[1]) <= Len(e)
           /\ SubSeq(e, 1, Len(parts[1])) = parts[1]
           /\ Joins(SubSeq(e, Len(parts[1]) + 1, Len(e)), Tail(parts))
<1> DEFINE n == Len(parts)
           w == Len(parts[1])
           d == SubSeq(e, w + 1, Len(e))
           z == Len(e)
           rest == Tail(parts)
<1>1. n \in Nat /\ n >= 1 /\ z \in Nat /\ parts[1] \in Seq(Cell) /\ w \in Nat
  OBVIOUS
<1>2. PICK o \in [0..n -> Nat] :
          /\ o[0] = 0 /\ o[n] = z
          /\ \A i \in 1..n : o[i - 1] <= o[i] /\ o[i] <= z /\ SubSeq(e, o[i - 1] + 1, o[i]) = parts[i]
  BY DEF Joins
<1>3. /\ rest \in Seq(Seq(Cell)) /\ Len(rest) = n - 1
      /\ \A i \in 1..(n - 1) : rest[i] = parts[i + 1]
  BY <1>1
<1> HIDE DEF n, z, rest
<1>4. 0 \in 0..n /\ 1 \in 0..n /\ 1 \in 1..n /\ 1 - 1 = 0
  BY <1>1
<1>5. w = o[1] /\ o[1] <= z /\ SubSeq(e, 1, w) = parts[1]
  <2> DEFINE a == o[1]
  <2>1. SubSeq(e, 0 + 1, a) = parts[1] /\ a \in Nat /\ a <= z
    BY <1>2, <1>4
  <2> HIDE DEF a
  <2>2. Len(SubSeq(e, 1, a)) = a /\ SubSeq(e, 1, a) = SubSeq(e, 0 + 1, a)
    BY <2>1 DEF z
  <2> QED
    BY <2>1, <2>2 DEF a
<1> HIDE DEF w
<1>6. Rises(o, n)
  BY <1>2 DEF Rises
<1>7. \A i \in 1..n : w <= o[i] /\ o[i] <= z /\ o[i] \in Nat
  <2>1. \A i \in 1..n : o[1] <= o[i]
    BY <1>1, <1>4, <1>6, RisesFrom
  <2>2. \A i \in 1..n : i \in 0..n
    OBVIOUS
  <2> QED
    BY <1>2, <1>5, <2>1, <2>2
<1>8. d \in Seq(Cell) /\ Len(d) = z - w
  <2>1. w <= z
    BY <1>5
  <2> QED
    BY <1>1, <2>1 DEF z
<1> DEFINE u == [i \in 0..(n - 1) |-> o[i + 1] - w]
<1>9. u \in [0..(n - 1) -> Nat] /\ \A i \in 0..(n - 1) : u[i] = o[i + 1] - w
  <2>1. \A i \in 0..(n - 1) : o[i + 1] - w \in Nat
    <3>1. ASSUME NEW i \in 0..(n - 1)
          PROVE  o[i + 1] - w \in Nat
      <4> DEFINE a == o[i + 1]
      <4>1. i + 1 \in 1..n
        BY <1>1
      <4>2. a \in Nat /\ w <= a
        BY <1>7, <4>1
      <4> HIDE DEF a
      <4>3. a - w \in Nat
        BY <1>1, <4>2
      <4> QED
        BY <4>3 DEF a
    <3> QED
      BY <3>1
  <2> QED
    BY <2>1
<1> HIDE DEF u, d
<1>10. u[0] = 0 /\ u[n - 1] = Len(d)
  <2>1. 0 \in 0..(n - 1) /\ n - 1 \in 0..(n - 1) /\ 0 + 1 = 1 /\ (n - 1) + 1 = n
    BY <1>1
  <2>2. u[0] = o[1] - w /\ u[n - 1] = o[n] - w
    BY <1>9, <2>1
  <2> QED
    BY <1>1, <1>2, <1>5, <1>8, <2>2
<1>11. ASSUME NEW i \in 1..(n - 1)
       PROVE  u[i - 1] <= u[i] /\ u[i] <= Len(d) /\ SubSeq(d, u[i - 1] + 1, u[i]) = rest[i]
  <2> DEFINE a == o[i]
             b == o[i + 1]
             x == u[i - 1]
             y == u[i]
  <2>1. i \in 0..(n - 1) /\ i - 1 \in 0..(n - 1) /\ (i - 1) + 1 = i /\ i \in 1..n /\ i + 1 \in 1..n /\ (i + 1) - 1 = i
    BY <1>1
  <2>2. x = a - w /\ y = b - w /\ a \in Nat /\ b \in Nat /\ w <= a /\ w <= b /\ b <= z
    BY <1>7, <1>9, <2>1
  <2>3. a <= b /\ SubSeq(e, a + 1, b) = parts[i + 1]
    BY <1>2, <2>1
  <2>4. rest[i] = parts[i + 1]
    BY <1>3
  <2> HIDE DEF a, b, x, y
  <2>5. x <= y /\ y <= Len(d) /\ x \in Nat /\ y \in Nat /\ w + x = a /\ w + y = b
    BY <1>1, <1>8, <2>2, <2>3
  <2>6. SubSeq(d, x + 1, y) = SubSeq(e, w + x + 1, w + y)
    <3>1. w + y <= z /\ z <= Len(e) /\ z = Len(e) /\ w \in Nat /\ z \in Nat /\ e \in Seq(Cell)
      BY <1>1, <2>2, <2>5 DEF z
    <3>2. SubSeq(SubSeq(e, w + 1, z), x + 1, y) = SubSeq(e, w + x + 1, w + y)
      BY ONLY <2>5, <3>1, SliceOfSlice
    <3> QED
      BY <3>1, <3>2 DEF d
  <2>7. w + x + 1 = a + 1
    BY <1>1, <2>2, <2>5
  <2> QED
    BY <2>3, <2>4, <2>5, <2>6, <2>7 DEF x, y
<1>12. Joins(d, rest)
  <2>1. u \in [0..Len(rest) -> Nat] /\ u[0] = 0 /\ u[Len(rest)] = Len(d)
    BY <1>3, <1>9, <1>10
  <2> QED
    BY <1>3, <1>11, <2>1 DEF Joins
<1> QED
  BY <1>1, <1>5, <1>12 DEF w, d, z, rest

\* s is the frames of the messages that were sent, but for the first k.
FramesOf(s, st, sd, k) ==
    \E parts \in Seq(Seq(Cell)) :
        /\ Len(parts) = Len(sd) - k /\ Joins(s, parts)
        /\ \A i \in 1..Len(parts) : IsFrame(parts[i], st[sd[k + i]])

LEMMA NoFrames ==
    ASSUME NEW st
    PROVE  FramesOf(<<>>, st, <<>>, 0)
<1> DEFINE parts == <<>>
           o == [k \in 0..0 |-> 0]
<1>1. parts \in Seq(Seq(Cell)) /\ Len(parts) = 0 /\ Len(<<>>) - 0 = 0
  OBVIOUS
<1>2. Joins(<<>>, parts)
  <2>1. o \in [0..Len(parts) -> Nat] /\ o[0] = 0 /\ o[Len(parts)] = Len(<<>>) /\ 1..Len(parts) = {}
    OBVIOUS
  <2> HIDE DEF parts, o
  <2> QED
    BY <2>1 DEF Joins
<1>3. 1..Len(parts) = {}
  OBVIOUS
<1> HIDE DEF parts
<1> QED
  BY <1>1, <1>2, <1>3 DEF FramesOf

LEMMA FramesMore ==
    ASSUME NEW s \in Seq(Cell), NEW f \in Seq(Cell), NEW st, NEW sd \in Seq(Nat), NEW k \in Nat, NEW j \in Nat,
           FramesOf(s, st, sd, k), IsFrame(f, st[j])
    PROVE  FramesOf(s \o f, st, Append(sd, j), k)
<1> DEFINE n == Len(sd)
           ds == Append(sd, j)
<1>1. PICK parts \in Seq(Seq(Cell)) : /\ Len(parts) = n - k /\ Joins(s, parts)
                                      /\ \A i \in 1..Len(parts) : IsFrame(parts[i], st[sd[k + i]])
  BY DEF FramesOf
<1> DEFINE more == Append(parts, f)
           p == Len(parts)
<1>2. /\ more \in Seq(Seq(Cell)) /\ Len(more) = p + 1 /\ more[p + 1] = f /\ p \in Nat
      /\ \A i \in 1..p : more[i] = parts[i]
  OBVIOUS
<1>3. n \in Nat /\ Len(ds) = n + 1 /\ ds[n + 1] = j /\ \A i \in 1..n : ds[i] = sd[i]
  OBVIOUS
<1>4. p = n - k /\ p + 1 = (n + 1) - k
  BY <1>1, <1>3
<1>5. Joins(s \o f, more)
  BY <1>1, JoinsAppend
<1> HIDE DEF n, p, more, ds
<1>6. ASSUME NEW i \in 1..(p + 1)
      PROVE  IsFrame(more[i], st[ds[k + i]])
  <2>1. CASE i = p + 1
    <3>1. k + i = n + 1
      BY <1>2, <1>3, <1>4, <2>1
    <3> QED
      BY <1>2, <1>3, <2>1, <3>1
  <2>2. CASE i # p + 1
    <3>1. i \in 1..p /\ k + i \in 1..n
      BY <1>2, <1>3, <1>4, <2>2
    <3>2. IsFrame(parts[i], st[sd[k + i]])
      BY <1>1, <3>1 DEF p
    <3>3. more[i] = parts[i] /\ ds[k + i] = sd[k + i]
      BY <1>2, <1>3, <3>1
    <3> QED
      BY <3>2, <3>3
  <2> QED
    BY <2>1, <2>2
<1> QED
  BY <1>2, <1>3, <1>4, <1>5, <1>6 DEF FramesOf, ds, n

LEMMA NoMoreFrames ==
    ASSUME NEW s \in Seq(Cell), NEW st, NEW sd \in Seq(Nat), NEW k \in Nat, FramesOf(s, st, sd, k)
    PROVE  k <= Len(sd) /\ (k = Len(sd) => Len(s) = 0)
<1> DEFINE n == Len(sd)
<1>1. PICK parts \in Seq(Seq(Cell)) : Len(parts) = n - k /\ Joins(s, parts)
  BY DEF FramesOf
<1>2. n \in Nat /\ Len(parts) \in Nat
  OBVIOUS
<1>3. PICK o \in [0..Len(parts) -> Nat] : o[0] = 0 /\ o[Len(parts)] = Len(s)
  BY <1>1 DEF Joins
<1> HIDE DEF n
<1>4. k <= n /\ (k = n => Len(parts) = 0)
  BY <1>1, <1>2
<1> QED
  BY <1>3, <1>4 DEF n

LEMMA FirstFrame ==
    ASSUME NEW s \in Seq(Cell), NEW st, NEW sd \in Seq(Nat), NEW k \in Nat, FramesOf(s, st, sd, k), k < Len(sd),
           IsMessage(st[sd[k + 1]])
    PROVE  /\ FrameSize(st[sd[k + 1]]) \in Nat /\ FrameSize(st[sd[k + 1]]) <= Len(s)
           /\ IsFrame(SubSeq(s, 1, FrameSize(st[sd[k + 1]])), st[sd[k + 1]])
           /\ FramesOf(SubSeq(s, FrameSize(st[sd[k + 1]]) + 1, Len(s)), st, sd, k + 1)
<1> DEFINE n == Len(sd)
           m == st[sd[k + 1]]
           F == FrameSize(m)
<1>1. PICK parts \in Seq(Seq(Cell)) : /\ Len(parts) = n - k /\ Joins(s, parts)
                                      /\ \A i \in 1..Len(parts) : IsFrame(parts[i], st[sd[k + i]])
  BY DEF FramesOf
<1> DEFINE p == Len(parts)
           rest == Tail(parts)
           d == SubSeq(s, F + 1, Len(s))
<1>2. n \in Nat /\ p \in Nat /\ p = n - k /\ p >= 1 /\ 1 \in 1..p
  BY <1>1
<1>3. IsFrame(parts[1], m)
  BY <1>1, <1>2
<1>4. F \in Nat /\ Len(parts[1]) = F
  BY <1>3, MessageFacts DEF IsFrame
<1>5. /\ Len(parts[1]) <= Len(s) /\ SubSeq(s, 1, Len(parts[1])) = parts[1]
      /\ Joins(SubSeq(s, Len(parts[1]) + 1, Len(s)), rest)
  BY <1>1, <1>2, JoinsTail
<1>6. F <= Len(s) /\ IsFrame(SubSeq(s, 1, F), m) /\ Joins(d, rest)
  BY <1>3, <1>4, <1>5
<1>7. /\ rest \in Seq(Seq(Cell)) /\ Len(rest) = p - 1
      /\ \A i \in 1..(p - 1) : rest[i] = parts[i + 1]
  BY <1>2
<1> HIDE DEF n, p, rest, d
<1>8. ASSUME NEW i \in 1..(p - 1)
      PROVE  IsFrame(rest[i], st[sd[(k + 1) + i]])
  <2>1. i + 1 \in 1..p /\ k + (i + 1) = (k + 1) + i
    BY <1>2
  <2>2. IsFrame(parts[i + 1], st[sd[k + (i + 1)]])
    BY <1>1, <2>1 DEF p
  <2> QED
    BY <1>7, <2>1, <2>2
<1>9. Len(rest) = n - (k + 1)
  BY <1>2, <1>7
<1>10. FramesOf(d, st, sd, k + 1)
  BY <1>6, <1>7, <1>8, <1>9 DEF FramesOf, n
<1> QED
  BY <1>4, <1>6, <1>10 DEF d

-----------------------------------------------------------------------------
(* What is seen without being taken out *)

\* one is what front finds at off, where x is written as e.
SeesSimple(one, off, e, x, ahead) ==
    one.ok => /\ x.kind # "trailer" => one.off = off + Len(e)
              /\ ~Cut(x) => SaysSimple(x, one.value, ahead)

LEMMA SeenAs ==
    ASSUME NEW off, NEW e, NEW x, NEW ahead, NEW value, ~Cut(x) => SaysSimple(x, value, ahead)
    PROVE  SeesSimple(Seen(off + Len(e), value), off, e, x, ahead)
BY SeenFacts DEF SeesSimple

LEMMA UnseenAs ==
    ASSUME NEW off, NEW o, NEW e, NEW x, NEW ahead
    PROVE  SeesSimple(Unseen(o), off, e, x, ahead) /\ ~Unseen(o).ok
BY DEF SeesSimple, Unseen

\* An offset that is set again.
LEMMA MovedSeen ==
    ASSUME NEW o, NEW y, NEW z
    PROVE  [Seen(o, y) EXCEPT !.off = z] = Seen(z, y)
<1> DEFINE t == TRUE
           one == [ok |-> t, off |-> o, value |-> y]
<1>1. Seen(o, y) = one /\ Seen(z, y) = [ok |-> t, off |-> z, value |-> y]
  BY DEF Seen
<1> HIDE DEF t
<1>2. one = [ok |-> t, off |-> o, value |-> y]
  OBVIOUS
<1> HIDE DEF one
<1>3. [one EXCEPT !.off = z] = [ok |-> t, off |-> z, value |-> y]
  BY ONLY <1>2
<1> QED
  BY <1>1, <1>3

LEMMA NumberSeen ==
    ASSUME NEW v, IsView(v), NEW off \in Nat, NEW x, IsSimple(x), x.kind \in {"byte", "number"}, NEW ahead,
           NEW e, Holds(v, off, e), SimpleBytes(e, x, ahead)
    PROVE  SeesSimple(PeekAny(v, off, x), off, e, x, ahead)
<1> DEFINE w == Width(x)
           k == x.items[1]
<1>1. w \in Nat \ {0} /\ k \in Int /\ InWidth(k, w) /\ x.items = <<k>>
  <2>1. k \in Int /\ InWidth(k, w)
    BY NumberValue
  <2>2. x.items \in Seq(Int) /\ Len(x.items) = 1
    BY DEF IsSimple, IsNumber, Container
  <2> QED
    BY <2>1, <2>2, Widths DEF Width
<1>2. PeekAny(v, off, x) = FrontGeneral(v, off, w)
  BY DEF PeekAny, DoPeekGeneral
<1>3. e = Encoded(k, w)
  BY DEF SimpleBytes
<1>4. SaysSimple(x, x.items, ahead)
  BY SaysItems
<1> HIDE DEF w, k
<1>5. Holds(v, off, Encoded(k, w)) /\ w \in Nat
  BY <1>1, <1>3
<1>6. FrontGeneral(v, off, w) = Seen(off + w, <<Decoded(Encoded(k, w))>>) /\ Decoded(Encoded(k, w)) = k
  BY <1>1, <1>5, GeneralRead
<1>7. Len(e) = w
  BY <1>1, <1>3, <1>5, EncodedType
<1> QED
  BY <1>1, <1>2, <1>4, <1>6, <1>7, SeenAs

LEMMA TrailerSeen ==
    ASSUME NEW v, IsView(v), NEW off \in Nat, NEW x, IsSimple(x), x.kind = "trailer", NEW ahead,
           NEW e, Holds(v, off, e), SimpleBytes(e, x, ahead), off + Len(e) = v.size
    PROVE  SeesSimple(PeekAny(v, off, x), off, e, x, ahead)
<1> DEFINE w == WordBytes
           k == x.items[1]
           one == FrontGeneral(v, off, w)
<1>1. w \in Nat \ {0} /\ w \in Nat /\ k \in Int /\ InWidth(k, w) /\ x.items = <<k>> /\ Width(x) = w
  <2>1. k \in Int /\ InWidth(k, w)
    BY NumberValue DEF Width
  <2>2. x.items \in Seq(Int) /\ Len(x.items) = 1
    BY DEF IsSimple, IsNumber, Container
  <2> QED
    BY <2>1, <2>2, Widths DEF Width
<1>2. PeekAny(v, off, x) = [Back(v, -w, w) EXCEPT !.off = off]
  BY DEF PeekAny, PeekWithout
<1>3. e = Encoded(k, w) /\ Len(e) = w
  <2>1. e = Encoded(k, w)
    BY <1>1 DEF SimpleBytes
  <2> QED
    BY <1>1, <2>1, EncodedType
<1>4. v.size + (-w) = off
  <2>1. v.size \in Nat
    BY ViewFacts
  <2> QED
    BY <1>1, <1>3, <2>1
<1>5. SaysSimple(x, x.items, ahead)
  BY SaysItems
<1> HIDE DEF w, k
<1>6. Holds(v, off, Encoded(k, w))
  BY <1>3
<1>7. one = Seen(off + w, x.items)
  <2>1. FrontGeneral(v, off, w) = Seen(off + w, <<Decoded(Encoded(k, w))>>) /\ Decoded(Encoded(k, w)) = k
    BY <1>1, <1>6, GeneralRead
  <2> QED
    BY <1>1, <2>1
<1> HIDE DEF one
<1>8. Back(v, -w, w) = [one EXCEPT !.off = -w]
  BY <1>4 DEF Back, one
<1>9. Back(v, -w, w) = Seen(-w, x.items)
  BY <1>7, <1>8, MovedSeen
<1>10. PeekAny(v, off, x) = Seen(off, x.items)
  BY <1>2, <1>9, MovedSeen
<1> QED
  BY <1>5, <1>10, SeenFacts DEF SeesSimple

LEMMA StringSeen ==
    ASSUME NEW v, IsView(v), NEW off \in Nat, NEW x, IsSimple(x), x.kind \in {"string", "view"}, NEW ahead,
           NEW e, Holds(v, off, e), SimpleBytes(e, x, ahead)
    PROVE  SeesSimple(PeekAny(v, off, x), off, e, x, ahead)
<1> DEFINE n == SizeOfString(x.items)
<1>1. IsCounted(x.items) /\ e = StringBytes(x.items) /\ x.items \in Seq(Char)
  BY DEF IsSimple, SimpleBytes, Container, IsCounted
<1>2. Holds(v, off, StringBytes(x.items))
  BY <1>1
<1>3. /\ FrontStringView(v, off) = Seen(off + n, x.items)
      /\ FrontString(v, off) = Seen(off + n, Shown("string", x.items))
  BY <1>1, <1>2, StringRead
<1>4. Len(e) = n
  BY <1>1, StringBytesFacts DEF IsCounted
<1>5. SaysSimple(x, x.items, ahead)
  BY SaysItems
<1>6. PeekAny(v, off, x) = IF x.kind = "string" THEN FrontString(v, off) ELSE FrontStringView(v, off)
  BY DEF PeekAny, DoPeekString
<1> HIDE DEF n
<1>7. CASE x.kind = "view"
  BY <1>3, <1>4, <1>5, <1>6, <1>7, SeenAs
<1>8. CASE x.kind = "string"
  <2>1. ~Cut(x) => ~IsCut("string", x.items)
    BY <1>8 DEF Cut
  <2>2. ~Cut(x) => Shown("string", x.items) = x.items
    BY <1>1, <2>1, ShownWhole
  <2>3. ~Cut(x) => SaysSimple(x, Shown("string", x.items), ahead)
    BY <1>5, <2>2
  <2> QED
    BY <1>3, <1>4, <1>6, <1>8, <2>3, SeenAs
<1> QED
  BY <1>7, <1>8

LEMMA LineSeen ==
    ASSUME NEW v, IsView(v), NEW off \in Nat, NEW x, IsSimple(x), x.kind = "line", NEW ahead,
           NEW e, Holds(v, off, e), SimpleBytes(e, x, ahead)
    PROVE  SeesSimple(PeekAny(v, off, x), off, e, x, ahead)
<1> DEFINE s == x.items
           n == Len(s)
           ends == LineEnds(v, off, off + v.size - 2)
<1>1. PeekAny(v, off, x) = FrontWeb(v, off)
  BY DEF PeekAny, DoPeekWeb
<1>2. e = s \o LineEnd
  BY DEF SimpleBytes, Text, TextBytes
<1>3. IsLine(s)
  BY DEF IsSimple, IsLine, Container
<1>4. SaysSimple(x, s, ahead)
  BY SaysItems
<1> HIDE DEF s
<1>5. Holds(v, off, s \o LineEnd)
  BY <1>2
<1>6. /\ n \in Nat /\ off + n + 2 <= v.size /\ v.size \in Nat
      /\ Bytes(v, off, n) = s /\ Bytes(v, off + n, 2) = LineEnd
      /\ \A i \in off..(off + n - 1) : Bytes(v, i, 2) # LineEnd
  BY <1>3, <1>5, LineHeld
<1>7. Len(e) = n + 2
  <2>1. 13 \in Char /\ 10 \in Char
    BY DEF Char, Base
  <2>2. s \in Seq(Char) /\ LineEnd \in Seq(Char) /\ Len(LineEnd) = 2
    BY <1>3, <2>1 DEF IsLine, LineEnd
  <2>3. Len(s \o LineEnd) = Len(s) + Len(LineEnd)
    BY ONLY <2>2, ConcatProperties
  <2> QED
    BY <1>2, <2>2, <2>3
<1> HIDE DEF n
<1>8. off + n \in ends /\ ends \subseteq Nat /\ \A i \in ends : off + n <= i
  <2>1. off + n \in off..(off + v.size - 2)
    BY <1>6
  <2>2. \A i \in off..(off + v.size - 2) : i \in Nat /\ (~(off + n <= i) => i \in off..(off + n - 1))
    BY <1>6
  <2>3. off + n \in ends
    BY <1>6, <2>1 DEF LineEnds
  <2>4. ASSUME NEW i \in ends
        PROVE  i \in Nat /\ off + n <= i
    <3>1. i \in off..(off + v.size - 2) /\ Bytes(v, i, 2) = LineEnd
      BY DEF LineEnds
    <3> QED
      BY <1>6, <2>2, <3>1
  <2> QED
    BY <2>3, <2>4
<1>9. Min(ends) = off + n
  <2>1. Min(ends) \in ends /\ \A i \in ends : Min(ends) <= i
    BY <1>8, MinFacts
  <2> QED
    BY <1>6, <1>8, <2>1
<1>10. FrontWeb(v, off) = Seen(off + Len(e), s)
  <2>1. ~(off > v.size - 1) /\ ends # {} /\ (off + n) + 2 = off + Len(e) /\ (off + n) - off = n
    BY <1>6, <1>7, <1>8
  <2> QED
    BY <1>6, <1>9, <2>1 DEF FrontWeb
<1> QED
  BY <1>1, <1>4, <1>10, SeenAs

LEMMA TextSeen ==
    ASSUME NEW v, IsView(v), NEW off \in Nat, NEW x, IsSimple(x), x.kind \in {"bytes", "signed", "unsigned", "hex"},
           NEW ahead, NEW e, Holds(v, off, e), SimpleBytes(e, x, ahead)
    PROVE  SeesSimple(PeekAny(v, off, x), off, e, x, ahead)
<1> DEFINE n == Len(e)
           u == Advance(v, off)
<1>1. x.kind \in Text /\ e = TextBytes(x)
  BY DEF Text, SimpleBytes
<1>2. n = SizeOfSimple(x) /\ e \in Seq(Cell) /\ n \in Nat
  BY <1>1, SizeOfText
<1>3. SizeOfSimple(x) = LengthAsText(x)
  BY DEF SizeOfSimple, SizeWithout
<1>4. PeekAny(v, off, x) = [FrontTextByLength(v, off, n) EXCEPT !.off = off + n]
  <2>1. PeekAny(v, off, x) = [FrontTextByLength(v, off, LengthAsText(x)) EXCEPT !.off = off + LengthAsText(x)]
    BY DEF PeekAny, PeekWithout
  <2> QED
    BY <1>2, <1>3, <2>1
<1> HIDE DEF n
<1>5. off + n <= v.size /\ Bytes(v, off, n) = e /\ v.size \in Nat /\ off <= v.size
  <2>1. off + n <= v.size /\ Bytes(v, off, n) = e
    BY DEF Holds, n
  <2> QED
    BY <1>2, <2>1, ViewFacts
<1>6. PeekAny(v, off, x) = Seen(off + n, e)
  <2>1. ~(off + n > v.size)
    BY <1>2, <1>5
  <2>2. FrontTextByLength(v, off, n) = Seen(off, e)
    BY <1>5, <2>1 DEF FrontTextByLength
  <2> QED
    BY <1>4, <2>2, MovedSeen
<1>7. SaysSimple(x, e, ahead)
  <2>1. IsView(u) /\ Holds(u, 0, e)
    <3>1. Consumed(v, u, off)
      BY <1>5, Advanced
    <3>2. off <= off /\ off - off = 0
      OBVIOUS
    <3> HIDE DEF u
    <3>3. Holds(v, off, e) <=> Holds(u, off - off, e)
      BY <1>2, <3>1, <3>2, HoldsBehind
    <3> QED
      BY <3>1, <3>2, <3>3 DEF Consumed
  <2>2. IsMember(x) /\ x.kind \notin AtTheBack
    BY DEF IsMember, AtTheBack
  <2> HIDE DEF u
  <2>3. ReadsSimple(u, ExtractSimple(u, x), x, ahead)
    BY <1>2, <2>1, <2>2, SimpleRead
  <2>4. ExtractSimple(u, x) = ExtractBytes(u, n)
    BY <1>2, <1>3 DEF ExtractSimple, ExtractWithout
  <2>5. ExtractBytes(u, n) = Read(Advance(u, n), e)
    BY <1>2, <2>1, BytesRead DEF n
  <2>6. FitsSimple(x)
    BY FitsAlways
  <2> QED
    BY <2>3, <2>4, <2>5, <2>6, ReadFacts DEF ReadsSimple
<1> QED
  BY <1>6, <1>7, SeenAs DEF n

LEMMA ShownItems ==
    ASSUME NEW of, NEW items, AreElements(of, items), \A i \in DOMAIN items : ~IsCut(of, items[i])
    PROVE  [i \in DOMAIN items |-> Shown(of, items[i])] = items
<1>1. DOMAIN items = 1..Len(items) /\ items \in Seq(ToSet(items))
  BY SeqFacts DEF AreElements
<1>2. items = [i \in DOMAIN items |-> items[i]]
  BY <1>1
<1>3. ASSUME NEW i \in DOMAIN items
      PROVE  Shown(of, items[i]) = items[i]
  <2>1. IsElement(of, items[i]) /\ ~IsCut(of, items[i])
    BY DEF AreElements
  <2>2. CASE of = "string"
    <3>1. items[i] \in Seq(Char)
      BY <2>1, <2>2 DEF IsElement, IsCounted
    <3> QED
      BY <2>1, <3>1, ShownWhole
  <2>3. CASE of # "string"
    BY <2>3 DEF Shown
  <2> QED
    BY <2>2, <2>3
<1> QED
  BY <1>2, <1>3

LEMMA ContainerSeen ==
    ASSUME NEW v, IsView(v), NEW off \in Nat, NEW x, IsSimple(x), x.kind \in {"iterator", "list", "vector", "set"},
           x.of # "buffer", NEW ahead, NEW e \in Seq(Cell), Holds(v, off, e), SimpleBytes(e, x, ahead)
    PROVE  SeesSimple(PeekAny(v, off, x), off, e, x, ahead)
<1> DEFINE items == x.items
           of == x.of
           n == Len(items)
           parts == ElementParts(of, items)
           shown == [i \in DOMAIN items |-> Shown(of, items[i])]
           all == FrontElements(v, off, of, n)
<1>0. x.kind \in Container /\ x.kind \in Container \ {"array", "span"} /\ of # "buffer"
  BY DEF Container
<1>1. AreElements(of, items) /\ InWidth(n, CountBytes) /\ parts \in Seq(Seq(Cell)) /\ n \in Nat
  BY <1>0, ElementsOfSimple, ElementPartsFacts
<1>2. Counted(e, n, parts)
  BY <1>0 DEF SimpleBytes
<1>3. SaysSimple(x, items, ahead)
  BY SaysItems
<1>4. ~Cut(x) => shown = items
  <2> HAVE ~Cut(x)
  <2>1. \A i \in DOMAIN items : ~IsCut(of, items[i])
    BY <1>0 DEF Cut
  <2> HIDE DEF items, of
  <2> QED
    BY <1>1, <2>1, ShownItems
<1>5. x.kind = "set" => IsSeq(items) /\ IsInjective(items)
  BY DEF IsSimple, Container
<1> HIDE DEF items, of, n
<1>6. /\ Count(v, off) = n /\ off + CountBytes <= v.size
      /\ Len(e) = CountBytes + Total(Lengths(parts))
      /\ \E f \in Seq(Cell) : /\ Holds(v, off + CountBytes, f) /\ Joins(f, parts)
                              /\ Len(f) = Total(Lengths(parts)) /\ Len(f) \in Nat
  <2> HIDE DEF parts
  <2> QED
    BY <1>1, <1>2, CountedHeld
<1>7. PICK f \in Seq(Cell) : /\ Holds(v, off + CountBytes, f) /\ Joins(f, parts)
                             /\ Len(f) = Total(Lengths(parts)) /\ Len(f) \in Nat
  BY <1>6
<1>8. off + CountBytes + Len(f) = off + Len(e)
  BY <1>6, <1>7, Widths
<1>9. all = Seen(off + Len(e), shown)
  <2>1. Joins(f, ElementParts(of, items))
    BY <1>7
  <2>2. FrontElements(v, off, of, Len(items)) = Seen(off + CountBytes + Len(f), shown)
    BY <1>0, <1>1, <1>7, <2>1, ElementsSeen
  <2> QED
    BY <1>8, <2>2 DEF n
<1> HIDE DEF shown
<1>10. ~Cut(x) => SaysSimple(x, shown, ahead)
  BY <1>3, <1>4
<1>11. SeesSimple(all, off, e, x, ahead)
  BY <1>9, <1>10, SeenAs
<1>12. CASE x.kind \in {"iterator", "list"}
  <2>1. PeekAny(v, off, x) = FrontContainerList(v, off, of)
    BY <1>12 DEF PeekAny, DoPeekLinear, PeekWithout, of
  <2> QED
    BY <1>6, <1>11, <2>1 DEF FrontContainerList
<1>13. CASE x.kind = "vector"
  <2>1. PeekAny(v, off, x) = IF of = "number" THEN FrontContainerArrayCopy(v, off) ELSE FrontContainerArray(v, off, of)
    BY <1>13 DEF PeekAny, DoPeekReserve, Copied, of
  <2>2. FrontContainerArray(v, off, of) = all
    BY <1>6 DEF FrontContainerArray
  <2>3. of = "number" => FrontContainerArrayCopy(v, off) = all
    <3> HAVE of = "number"
    <3>1. Total(Lengths(parts)) = WordBytes * n
      BY <1>1, NumberBytesFacts DEF n
    <3>2. off + Len(e) <= v.size /\ v.size \in Nat
      BY ViewFacts DEF Holds
    <3>3. WordBytes * n \in Nat
      BY <1>7, <3>1
    <3> HIDE DEF parts
    <3>4. ~(off + CountBytes + WordBytes * n > v.size)
      <4> DEFINE q == WordBytes * n
      <4> HIDE DEF q
      <4> QED
        BY <1>6, <3>1, <3>2, <3>3, Widths DEF q
    <3> QED
      BY <1>6, <3>4 DEF FrontContainerArrayCopy
  <2> QED
    BY <1>11, <2>1, <2>2, <2>3
<1>14. CASE x.kind = "set"
  <2>1. PeekAny(v, off, x) = [all EXCEPT !.value = Distinct(@)]
    BY <1>6, <1>14 DEF PeekAny, DoPeekSet, FrontSet, of
  <2> DEFINE o == off + Len(e)
             z == Distinct(shown)
  <2>2. all.value = shown /\ all = Seen(o, shown)
    BY <1>9, SeenFacts
  <2>3. PeekAny(v, off, x) = Seen(o, z)
    <3> HIDE DEF all, o
    <3>1. PeekAny(v, off, x) = [all EXCEPT !.value = z]
      BY <2>1, <2>2
    <3>2. [Seen(o, shown) EXCEPT !.value = z] = Seen(o, z)
      BY ValueOfRead
    <3> QED
      BY <2>2, <3>1, <3>2
  <2>4. ~Cut(x) => SaysSimple(x, Distinct(shown), ahead)
    BY <1>3, <1>4, <1>5, <1>14, AllDistinct
  <2> QED
    BY <2>3, <2>4, SeenAs
<1> QED
  BY <1>12, <1>13, <1>14

LEMMA MapSeen ==
    ASSUME NEW v, IsView(v), NEW off \in Nat, NEW x, IsSimple(x), x.kind = "map", x.of # "buffer", x.key # "buffer",
           NEW ahead, NEW e \in Seq(Cell), Holds(v, off, e), SimpleBytes(e, x, ahead)
    PROVE  SeesSimple(PeekAny(v, off, x), off, e, x, ahead)
<1> DEFINE items == x.items
           key == x.key
           of == x.of
           n == Len(items)
           listed == IF ahead THEN Reverse(items) ELSE items
           parts == PairParts(key, of, items)
           shown == [i \in DOMAIN listed |-> <<Shown(key, listed[i][1]), Shown(of, listed[i][2])>>]
<1>1. ArePairs(key, of, items) /\ InWidth(n, CountBytes) /\ AreTwo(items)
  BY MapFacts DEF AreTwo
<1>2. Counted(e, n, IF ahead THEN Reverse(parts) ELSE parts)
  BY DEF SimpleBytes
<1>3. IsSeq(items)
  BY <1>1 DEF ArePairs
<1>4. PeekAny(v, off, x) = FrontContainerAssociative(v, off, key, of) /\ key # "buffer" /\ of # "buffer"
  BY DEF PeekAny, DoPeekAssociative
<1>5. SaysSimple(x, listed, ahead)
  BY DEF SaysSimple
<1>6. ~Cut(x) => \A i \in DOMAIN items : ~IsCut(key, items[i][1]) /\ ~IsCut(of, items[i][2])
  BY DEF Cut
<1> HIDE DEF items, of, key
<1>7. /\ ArePairs(key, of, listed) /\ Len(listed) = n /\ AreTwo(listed)
      /\ Counted(e, n, PairParts(key, of, listed))
      /\ \A i \in DOMAIN listed : \E j \in DOMAIN items : listed[i] = items[j]
  <2>1. CASE ahead
    <3>1. /\ ArePairs(key, of, Reverse(items)) /\ Len(Reverse(items)) = Len(items)
      BY <1>1, ReversedPairs
    <3>2. Reverse(PairParts(key, of, Reverse(Reverse(items)))) = PairParts(key, of, Reverse(items))
      BY <3>1, ReversedPairs
    <3>3. Reverse(Reverse(items)) = items
      BY <1>3, ReverseTwice DEF IsSeq
    <3>4. Counted(e, n, PairParts(key, of, Reverse(items)))
      BY <1>2, <2>1, <3>2, <3>3
    <3>5. AreTwo(Reverse(items))
      BY <1>1, <1>3, ReversedTwo
    <3>6. ASSUME NEW i \in DOMAIN Reverse(items)
          PROVE  \E j \in DOMAIN items : Reverse(items)[i] = items[j]
      <4>1. Len(items) \in Nat /\ DOMAIN items = 1..Len(items)
        BY <1>3, SeqFacts
      <4>2. i \in 1..Len(items) /\ Reverse(items)[i] = items[(Len(items) - i) + 1]
        BY <4>1 DEF Reverse
      <4>3. (Len(items) - i) + 1 \in DOMAIN items
        BY <4>1, <4>2
      <4> QED
        BY <4>2, <4>3
    <3> QED
      BY <2>1, <3>1, <3>4, <3>5, <3>6
  <2>2. CASE ~ahead
    BY <1>1, <1>2, <2>2
  <2> QED
    BY <2>1, <2>2
<1> HIDE DEF listed, n
<1> DEFINE rest == PairParts(key, of, listed)
<1>8. rest \in Seq(Seq(Cell)) /\ DOMAIN listed = 1..Len(listed) /\ listed \in Seq(ToSet(listed))
  BY <1>7, PairPartsFacts, SeqFacts DEF ArePairs
<1>9. /\ Count(v, off) = n /\ off + CountBytes <= v.size
      /\ Len(e) = CountBytes + Total(Lengths(rest))
      /\ \E f \in Seq(Cell) : /\ Holds(v, off + CountBytes, f) /\ Joins(f, rest)
                              /\ Len(f) = Total(Lengths(rest)) /\ Len(f) \in Nat
  <2>1. Counted(e, n, rest)
    BY <1>7
  <2> HIDE DEF rest
  <2> QED
    BY <1>1, <1>8, <2>1, CountedHeld
<1>10. PICK f \in Seq(Cell) : /\ Holds(v, off + CountBytes, f) /\ Joins(f, rest)
                              /\ Len(f) = Total(Lengths(rest)) /\ Len(f) \in Nat
  BY <1>9
<1>11. off + CountBytes + Len(f) = off + Len(e)
  BY <1>9, <1>10, Widths
<1>12. PeekAny(v, off, x) = Seen(off + Len(e), shown)
  <2>1. Joins(f, PairParts(key, of, listed)) /\ Count(v, off) = Len(listed)
    BY <1>7, <1>9, <1>10
  <2>2. FrontContainerAssociative(v, off, key, of) = Seen(off + CountBytes + Len(f), shown)
    BY <1>4, <1>7, <1>10, <2>1, PairsSeen, SMTT(30)
  <2> QED
    BY <1>4, <1>11, <2>2
<1>13. ~Cut(x) => shown = listed
  <2> HAVE ~Cut(x)
  <2>1. listed = [i \in DOMAIN listed |-> listed[i]]
    BY <1>8
  <2>2. ASSUME NEW i \in DOMAIN listed
        PROVE  <<Shown(key, listed[i][1]), Shown(of, listed[i][2])>> = listed[i]
    <3> DEFINE k == listed[i][1]
               y == listed[i][2]
    <3>1. IsElement(key, k) /\ IsElement(of, y) /\ listed[i] = <<k, y>>
      BY <1>7 DEF ArePairs, IsPair, AreTwo
    <3>2. ~IsCut(key, k) /\ ~IsCut(of, y)
      BY <1>6, <1>7
    <3> HIDE DEF k, y
    <3>3. Shown(key, k) = k /\ Shown(of, y) = y
      <4>1. key = "string" => k \in Seq(Char)
        BY <3>1 DEF IsElement, IsCounted
      <4>2. of = "string" => y \in Seq(Char)
        BY <3>1 DEF IsElement, IsCounted
      <4>3. key # "string" => Shown(key, k) = k
        BY DEF Shown
      <4>4. of # "string" => Shown(of, y) = y
        BY DEF Shown
      <4> QED
        BY <3>2, <4>1, <4>2, <4>3, <4>4, ShownWhole
    <3> QED
      BY <3>1, <3>3 DEF k, y
  <2> QED
    BY <2>1, <2>2
<1> HIDE DEF shown
<1> QED
  BY <1>5, <1>12, <1>13, SeenAs

\* What is extracted ahead of the offset instead.
LEMMA AheadOf ==
    ASSUME NEW v, IsView(v), NEW off \in Nat, NEW e \in Seq(Cell), Holds(v, off, e)
    PROVE  /\ IsView(Advance(v, off)) /\ Holds(Advance(v, off), 0, e) /\ off <= v.size
           /\ Advance(v, off).at = v.at + off /\ v.at \in Nat /\ v.size \in Nat /\ Len(e) \in Nat
<1> DEFINE u == Advance(v, off)
           n == Len(e)
<1>1. n \in Nat /\ v.size \in Nat /\ v.at \in Nat
  BY ViewFacts
<1>2. off + n <= v.size
  BY DEF Holds
<1>3. off <= v.size
  BY <1>1, <1>2
<1>4. Consumed(v, u, off)
  BY <1>3, Advanced
<1>5. off <= off /\ off - off = 0
  OBVIOUS
<1> HIDE DEF u
<1>6. Holds(v, off, e) <=> Holds(u, off - off, e)
  BY <1>4, <1>5, HoldsBehind
<1>7. IsView(u) /\ u.at = v.at + off
  BY <1>4 DEF Consumed
<1> QED
  BY <1>1, <1>3, <1>5, <1>6, <1>7 DEF u

LEMMA PeekedAhead ==
    ASSUME NEW v, IsView(v), NEW off \in Nat, NEW e \in Seq(Cell), Holds(v, off, e), NEW read,
           read.ok => Consumed(Advance(v, off), read.view, Len(e))
    PROVE  /\ Peeked(v, off, read).ok => /\ read.ok /\ Peeked(v, off, read).off = off + Len(e)
                                         /\ Peeked(v, off, read).value = read.value
           /\ read.ok => read.view.at - v.at = off + Len(e)
<1> DEFINE u == Advance(v, off)
           n == Len(e)
<1>1. u.at = v.at + off /\ v.at \in Nat /\ v.size \in Nat /\ n \in Nat /\ off <= v.size
  BY AheadOf
<1> HIDE DEF u, n
<1>2. read.ok => read.view.at - v.at = off + n
  <2> HAVE read.ok
  <2>1. read.view.at = u.at + n
    BY DEF Consumed, u, n
  <2> QED
    BY <1>1, <2>1
<1>3. CASE read.ok
  <2>1. Peeked(v, off, read) = Seen(read.view.at - v.at, read.value)
    BY <1>1, <1>3 DEF Peeked
  <2> QED
    BY <1>2, <1>3, <2>1, SeenFacts DEF n
<1>4. CASE ~read.ok
  <2>1. ~Peeked(v, off, read).ok
    BY <1>4 DEF Peeked, Unseen
  <2> QED
    BY <1>4, <2>1
<1> QED
  BY <1>3, <1>4

LEMMA ArraySeen ==
    ASSUME NEW v, IsView(v), NEW off \in Nat, NEW x, IsSimple(x), x.kind = "array", NEW ahead,
           NEW e \in Seq(Cell), Holds(v, off, e), SimpleBytes(e, x, ahead)
    PROVE  SeesSimple(PeekAny(v, off, x), off, e, x, ahead)
<1> DEFINE u == Advance(v, off)
           read == ExtractSimple(u, x)
<1>1. IsView(u) /\ Holds(u, 0, e)
  BY AheadOf
<1>2. PeekAny(v, off, x) = Peeked(v, off, read)
  BY DEF PeekAny, DoPeekArray, ExtractSimple, DoExtractArray
<1>3. IsMember(x) /\ x.kind \notin AtTheBack
  BY DEF IsMember, AtTheBack
<1>4. Len(e) = SizeOfSimple(x)
  BY <1>3, SimpleLength
<1>5. ReadsSimple(u, read, x, ahead)
  <2> HIDE DEF u
  <2> QED
    BY <1>1, <1>3, SimpleRead
<1> HIDE DEF read
<1>6. read.ok => Consumed(u, read.view, Len(e)) /\ SaysSimple(x, read.value, ahead)
  BY <1>4, <1>5 DEF ReadsSimple
<1>7. read.ok => Consumed(Advance(v, off), read.view, Len(e))
  BY <1>6
<1>8. Peeked(v, off, read).ok => /\ read.ok /\ Peeked(v, off, read).off = off + Len(e)
                                 /\ Peeked(v, off, read).value = read.value
  BY <1>7, PeekedAhead
<1> QED
  BY <1>2, <1>6, <1>8 DEF SeesSimple

LEMMA SimpleSeen ==
    ASSUME NEW v, IsView(v), NEW off \in Nat, NEW x, IsSimple(x), CanPeek(x), x.kind \notin Composite, NEW ahead,
           NEW e \in Seq(Cell), Holds(v, off, e), SimpleBytes(e, x, ahead),
           x.kind = "trailer" => off + Len(e) = v.size
    PROVE  SeesSimple(PeekAny(v, off, x), off, e, x, ahead)
<1>1. x.of # "buffer" /\ x.key # "buffer"
  BY DEF CanPeek
<1>2. CASE x.kind \in {"byte", "number"}
  BY <1>2, NumberSeen
<1>3. CASE x.kind = "trailer"
  BY <1>3, TrailerSeen
<1>4. CASE x.kind \in {"string", "view"}
  BY <1>4, StringSeen
<1>5. CASE x.kind = "line"
  BY <1>5, LineSeen
<1>6. CASE x.kind \in {"bytes", "signed", "unsigned", "hex"}
  BY <1>6, TextSeen
<1>7. CASE x.kind \in {"iterator", "list", "vector", "set"}
  BY <1>1, <1>7, ContainerSeen
<1>8. CASE x.kind = "map"
  BY <1>1, <1>8, MapSeen
<1>9. CASE x.kind = "array"
  BY <1>9, ArraySeen
<1>10. x.kind \in {"byte", "number", "trailer", "string", "view", "line", "bytes", "signed", "unsigned", "hex",
                   "iterator", "list", "vector", "set", "map", "array"}
  BY DEF CanPeek, IsSimple, Container
<1> QED
  BY <1>2, <1>3, <1>4, <1>5, <1>6, <1>7, <1>8, <1>9, <1>10

SeesAny(one, off, e, x, ahead) ==
    one.ok => /\ x.kind \notin {"trailer", "object"} => one.off = off + Len(e)
              /\ ~Cut(x) => Says(x, one.value, ahead)

LEMMA AnySeen ==
    ASSUME NEW v, IsView(v), NEW off \in Nat, NEW x, IsValue(x), CanPeek(x), NEW ahead,
           NEW e \in Seq(Cell), Holds(v, off, e), AnyBytes(e, x, ahead),
           x.kind = "trailer" => off + Len(e) = v.size
    PROVE  SeesAny(PeekAny(v, off, x), off, e, x, ahead)
<1> DEFINE one == PeekAny(v, off, x)
<1> SUFFICES SeesAny(one, off, e, x, ahead)
  OBVIOUS
<1>1. CASE x.kind \notin Composite
  <2>1. IsSimple(x) /\ SimpleBytes(e, x, ahead)
    BY <1>1 DEF IsValue, AnyBytes
  <2>2. SeesSimple(one, off, e, x, ahead)
    BY <1>1, <2>1, SimpleSeen
  <2> HIDE DEF one
  <2> QED
    BY <1>1, <2>2 DEF SeesSimple, SeesAny, Says
<1>2. CASE x.kind \in Composite
  <2> DEFINE u == Advance(v, off)
             read == ExtractAny(u, x)
             seen == Peeked(v, off, read)
  <2>1. IsView(u) /\ Holds(u, 0, e) /\ off <= v.size /\ v.size \in Nat
    BY AheadOf
  <2>2. x.kind \in {"tuple", "struct", "object"} /\ x.kind \notin AtTheBack
    BY <1>2 DEF CanPeek, Composite, Tuple, Pointer, AtTheBack
  <2>3. read = ExtractMembers(u, x.items)
    BY <2>2 DEF ExtractAny, Tuple, Pointer, DoExtractTuple, DoExtractStruct, DoExtractObject
  <2>4. Len(e) = SizeOfAny(x)
    BY AnyLength
  <2>5. ReadsAny(u, read, x, ahead)
    <3> HIDE DEF u
    <3> QED
      BY <2>1, <2>2, AnyRead
  <2>6. CASE x.kind = "tuple"
    <3>1. one = seen
      BY <2>3, <2>6 DEF PeekAny, DoPeekTuple
    <3> HIDE DEF read
    <3>2. read.ok => Consumed(u, read.view, Len(e)) /\ Says(x, read.value, ahead)
      BY <2>4, <2>5 DEF ReadsAny
    <3>3. read.ok => Consumed(Advance(v, off), read.view, Len(e))
      BY <3>2
    <3>4. seen.ok => read.ok /\ seen.off = off + Len(e) /\ seen.value = read.value
      BY <3>3, PeekedAhead
    <3> HIDE DEF one, seen
    <3> QED
      BY <3>1, <3>2, <3>4 DEF SeesAny
  <2>7. CASE x.kind = "struct"
    <3>1. one = [ok |-> read.ok, off |-> read.view.at - v.at, value |-> read.value]
      <4>1. ~(off > v.size)
        BY <2>1
      <4> QED
        BY <2>3, <2>7, <4>1 DEF PeekAny, DoPeekStruct, FrontMembers
    <3> HIDE DEF read
    <3>2. read.ok => Consumed(u, read.view, Len(e)) /\ Says(x, read.value, ahead)
      BY <2>4, <2>5 DEF ReadsAny
    <3>3. read.ok => Consumed(Advance(v, off), read.view, Len(e))
      BY <3>2
    <3>4. read.ok => read.view.at - v.at = off + Len(e)
      BY <3>3, PeekedAhead
    <3>5. one.ok = read.ok /\ one.off = read.view.at - v.at /\ one.value = read.value
      BY <3>1
    <3> HIDE DEF one
    <3> QED
      BY <3>2, <3>4, <3>5 DEF SeesAny
  <2>8. CASE x.kind = "object"
    <3>1. one = [seen EXCEPT !.off = off]
      BY <2>3, <2>8 DEF PeekAny, DoPeekObject
    <3> HIDE DEF read
    <3>2. read.ok => Consumed(u, read.view, Len(e)) /\ Says(x, read.value, ahead)
      BY <2>4, <2>5 DEF ReadsAny
    <3>3. read.ok => Consumed(Advance(v, off), read.view, Len(e))
      BY <3>2
    <3>4. seen.ok => read.ok /\ seen.value = read.value
      BY <3>3, PeekedAhead
    <3>5. one.ok = seen.ok /\ one.value = seen.value
      BY <3>1 DEF Peeked, Seen, Unseen
    <3> HIDE DEF one, seen
    <3> QED
      BY <2>8, <3>2, <3>4, <3>5 DEF SeesAny
  <2> QED
    BY <2>2, <2>6, <2>7, <2>8
<1> QED
  BY <1>1, <1>2

ValuesLooked(v, g, xs) == \A i \in 1..Len(xs) : g[i] = LookAfter(v, g[i - 1], xs[i])

LEMMA LookedUnfolds ==
    ASSUME NEW v, NEW xs, IsSeq(xs)
    PROVE  \E g : g[0] = Seen(0, <<>>) /\ ValuesLooked(v, g, xs) /\ LookedAt(v, xs) = g[Len(xs)].value
<1> DEFINE n == Len(xs)
           Upto(g, k) == /\ g = [i \in 0..k |-> g[i]] /\ g[0] = Seen(0, <<>>)
                         /\ \A i \in 1..k : g[i] = LookAfter(v, g[i - 1], xs[i])
           S == {k \in Nat : \E g : Upto(g, k)}
           F(h) == [i \in 0..n |-> IF i = 0 THEN Seen(0, <<>>) ELSE LookAfter(v, h[i - 1], xs[i])]
           f == CHOOSE h : h = F(h)
<1>1. n \in Nat
  BY SeqFacts
<1>2. 0 \in S
  <2> DEFINE g == [i \in 0..0 |-> Seen(0, <<>>)]
  <2>1. Upto(g, 0)
    OBVIOUS
  <2> QED
    BY <2>1
<1>3. ASSUME NEW i \in 1..n, i - 1 \in S
      PROVE  i \in S
  <2>1. PICK g : Upto(g, i - 1)
    BY <1>3
  <2> DEFINE y == LookAfter(v, g[i - 1], xs[i])
             h == [j \in 0..i |-> IF j = i THEN y ELSE g[j]]
  <2>2. i \in Nat /\ \A j \in 0..(i - 1) : j # i /\ j \in 0..i
    OBVIOUS
  <2>3. h[i] = y /\ \A j \in 0..(i - 1) : h[j] = g[j]
    BY <2>2
  <2>4. h = [j \in 0..i |-> h[j]]
    OBVIOUS
  <2> HIDE DEF h
  <2>5. ASSUME NEW j \in 1..i
        PROVE  h[j] = LookAfter(v, h[j - 1], xs[j])
    <3>1. CASE j = i
      <4>1. i - 1 \in 0..(i - 1)
        BY <2>2
      <4> QED
        BY <2>3, <3>1, <4>1
    <3>2. CASE j # i
      <4>1. j \in 1..(i - 1) /\ j \in 0..(i - 1) /\ j - 1 \in 0..(i - 1)
        BY <2>2, <3>2
      <4> QED
        BY <2>1, <2>3, <4>1
    <3> QED
      BY <3>1, <3>2
  <2>6. h[0] = Seen(0, <<>>)
    <3>1. 0 \in 0..(i - 1)
      BY <2>2
    <3> QED
      BY <2>1, <2>3, <3>1
  <2>7. Upto(h, i)
    BY <2>4, <2>5, <2>6
  <2> HIDE DEF Upto
  <2> QED
    BY <2>2, <2>7
<1> HIDE DEF S
<1>4. \A i \in 0..n : i \in S
  BY <1>1, <1>2, <1>3, UpTo
<1>5. PICK g : Upto(g, n)
  BY <1>1, <1>4 DEF S
<1>6. g = F(g)
  <2>1. \A i \in 0..n : i # 0 => i \in 1..n
    BY <1>1
  <2>2. \A i \in 0..n : g[i] = IF i = 0 THEN Seen(0, <<>>) ELSE LookAfter(v, g[i - 1], xs[i])
    BY <1>5, <2>1
  <2> QED
    BY <1>5, <2>2
<1>7. f = F(f)
  BY <1>6
<1>8. LookedAt(v, xs) = f[n].value
  BY DEF LookedAt
<1> HIDE DEF f
<1>9. f[0] = Seen(0, <<>>) /\ \A i \in 1..n : f[i] = LookAfter(v, f[i - 1], xs[i])
  BY <1>1, <1>7
<1> QED
  BY <1>8, <1>9 DEF ValuesLooked

\* r is what is seen of the values of m up to the k-th, behind which the offset n is.
SeesValues(r, m, k, n) ==
    /\ r = [ok |-> r.ok, off |-> r.off, value |-> r.value]
    /\ IsSeq(r.value) /\ Len(r.value) <= k
    /\ \A i \in 1..Len(r.value) : ~Cut(m.values[i]) => Says(m.values[i], r.value[i], i <= m.prepended)
    /\ r.ok => Len(r.value) = k /\ (k < Len(m.values) => r.off = n)

LEMMA ValueSeen ==
    ASSUME NEW v, IsView(v), NEW m, IsMessage(m), NEW i \in 1..Len(m.values),
           NEW n \in Nat, NEW e \in Seq(Cell), Holds(v, n, e), PartOf(e, m, i),
           i = Len(m.values) => n + Len(e) = v.size,
           NEW r, SeesValues(r, m, i - 1, n)
    PROVE  SeesValues(LookAfter(v, r, m.values[i]), m, i, n + Len(e))
<1> DEFINE x == m.values[i]
           one == PeekAny(v, r.off, x)
           ahead == i <= m.prepended
           val == r.value
           y == one.value
           t == Append(val, y)
           c == x.kind # "object"
           o == one.off
<1>1. /\ IsValue(x) /\ i \in Nat /\ i - 1 \in Nat /\ m.prepended \in Nat /\ Len(m.values) \in Nat /\ i <= Len(m.values)
      /\ i - 1 < Len(m.values) /\ Len(e) \in Nat
  BY MessageFacts
<1>2. AnyBytes(e, x, ahead)
  <2>1. CASE i <= m.prepended
    <3>1. ahead = TRUE
      BY <2>1
    <3> QED
      BY <2>1, <3>1 DEF PartOf
  <2>2. CASE ~(i <= m.prepended)
    <3>1. ahead = FALSE /\ i > m.prepended
      BY <1>1, <2>2
    <3> QED
      BY <3>1 DEF PartOf
  <2> QED
    BY <2>1, <2>2
<1>3. /\ r = [ok |-> r.ok, off |-> r.off, value |-> val]
      /\ IsSeq(val) /\ Len(val) <= i - 1 /\ Len(val) \in Nat
      /\ \A k \in 1..Len(val) : ~Cut(m.values[k]) => Says(m.values[k], val[k], k <= m.prepended)
      /\ r.ok => Len(val) = i - 1 /\ r.off = n
  <2>1. IsSeq(val)
    BY DEF SeesValues
  <2>2. Len(val) \in Nat
    BY <2>1, SeqFacts
  <2> QED
    BY <1>1, <2>1, <2>2 DEF SeesValues
<1>4. CASE ~(r.ok /\ CanPeek(x) /\ one.ok)
  <2> DEFINE off == r.off
  <2>1. LookAfter(v, r, x) = [r EXCEPT !.ok = FALSE]
    BY <1>4 DEF LookAfter
  <2> DEFINE was == r.ok
             z == FALSE
  <2>2. LookAfter(v, r, x) = [ok |-> FALSE, off |-> off, value |-> val]
    <3>1. r = [ok |-> was, off |-> off, value |-> val]
      BY <1>3
    <3>2. LookAfter(v, r, x) = [r EXCEPT !.ok = z]
      BY <2>1
    <3> HIDE DEF val, off, was, z
    <3>3. [r EXCEPT !.ok = z] = [ok |-> z, off |-> off, value |-> val]
      BY ONLY <3>1
    <3> QED
      BY <3>2, <3>3 DEF z
  <2> HIDE DEF val, off
  <2>3. Len(val) <= i
    BY <1>1, <1>3
  <2> DEFINE q == LookAfter(v, r, x)
  <2>4. q.ok = FALSE /\ q.off = off /\ q.value = val
    BY <2>2
  <2>5. q = [ok |-> q.ok, off |-> q.off, value |-> q.value]
    BY <2>2, <2>4
  <2>6. SUFFICES SeesValues(q, m, i, n + Len(e))
    OBVIOUS
  <2> HIDE DEF q
  <2> QED
    BY <1>3, <2>3, <2>4, <2>5 DEF SeesValues
<1>5. CASE r.ok /\ CanPeek(x) /\ one.ok
  <2>1. r.off = n /\ Len(val) = i - 1
    BY <1>3, <1>5
  <2>2. x.kind = "trailer" => n + Len(e) = v.size
    <3> HAVE x.kind = "trailer"
    <3>1. i \notin 1..(Len(m.values) - 1)
      BY DEF IsMessage, AtTheBack
    <3> QED
      BY <1>1, <3>1
  <2>3. x.kind = "trailer" => i = Len(m.values)
    <3> HAVE x.kind = "trailer"
    <3>1. i \notin 1..(Len(m.values) - 1)
      BY DEF IsMessage, AtTheBack
    <3> QED
      BY <1>1, <3>1
  <2>4. SeesAny(one, n, e, x, ahead)
    <3>1. one = PeekAny(v, n, x)
      BY <2>1
    <3>2. CanPeek(x)
      BY <1>5
    <3> HIDE DEF x, ahead, one
    <3>3. SeesAny(PeekAny(v, n, x), n, e, x, ahead)
      BY <1>1, <1>2, <2>2, <3>2, AnySeen
    <3> QED
      BY <3>1, <3>3
  <2>5. LookAfter(v, r, x) = [ok |-> c, off |-> o, value |-> t]
    BY <1>5 DEF LookAfter
  <2>6. /\ x.kind \notin {"trailer", "object"} => o = n + Len(e)
        /\ ~Cut(x) => Says(x, y, ahead)
    <3> HIDE DEF one
    <3> QED
      BY <1>5, <2>4 DEF SeesAny
  <2>7. c /\ i < Len(m.values) => o = n + Len(e)
    BY <1>1, <2>3, <2>6
  <2>8. ~Cut(m.values[i]) => Says(m.values[i], y, i <= m.prepended)
    BY <2>6
  <2> HIDE DEF val, y, one, o, c
  <2>9. IsSeq(t) /\ Len(t) = Len(val) + 1 /\ (\A k \in 1..Len(val) : t[k] = val[k]) /\ t[Len(val) + 1] = y
    BY <1>3, AppendFacts
  <2> HIDE DEF t
  <2>10. Len(t) = i /\ t[i] = y
    BY <1>1, <2>1, <2>9
  <2>11. ASSUME NEW k \in 1..Len(t), ~Cut(m.values[k])
         PROVE  Says(m.values[k], t[k], k <= m.prepended)
    <3>1. CASE k = i
      BY <2>8, <2>10, <2>11, <3>1
    <3>2. CASE k # i
      <4>1. k \in 1..Len(val)
        BY <1>1, <2>1, <2>10, <3>2
      <4> QED
        BY <1>3, <2>9, <2>11, <4>1
    <3> QED
      BY <3>1, <3>2
  <2> DEFINE q == LookAfter(v, r, x)
  <2>12. q.ok = c /\ q.off = o /\ q.value = t
    BY <2>5
  <2>13. q = [ok |-> q.ok, off |-> q.off, value |-> q.value]
    BY <2>5, <2>12
  <2>14. SUFFICES SeesValues(q, m, i, n + Len(e))
    OBVIOUS
  <2>15. Len(t) <= i
    BY <1>1, <2>10
  <2> HIDE DEF q
  <2> QED
    BY <2>7, <2>9, <2>10, <2>11, <2>12, <2>13, <2>15 DEF SeesValues
<1> QED
  BY <1>4, <1>5

\* The values that were looked at are those that were said.
LookedAs(values, m) ==
    \A k \in DOMAIN values : ~Cut(m.values[k]) => Says(m.values[k], values[k], k <= m.prepended)

LEMMA MessageLooked ==
    ASSUME NEW v, IsView(v), NEW m, IsMessage(m),
           NEW e \in Seq(Cell), Holds(v, 0, e), Len(e) = v.size, ValuesBytes(e, m, 1, Len(m.values))
    PROVE  LookedAs(LookedAt(v, m.values), m)
<1> DEFINE n == Len(m.values)
<1>1. n \in Nat /\ IsSeq(m.values)
  BY MessageFacts DEF AreValues
<1>2. PICK parts : \E o \in [0..n -> Nat] : PartsAt(v, m, n, o, parts) /\ o[n] = Len(e)
  BY PartsOfMessage
<1>3. PICK o \in [0..n -> Nat] : PartsAt(v, m, n, o, parts) /\ o[n] = Len(e)
  BY <1>2
<1>4. PICK g : /\ g[0] = Seen(0, <<>>) /\ ValuesLooked(v, g, m.values)
               /\ LookedAt(v, m.values) = g[n].value
  BY <1>1, LookedUnfolds
<1> DEFINE S == {i \in Nat : SeesValues(g[i], m, i, o[i])}
<1>5. 0 \in S
  <2>1. o[0] = 0
    BY <1>3 DEF PartsAt
  <2>2. g[0] = [ok |-> TRUE, off |-> 0, value |-> <<>>]
    BY <1>4 DEF Seen
  <2> DEFINE r == g[0]
  <2>3. r.ok /\ r.off = 0 /\ r.value = <<>>
    BY <2>2
  <2>4. r = [ok |-> r.ok, off |-> r.off, value |-> r.value]
    BY <2>2, <2>3
  <2> HIDE DEF r
  <2>5. SeesValues(r, m, 0, 0)
    BY <2>3, <2>4, EmptyIsSeq DEF SeesValues
  <2> QED
    BY <2>1, <2>5 DEF r
<1>6. ASSUME NEW i \in 1..n, i - 1 \in S
      PROVE  i \in S
  <2> DEFINE p == parts[i]
             a == o[i - 1]
  <2>1. i \in Nat /\ i - 1 \in 0..n /\ i \in 1..Len(m.values)
    BY <1>1
  <2>2. p \in Seq(Cell) /\ PartOf(p, m, i) /\ Holds(v, a, p) /\ o[i] = a + Len(p) /\ a \in Nat
    BY <1>3, <2>1 DEF PartsAt
  <2>3. SeesValues(g[i - 1], m, i - 1, a)
    BY <1>6
  <2>4. g[i] = LookAfter(v, g[i - 1], m.values[i])
    BY <1>4 DEF ValuesLooked
  <2>5. i = n => a + Len(p) = v.size
    BY <1>3, <2>2
  <2> HIDE DEF p, a, S
  <2>6. SeesValues(LookAfter(v, g[i - 1], m.values[i]), m, i, a + Len(p))
    BY <2>1, <2>2, <2>3, <2>5, ValueSeen
  <2>7. SeesValues(g[i], m, i, o[i])
    BY <2>2, <2>4, <2>6
  <2> QED
    BY <2>1, <2>7 DEF S
<1> HIDE DEF S
<1>7. \A i \in 0..n : i \in S
  BY <1>1, <1>5, <1>6, UpTo
<1>8. n \in S
  BY <1>1, <1>7
<1> DEFINE values == g[n].value
<1>9. /\ IsSeq(values)
      /\ \A i \in 1..Len(values) : ~Cut(m.values[i]) => Says(m.values[i], values[i], i <= m.prepended)
  BY <1>8 DEF S, SeesValues
<1> HIDE DEF values
<1>10. DOMAIN values = 1..Len(values)
  BY <1>9, SeqFacts
<1>11. LookedAs(values, m)
  BY <1>9, <1>10 DEF LookedAs
<1> QED
  BY <1>4, <1>11 DEF values

-----------------------------------------------------------------------------
(* The receiver *)

LEMMA ContentsFacts ==
    ASSUME NEW v, IsView(v)
    PROVE  /\ Contents(v) \in Seq(Cell) /\ Len(Contents(v)) = v.size /\ v.size \in Nat
           /\ Contents(v) = SubSeq(v.mem, v.at + 1, v.at + v.size)
<1> DEFINE a == v.at
           n == v.size
           b == Bytes(v, 0, n)
<1>1. 0 \in Nat /\ a \in Nat /\ n \in Nat /\ 0 + n <= n /\ a + 0 = a
  BY ViewFacts
<1>2. b \in Seq(Cell) /\ Len(b) = n /\ b = SubSeq(v.mem, (a + 0) + 1, (a + 0) + n)
  <2>1. 0 + n <= v.size
    BY <1>1
  <2> HIDE DEF n
  <2> QED
    BY <1>1, <2>1, SlicesOfViews
<1> HIDE DEF b
<1>3. b = SubSeq(v.mem, a + 1, a + n)
  BY <1>1, <1>2
<1> QED
  BY <1>1, <1>2, <1>3 DEF Contents, b

LEMMA FrontOfBoth ==
    ASSUME NEW s \in Seq(Cell), NEW t \in Seq(Cell), NEW k \in 0..Len(s)
    PROVE  SubSeq(s \o t, 1, k) = SubSeq(s, 1, k)
<1> DEFINE d == s \o t
<1>1. d \in Seq(Cell) /\ Len(d) = Len(s) + Len(t) /\ Len(s) \in Nat /\ Len(t) \in Nat
  BY ConcatProperties
<1>2. \A i \in 1..(Len(s) + Len(t)) : d[i] = IF i <= Len(s) THEN s[i] ELSE t[i - Len(s)]
  BY ConcatProperties
<1>3. \A i \in (0 + 1)..k : d[i] = s[i]
  <2>1. \A i \in (0 + 1)..k : i \in 1..(Len(s) + Len(t)) /\ i <= Len(s)
    BY <1>1
  <2> QED
    BY <1>2, <2>1
<1> HIDE DEF d
<1>4. k \in Nat /\ k <= Len(s) /\ k <= Len(d) /\ 0 \in Nat
  BY <1>1
<1>5. SubSeq(d, 0 + 1, k) = SubSeq(s, 0 + 1, k)
  BY <1>1, <1>3, <1>4, SlicesAgree
<1>6. 0 + 1 = 1
  OBVIOUS
<1> QED
  BY <1>5, <1>6 DEF d

LEMMA RestOfBoth ==
    ASSUME NEW s \in Seq(Cell), NEW t \in Seq(Cell), NEW k \in 0..Len(s)
    PROVE  /\ SubSeq(s \o t, k + 1, Len(s \o t)) = SubSeq(s, k + 1, Len(s)) \o t
           /\ SubSeq(s, k + 1, Len(s)) \in Seq(Cell)
<1> DEFINE d == s \o t
           n == Len(s)
           z == Len(d)
<1>1. d \in Seq(Cell) /\ z = n + Len(t) /\ n \in Nat /\ Len(t) \in Nat /\ k \in Nat /\ k <= n
  BY ConcatProperties
<1>2. \A i \in 1..(n + Len(t)) : d[i] = IF i <= n THEN s[i] ELSE t[i - n]
  BY ConcatProperties
<1> HIDE DEF d, n
<1>3. \A i \in (k + 1)..n : d[i] = s[i]
  <2>1. \A i \in (k + 1)..n : i \in 1..(n + Len(t)) /\ i <= n
    BY <1>1
  <2> QED
    BY <1>2, <2>1
<1>4. SubSeq(d, k + 1, z) = SubSeq(s, k + 1, n) \o SubSeq(d, n + 1, z) /\ SubSeq(s, k + 1, n) \in Seq(Cell)
  <2>1. n <= z /\ z <= Len(d) /\ n <= Len(s) /\ z \in Nat /\ s \in Seq(Cell)
    BY <1>1 DEF n
  <2>2. d \in Seq(Cell) /\ k \in Nat /\ n \in Nat /\ k <= n
    BY <1>1
  <2> HIDE DEF z
  <2> QED
    BY ONLY <1>3, <2>1, <2>2, SliceSteps
<1>5. SubSeq(d, n + 1, z) = t
  <2> DEFINE u == SubSeq(d, n + 1, z)
  <2>1. u \in Seq(Cell) /\ Len(u) = Len(t) /\ \A i \in 1..Len(t) : u[i] = d[n + i]
    <3>1. z <= Len(d) /\ n <= z /\ z - n = Len(t) /\ z \in Nat
      BY <1>1
    <3>2. d \in Seq(Cell) /\ n \in Nat /\ Len(t) \in Nat
      BY <1>1
    <3> HIDE DEF z
    <3>3. Len(u) = z - n /\ u \in Seq(Cell)
      BY ONLY <3>1, <3>2 DEF u
    <3>4. \A i \in 1..(z - n) : u[i] = d[n + i]
      BY ONLY <3>1, <3>2 DEF u
    <3> QED
      BY <3>1, <3>3, <3>4
  <2> HIDE DEF u
  <2>2. \A i \in 1..Len(t) : u[i] = t[i]
    <3>1. \A i \in 1..Len(t) : n + i \in 1..(n + Len(t)) /\ ~(n + i <= n) /\ (n + i) - n = i
      BY <1>1
    <3> QED
      BY <1>2, <2>1, <3>1
  <2>3. u = t
    BY <2>1, <2>2, SeqEqual
  <2> QED
    BY <2>3 DEF u
<1> QED
  BY <1>4, <1>5 DEF d, n, z

LEMMA BlockReplaced ==
    ASSUME NEW bs \in Seq(Seq(Cell)), Len(bs) >= 1, NEW mem \in Seq(Cell), NEW cs, cs = [bs EXCEPT ![Len(bs)] = mem]
    PROVE  /\ cs \in Seq(Seq(Cell)) /\ Len(cs) = Len(bs) /\ cs[Len(bs)] = mem /\ Len(bs) \in Nat
           /\ \A i \in 1..Len(bs) : i # Len(bs) => cs[i] = bs[i]
<1> DEFINE n == Len(bs)
<1>1. n \in Nat /\ n \in 1..n /\ DOMAIN bs = 1..n /\ \A i \in 1..n : bs[i] \in Seq(Cell)
  BY ElementOfSeq
<1> HIDE DEF n
<1>2. cs = [i \in 1..n |-> IF i = n THEN mem ELSE bs[i]]
  BY <1>1 DEF n
<1>3. cs \in [1..n -> Seq(Cell)]
  BY <1>1, <1>2
<1>4. cs \in Seq(Seq(Cell)) /\ Len(cs) = n
  BY <1>1, <1>3
<1>5. cs[n] = mem /\ \A i \in 1..n : i # n => cs[i] = bs[i]
  BY <1>1, <1>2
<1> QED
  BY <1>1, <1>4, <1>5 DEF n

\* A message that is kept is still in its block.
KeptIn(q, bs) ==
    /\ q.block \in 1..Len(bs) /\ q.at \in Nat /\ q.size \in Nat /\ q.at + q.size <= Len(bs[q.block])
    /\ SubSeq(bs[q.block], q.at + 1, q.at + q.size) = q.bytes

LEMMA KeptBefore ==
    ASSUME NEW bs \in Seq(Seq(Cell)), Len(bs) >= 1, NEW mem \in Seq(Cell), NEW cs, cs = [bs EXCEPT ![Len(bs)] = mem],
           NEW p \in Nat, Len(mem) = Len(bs[Len(bs)]), \A j \in 1..p : mem[j] = bs[Len(bs)][j],
           NEW q, KeptIn(q, bs), q.block = Len(bs) => q.at + q.size <= p
    PROVE  KeptIn(q, cs)
<1> DEFINE n == Len(bs)
           old == bs[n]
           a == q.at
           z == a + q.size
<1>1. /\ Len(cs) = n /\ cs[n] = mem /\ n \in Nat
      /\ \A i \in 1..n : i # n => cs[i] = bs[i]
  BY BlockReplaced
<1>2. q.block \in 1..n /\ a \in Nat /\ q.size \in Nat /\ z <= Len(bs[q.block]) /\ SubSeq(bs[q.block], a + 1, z) = q.bytes
      /\ z \in Nat
  BY DEF KeptIn
<1>3. CASE q.block # n
  <2>1. cs[q.block] = bs[q.block]
    BY <1>1, <1>2, <1>3
  <2> QED
    BY <1>1, <1>2, <2>1 DEF KeptIn
<1>4. CASE q.block = n
  <2>1. z <= p /\ z <= Len(old) /\ Len(mem) = Len(old) /\ \A j \in 1..p : mem[j] = old[j]
    BY <1>2, <1>4
  <2>2. old \in Seq(Cell)
    <3>1. n \in 1..Len(bs)
      <4>1. Len(bs) \in Nat /\ Len(bs) >= 1
        OBVIOUS
      <4> QED
        BY ONLY <4>1
    <3> QED
      BY <3>1, ElementOfSeq
  <2> HIDE DEF old, z, n, a
  <2>3. \A j \in (a + 1)..z : old[j] = mem[j]
    BY <1>2, <2>1
  <2>4. SubSeq(old, a + 1, z) = SubSeq(mem, a + 1, z)
    BY <1>2, <2>1, <2>2, <2>3, SlicesAgree
  <2>5. cs[q.block] = mem /\ bs[q.block] = old
    BY <1>1, <1>4 DEF old
  <2> QED
    BY <1>1, <1>2, <2>1, <2>4, <2>5 DEF KeptIn, z, a
<1> QED
  BY <1>3, <1>4

Pending == IF step \in {"send", "failed"} THEN Bytes(buf, sent, buf.size - sent) ELSE <<>>
Stream == (Contents(Received) \o wire) \o Pending

\* Where the bytes are.
BlocksOK ==
    /\ blocks \in Seq(Seq(Cell)) /\ Len(blocks) >= 1
    /\ received \in [at : Nat, size : Nat] /\ received.at + received.size <= Len(Block)
    /\ room \in [at : Nat, size : Nat]
    /\ wire \in Seq(Cell)
    /\ last \in Nat /\ arrived \in Nat
    /\ handler # "closed" => room.at + room.size = Len(Block)
    /\ handler = "reading" => room.at = received.at + received.size /\ room.size >= MinRoom
    /\ handler = "framing" => room.at + arrived = received.at + received.size /\ arrived <= room.size

\* What is said of a message that was heard.
HeardOK(h, m) ==
    /\ h.ok <=> AllFit(m)
    /\ h.ok => /\ h.left = 0
               /\ \A k \in DOMAIN m.values : Says(m.values[k], Restored(m.values, h.values)[k], k <= m.prepended)
    /\ LookedAs(h.looked, m)

SaidOK == said \in Seq(Nat) /\ \A i \in 1..Len(said) : said[i] \in 1..Len(setting)
AllHeard == IsSeq(heard) /\ Len(heard) <= Len(said) /\ \A i \in 1..Len(heard) : HeardOK(heard[i], setting[said[i]])
AllKept ==
    /\ IsSeq(kept)
    /\ \A i \in 1..Len(kept) :
          /\ KeptIn(kept[i], blocks)
          /\ handler # "closed" /\ kept[i].block = Len(blocks) => kept[i].at + kept[i].size <= received.at
Refusal == \E i \in DOMAIN said : ~Acceptable(setting[said[i]])

ReceiverOK ==
    /\ handler \in {"reading", "framing", "closed"}
    /\ BlocksOK /\ SaidOK /\ AllHeard /\ AllKept
    /\ handler # "closed" => FramesOf(Stream, setting, said, Len(heard))
    /\ handler = "reading" => Incomplete
    /\ handler = "closed" => Refusal

-----------------------------------------------------------------------------
(* The sender's steps *)

LEMMA QuietStep ==
    ASSUME ReceiverOK, UNCHANGED <<setting, said, wire, receiver>>, handler # "closed" => Pending' = Pending
    PROVE  ReceiverOK'
<1>1. /\ setting' = setting /\ said' = said /\ wire' = wire /\ blocks' = blocks /\ received' = received /\ room' = room
      /\ handler' = handler /\ arrived' = arrived /\ last' = last /\ heard' = heard /\ kept' = kept
  BY DEF receiver
<1>2. Block' = Block /\ Received' = Received
  BY <1>1 DEF Block, Received
<1>3. BlocksOK' /\ SaidOK' /\ AllHeard' /\ AllKept' /\ (handler' = "closed" => Refusal')
  BY <1>1, <1>2 DEF ReceiverOK, BlocksOK, SaidOK, AllHeard, AllKept, Refusal
<1>4. handler' # "closed" => FramesOf(Stream', setting', said', Len(heard'))
  <2>1. handler # "closed" => Stream' = Stream
    BY <1>1, <1>2 DEF Stream
  <2> QED
    BY <1>1, <2>1 DEF ReceiverOK
<1>5. handler' = "reading" => Incomplete'
  <2>1. MessageSize' = MessageSize
    BY <1>2 DEF MessageSize
  <2> QED
    BY <1>1, <2>1 DEF ReceiverOK, Incomplete
<1>6. handler' \in {"reading", "framing", "closed"}
  BY <1>1 DEF ReceiverOK
<1> QED
  BY <1>3, <1>4, <1>5, <1>6 DEF ReceiverOK

LEMMA ReceivedIsView ==
    ASSUME BlocksOK
    PROVE  /\ IsView(Received) /\ Block \in Seq(Cell) /\ Received.mem = Block /\ Received.at = received.at
           /\ Received.size = received.size /\ received.at \in Nat /\ received.size \in Nat
           /\ Contents(Received) \in Seq(Cell) /\ Len(Contents(Received)) = received.size
<1>1. Len(blocks) \in 1..Len(blocks)
  <2>1. Len(blocks) \in Nat /\ Len(blocks) >= 1
    BY DEF BlocksOK
  <2> QED
    BY ONLY <2>1
<1>2. Block \in Seq(Cell)
  <2>1. blocks \in Seq(Seq(Cell))
    BY DEF BlocksOK
  <2> QED
    BY <1>1, <2>1, ElementOfSeq DEF Block
<1>3. received.at \in Nat /\ received.size \in Nat /\ received.at + received.size <= Len(Block)
  BY DEF BlocksOK
<1>4. Received.mem = Block /\ Received.at = received.at /\ Received.size = received.size
  BY DEF Received
<1>5. IsView(Received)
  BY <1>2, <1>3 DEF IsView, Views, Received
<1> QED
  BY <1>2, <1>3, <1>4, <1>5, ContentsFacts

LEMMA SliceOnce ==
    ASSUME NEW V, NEW s \in Seq(V), NEW p \in Nat, NEW q \in Nat, NEW r \in Nat, p <= q, q <= r, r <= Len(s)
    PROVE  /\ SubSeq(s, p + 1, r) = SubSeq(s, p + 1, q) \o SubSeq(s, q + 1, r)
           /\ SubSeq(s, p + 1, q) \in Seq(V) /\ SubSeq(s, q + 1, r) \in Seq(V)
           /\ Len(SubSeq(s, p + 1, q)) = q - p /\ Len(SubSeq(s, q + 1, r)) = r - q
<1>1. PICK t : t = s
  OBVIOUS
<1>2. t \in Seq(V) /\ \A i \in (p + 1)..q : t[i] = s[i]
  BY <1>1
<1>3. s \in Seq(V) /\ q <= Len(s) /\ r <= Len(t)
  <2>1. Len(s) \in Nat /\ Len(t) = Len(s)
    BY <1>1
  <2> QED
    BY <2>1
<1>4. p \in Nat /\ q \in Nat /\ r \in Nat /\ p <= q /\ q <= r
  OBVIOUS
<1>5. /\ SubSeq(t, p + 1, r) = SubSeq(s, p + 1, q) \o SubSeq(t, q + 1, r)
      /\ SubSeq(s, p + 1, q) \in Seq(V) /\ SubSeq(t, q + 1, r) \in Seq(V)
      /\ Len(SubSeq(s, p + 1, q)) = q - p /\ Len(SubSeq(t, q + 1, r)) = r - q
  BY ONLY <1>2, <1>3, <1>4, SliceSteps
<1> QED
  BY ONLY <1>1, <1>5

\* What the buffer holds, from the k-th byte on.
LEMMA BufferSlices ==
    ASSUME NEW b, IsBuffer(b), b.ok, NEW k \in 0..b.size, NEW n \in 0..(b.size - k)
    PROVE  /\ Bytes(b, k, n) \in Seq(Cell) /\ Len(Bytes(b, k, n)) = n
           /\ Bytes(b, k, b.size - k) = Bytes(b, k, n) \o Bytes(b, k + n, b.size - (k + n))
           /\ Bytes(b, k + n, b.size - (k + n)) \in Seq(Cell)
           /\ Bytes(b, 0, b.size) = Contents(b)
<1> DEFINE mem == b.mem
           a == b.at
           z == b.size
           p == a + k
           q == p + n
           r == a + z
<1>1. mem \in Seq(Cell) /\ a \in Nat /\ z \in Nat /\ a + z <= Len(mem)
  BY DEF IsBuffer, End, Buffers
<1> HIDE DEF mem, a, z
<1>2. k \in Nat /\ n \in Nat /\ k + n <= z
  <2>1. k \in 0..z /\ n \in 0..(z - k)
    BY DEF z
  <2> QED
    BY ONLY <1>1, <2>1
<1>3. p \in Nat /\ q \in Nat /\ r \in Nat /\ p <= q /\ q <= r /\ r <= Len(mem) /\ q <= Len(mem)
  BY <1>1, <1>2
<1>4. /\ a + k + 1 = p + 1 /\ a + k + n = q /\ a + k + (z - k) = r
      /\ a + (k + n) + 1 = q + 1 /\ a + (k + n) + (z - (k + n)) = r /\ q - p = n
  BY <1>1, <1>2
<1>5. Bytes(b, k, n) = SubSeq(mem, p + 1, q) /\ Bytes(b, k, z - k) = SubSeq(mem, p + 1, r)
      /\ Bytes(b, k + n, z - (k + n)) = SubSeq(mem, q + 1, r)
  BY <1>4 DEF Bytes, mem, a
<1> HIDE DEF p, q, r
<1>6. /\ SubSeq(mem, p + 1, r) = SubSeq(mem, p + 1, q) \o SubSeq(mem, q + 1, r)
      /\ SubSeq(mem, p + 1, q) \in Seq(Cell) /\ SubSeq(mem, q + 1, r) \in Seq(Cell)
      /\ Len(SubSeq(mem, p + 1, q)) = q - p
  <2>1. mem \in Seq(Cell)
    BY <1>1
  <2>2. p \in Nat /\ q \in Nat /\ r \in Nat /\ p <= q /\ q <= r /\ r <= Len(mem)
    BY <1>3
  <2> QED
    BY ONLY <2>1, <2>2, SliceOnce
<1> QED
  BY <1>4, <1>5, <1>6 DEF z, Contents

LEMMA FrameInBuffer ==
    ASSUME SenderOK, step \in {"header", "send", "failed"}
    PROVE  /\ IsBuffer(buf) /\ buf.ok /\ buf.size \in Nat /\ IsFrame(Contents(buf), Message) /\ building \in 1..Len(setting)
           /\ Contents(buf) \in Seq(Cell)
<1>1. FrameIn(Message, buf) /\ AtMessage /\ step # "allocate"
  BY DEF SenderOK
<1>2. Len(setting) \in Nat
  BY <1>1, AtMessageFacts
<1>3. building \in 1..(Len(setting) + 1) /\ building <= Len(setting)
  BY <1>1 DEF AtMessage
<1>4. building \in 1..Len(setting)
  BY ONLY <1>2, <1>3
<1> QED
  BY <1>1, <1>4 DEF FrameIn, IsFrame, IsBuffer

LEMMA QuietSender ==
    ASSUME ReceiverOK, SenderOK,
           Allocate \/ AppendValue \/ PrependValue \/ Refused \/ SetHeader \/ WriteFails \/ SendReturns \/ UNCHANGED vars
    PROVE  ReceiverOK'
<1>1. UNCHANGED <<setting, said, wire, receiver>>
  BY DEF Allocate, AppendValue, PrependValue, Refused, SetHeader, WriteFails, SendReturns, vars, sender
<1>2. handler # "closed" => Pending' = Pending
  <2> SUFFICES ASSUME handler # "closed" PROVE Pending' = Pending
    OBVIOUS
  <2>1. CASE Allocate \/ AppendValue \/ PrependValue \/ Refused \/ SetHeader
    <3>1. step \notin {"send", "failed"} /\ step' \notin {"send", "failed"}
      BY <2>1 DEF Allocate, AppendValue, PrependValue, Refused, SetHeader
    <3> QED
      BY <3>1 DEF Pending
  <2>2. CASE WriteFails
    BY <2>2 DEF WriteFails
  <2>3. CASE SendReturns
    <3>1. step = "send" /\ sent = buf.size /\ step' = "allocate"
      BY <2>3 DEF SendReturns
    <3>2. IsBuffer(buf) /\ buf.ok /\ buf.size \in Nat
      BY <3>1, FrameInBuffer
    <3>3. buf.size \in 0..buf.size /\ buf.size - buf.size = 0 /\ 0 \in 0..(buf.size - buf.size)
      BY <3>2
    <3>4. Bytes(buf, buf.size, 0) \in Seq(Cell) /\ Len(Bytes(buf, buf.size, 0)) = 0
      BY <3>2, <3>3, BufferSlices
    <3>5. Bytes(buf, buf.size, 0) = <<>>
      BY <3>4
    <3>6. Pending = Bytes(buf, sent, buf.size - sent)
      BY <3>1 DEF Pending
    <3>7. Pending = <<>>
      BY <3>1, <3>3, <3>5, <3>6
    <3>8. Pending' = <<>>
      BY <3>1 DEF Pending
    <3> QED
      BY <3>7, <3>8
  <2>4. CASE UNCHANGED vars
    BY <2>4 DEF vars, sender, Pending
  <2> QED
    BY <2>1, <2>2, <2>3, <2>4
<1> QED
  BY <1>1, <1>2, QuietStep

LEMMA StreamTyped ==
    ASSUME ReceiverOK, SenderOK
    PROVE  Contents(Received) \in Seq(Cell) /\ wire \in Seq(Cell) /\ Pending \in Seq(Cell) /\ Stream \in Seq(Cell)
<1>1. Contents(Received) \in Seq(Cell) /\ wire \in Seq(Cell)
  BY ReceivedIsView DEF ReceiverOK, BlocksOK
<1>2. Pending \in Seq(Cell)
  <2>1. CASE step \in {"send", "failed"}
    <3>1. IsBuffer(buf) /\ buf.ok /\ buf.size \in Nat
      BY <2>1, FrameInBuffer
    <3>2. sent \in 0..buf.size
      BY <2>1 DEF SenderOK
    <3>3. buf.size - sent \in 0..(buf.size - sent)
      BY <3>1, <3>2
    <3>4. Bytes(buf, sent, buf.size - sent) \in Seq(Cell)
      BY <3>1, <3>2, <3>3, BufferSlices
    <3> QED
      BY <2>1, <3>4 DEF Pending
  <2>2. CASE step \notin {"send", "failed"}
    BY <2>2 DEF Pending
  <2> QED
    BY <2>1, <2>2
<1>3. Stream \in Seq(Cell)
  BY <1>1, <1>2 DEF Stream
<1> QED
  BY <1>1, <1>2, <1>3

LEMMA SendStep ==
    ASSUME ReceiverOK, SenderOK, Send
    PROVE  ReceiverOK'
<1>1. /\ step = "header" /\ handler # "closed" /\ said' = Append(said, building) /\ sent' = 0 /\ step' = "send" /\ buf' = buf
      /\ wire' = wire /\ setting' = setting
      /\ blocks' = blocks /\ received' = received /\ room' = room
      /\ handler' = handler /\ arrived' = arrived /\ last' = last /\ heard' = heard /\ kept' = kept
  BY DEF Send, receiver
<1>2. IsBuffer(buf) /\ buf.ok /\ buf.size \in Nat /\ IsFrame(Contents(buf), Message) /\ building \in 1..Len(setting)
      /\ Contents(buf) \in Seq(Cell)
  BY <1>1, FrameInBuffer
<1>3. Block' = Block /\ Received' = Received
  BY <1>1 DEF Block, Received
<1>4. BlocksOK' /\ AllKept'
  BY <1>1, <1>3 DEF ReceiverOK, BlocksOK, AllKept
<1> DEFINE n == Len(said)
<1>5. said \in Seq(Nat) /\ n \in Nat /\ \A i \in 1..n : said[i] \in 1..Len(setting)
  BY DEF ReceiverOK, SaidOK
<1>6. building \in Nat
  BY <1>2
<1>7. said' \in Seq(Nat) /\ Len(said') = n + 1 /\ said'[n + 1] = building /\ \A i \in 1..n : said'[i] = said[i]
  <2>1. said \in Seq(Nat) /\ building \in Nat
    BY <1>5, <1>6
  <2> QED
    BY <1>1, <2>1
<1> HIDE DEF n
<1>8. SaidOK'
  <2>1. \A i \in 1..(n + 1) : said'[i] \in 1..Len(setting)
    <3>1. \A i \in 1..(n + 1) : i = n + 1 \/ i \in 1..n
      BY <1>5
    <3> QED
      BY <1>2, <1>5, <1>7, <3>1
  <2> QED
    BY <1>1, <1>7, <2>1 DEF SaidOK
<1>9. AllHeard'
  <2>1. IsSeq(heard) /\ Len(heard) <= n /\ \A i \in 1..Len(heard) : HeardOK(heard[i], setting[said[i]])
    BY DEF ReceiverOK, AllHeard, n
  <2>2. Len(heard) \in Nat
    BY <2>1, SeqFacts
  <2>3. Len(heard) <= n + 1 /\ \A i \in 1..Len(heard) : i \in 1..n
    BY <1>5, <2>1, <2>2
  <2>4. \A i \in 1..Len(heard) : said'[i] = said[i]
    BY <1>7, <2>3
  <2> QED
    BY <1>1, <1>7, <2>1, <2>3, <2>4 DEF AllHeard
<1>10. handler' # "closed"
  BY <1>1
<1>11. handler' = "reading" => Incomplete'
  <2>1. MessageSize' = MessageSize
    BY <1>3 DEF MessageSize
  <2> QED
    BY <1>1, <2>1 DEF ReceiverOK, Incomplete
<1>12. FramesOf(Stream', setting', said', Len(heard'))
  <2> DEFINE s == Contents(Received) \o wire
             f == Contents(buf)
  <2>1. Pending = <<>>
    BY <1>1 DEF Pending
  <2>2. Pending' = f
    <3>1. Pending' = Bytes(buf, 0, buf.size - 0)
      BY <1>1 DEF Pending
    <3>2. buf.size - 0 = buf.size
      BY <1>2
    <3> QED
      BY <3>1, <3>2 DEF Contents
  <2>3. Stream = s \o <<>> /\ s \in Seq(Cell)
    BY <2>1, StreamTyped DEF Stream
  <2>4. Stream = s
    BY <2>3
  <2>5. Stream' = s \o f
    BY <1>1, <1>3, <2>2 DEF Stream
  <2>6. FramesOf(Stream, setting, said, Len(heard))
    BY <1>1 DEF ReceiverOK
  <2>7. Len(heard) \in Nat
    BY SeqFacts DEF ReceiverOK, AllHeard
  <2> HIDE DEF s, f
  <2>8. f \in Seq(Cell) /\ IsFrame(f, setting[building])
    BY <1>2 DEF f, Message
  <2>9. FramesOf(s, setting, said, Len(heard))
    BY <2>4, <2>6
  <2>10. FramesOf(s \o f, setting, Append(said, building), Len(heard))
    BY ONLY <1>5, <1>6, <2>3, <2>7, <2>8, <2>9, FramesMore
  <2> QED
    BY <1>1, <2>5, <2>10
<1> QED
  BY <1>1, <1>4, <1>8, <1>9, <1>10, <1>11, <1>12 DEF ReceiverOK

LEMMA WriteSomeStep ==
    ASSUME ReceiverOK, SenderOK, WriteSome
    PROVE  ReceiverOK'
<1>1. /\ step = "send" /\ handler # "closed" /\ sent < buf.size
      /\ step' = step /\ buf' = buf /\ said' = said /\ setting' = setting
      /\ blocks' = blocks /\ received' = received /\ room' = room
      /\ handler' = handler /\ arrived' = arrived /\ last' = last /\ heard' = heard /\ kept' = kept
  BY DEF WriteSome, receiver
<1>2. PICK n \in {1, buf.size - sent} : wire' = wire \o Bytes(buf, sent, n) /\ sent' = sent + n
  BY DEF WriteSome
<1>3. IsBuffer(buf) /\ buf.ok /\ buf.size \in Nat
  BY <1>1, FrameInBuffer
<1>4. sent \in 0..buf.size
  BY <1>1 DEF SenderOK
<1>5. n \in 0..(buf.size - sent)
  <2> DEFINE z == buf.size
  <2>1. z \in Nat /\ sent \in 0..z /\ sent < z /\ n \in {1, z - sent}
    BY <1>1, <1>2, <1>3, <1>4
  <2> HIDE DEF z
  <2>2. n \in 0..(z - sent)
    BY ONLY <2>1
  <2> QED
    BY <2>2 DEF z
<1> DEFINE x == Bytes(buf, sent, n)
           y == Bytes(buf, sent + n, buf.size - (sent + n))
           c == Contents(Received)
<1>6. x \in Seq(Cell) /\ y \in Seq(Cell) /\ Bytes(buf, sent, buf.size - sent) = x \o y
  BY <1>3, <1>4, <1>5, BufferSlices
<1>7. c \in Seq(Cell) /\ wire \in Seq(Cell)
  BY StreamTyped
<1>8. Block' = Block /\ Received' = Received
  BY <1>1 DEF Block, Received
<1>9. Pending = x \o y /\ Pending' = y
  BY <1>1, <1>2, <1>6 DEF Pending
<1>10. Stream = (c \o wire) \o (x \o y) /\ Stream' = (c \o (wire \o x)) \o y
  BY <1>2, <1>8, <1>9 DEF Stream
<1> HIDE DEF x, y, c
<1>11. Stream' = Stream
  <2>1. c \o (wire \o x) = (c \o wire) \o x
    BY ONLY <1>6, <1>7, ConcatAssociative
  <2>2. c \o wire \in Seq(Cell)
    BY ONLY <1>7, SeqJoined
  <2>3. ((c \o wire) \o x) \o y = (c \o wire) \o (x \o y)
    BY ONLY <1>6, <2>2, ConcatAssociative, SMTT(30)
  <2> QED
    BY <1>10, <2>1, <2>3
<1>12. wire' \in Seq(Cell)
  <2>1. wire \o x \in Seq(Cell)
    BY ONLY <1>6, <1>7, SeqJoined
  <2> QED
    BY <1>2, <2>1 DEF x
<1>13. BlocksOK' /\ SaidOK' /\ AllHeard' /\ AllKept' /\ (handler' = "closed" => Refusal')
  BY <1>1, <1>8, <1>12 DEF ReceiverOK, BlocksOK, SaidOK, AllHeard, AllKept, Refusal
<1>14. handler' = "reading" => Incomplete'
  <2>1. MessageSize' = MessageSize
    BY <1>8 DEF MessageSize
  <2> QED
    BY <1>1, <2>1 DEF ReceiverOK, Incomplete
<1> QED
  BY <1>1, <1>11, <1>13, <1>14 DEF ReceiverOK

\* How many bytes a read receives.
LEMMA ReceivedBytes ==
    ASSUME NEW w \in Seq(Cell), w # <<>>, NEW z \in Nat, z > 0, NEW n \in {1, Min({Len(w), z})}
    PROVE  n \in Nat /\ n >= 1 /\ n <= Len(w) /\ n <= z
<1> DEFINE k == Len(w)
           least == Min({k, z})
<1>1. k \in Nat /\ k >= 1
  OBVIOUS
<1>2. {k, z} \subseteq Nat /\ {k, z} # {}
  BY <1>1
<1>3. least \in {k, z} /\ \A s \in {k, z} : least <= s
  BY ONLY <1>2, MinFacts
<1> HIDE DEF least
<1>4. n \in {1, least}
  BY DEF least
<1> HIDE DEF k
<1> QED
  BY <1>1, <1>3, <1>4 DEF k

LEMMA ReceiveStep ==
    ASSUME ReceiverOK, SenderOK, Receive
    PROVE  ReceiverOK'
<1>1. /\ handler = "reading" /\ wire # <<>> /\ room.size > 0 /\ handler' = "framing" /\ last' = 0
      /\ setting' = setting /\ step' = step /\ buf' = buf /\ sent' = sent /\ said' = said
      /\ room' = room /\ heard' = heard /\ kept' = kept
  BY DEF Receive, sender
<1>2. PICK n \in {1, Min({Len(wire), room.size})} :
          /\ blocks' = [blocks EXCEPT ![Len(blocks)] = Written(blocks[Len(blocks)], room.at, SubSeq(wire, 1, n))]
          /\ wire' = SubSeq(wire, n + 1, Len(wire))
          /\ received' = [received EXCEPT !.size = received.size + n]
          /\ arrived' = n
  BY DEF Receive
<1>3. BlocksOK /\ SaidOK /\ AllHeard /\ AllKept /\ FramesOf(Stream, setting, said, Len(heard))
  BY <1>1 DEF ReceiverOK
<1>4. /\ blocks \in Seq(Seq(Cell)) /\ Len(blocks) >= 1 /\ wire \in Seq(Cell)
      /\ received \in [at : Nat, size : Nat] /\ room \in [at : Nat, size : Nat]
      /\ room.at + room.size = Len(Block) /\ room.at = received.at + received.size
  BY <1>1, <1>3 DEF BlocksOK
<1> DEFINE a == received.at
           z == received.size
           q == a + z
           free == room.size
           x == SubSeq(wire, 1, n)
           rest == SubSeq(wire, n + 1, Len(wire))
           mem == Block
           w == Written(mem, q, x)
           c == Contents(Received)
<1>5. /\ mem \in Seq(Cell) /\ a \in Nat /\ z \in Nat /\ c \in Seq(Cell)
  BY <1>3, ReceivedIsView
<1>6. free \in Nat /\ q \in Nat /\ q + free = Len(mem) /\ room.at = q
  BY <1>4, <1>5
<1>7. n \in Nat /\ n >= 1 /\ n <= Len(wire) /\ n <= free
  BY <1>1, <1>2, <1>4, <1>6, ReceivedBytes
<1>8. x \in Seq(Cell) /\ Len(x) = n /\ rest \in Seq(Cell) /\ x \o rest = wire
  <2>1. 0 \in Nat /\ 0 <= n /\ n <= Len(wire) /\ Len(wire) <= Len(wire) /\ Len(wire) \in Nat /\ n \in Nat
    BY <1>4, <1>7
  <2>2. /\ SubSeq(wire, 0 + 1, Len(wire)) = SubSeq(wire, 0 + 1, n) \o SubSeq(wire, n + 1, Len(wire))
        /\ SubSeq(wire, 0 + 1, n) \in Seq(Cell) /\ SubSeq(wire, n + 1, Len(wire)) \in Seq(Cell)
        /\ Len(SubSeq(wire, 0 + 1, n)) = n - 0
    <3>1. wire \in Seq(Cell)
      BY <1>4
    <3>2. 0 \in Nat
      OBVIOUS
    <3> DEFINE u == wire
               k == Len(u)
               o == 0
    <3>3. u \in Seq(Cell) /\ k \in Nat /\ n \in Nat /\ o \in Nat /\ o <= n /\ n <= k /\ k <= Len(u)
      BY <2>1, <3>1, <3>2
    <3> HIDE DEF u, k, o
    <3>4. /\ SubSeq(u, o + 1, k) = SubSeq(u, o + 1, n) \o SubSeq(u, n + 1, k)
          /\ SubSeq(u, o + 1, n) \in Seq(Cell) /\ SubSeq(u, n + 1, k) \in Seq(Cell)
          /\ Len(SubSeq(u, o + 1, n)) = n - o
      BY ONLY <3>3, SliceOnce
    <3> QED
      BY <3>4 DEF u, k, o
  <2>3. SubSeq(wire, 1, Len(wire)) = wire
    BY <1>4
  <2>4. 0 + 1 = 1 /\ n - 0 = n
    BY <1>7
  <2> QED
    BY <2>2, <2>3, <2>4
<1>9. blocks' = [blocks EXCEPT ![Len(blocks)] = w] /\ wire' = rest
  BY <1>2, <1>6 DEF Block
<1>10. received' = [at |-> a, size |-> z + n]
  <2>1. received = [at |-> received.at, size |-> received.size]
    BY <1>4
  <2> QED
    BY <1>2, <2>1
<1> HIDE DEF a, z, q, free, x, rest, mem
<1>11. /\ w \in Seq(Cell) /\ Len(w) = Len(mem) /\ SubSeq(w, q + 1, q + n) = x
       /\ \A i \in 1..Len(mem) : i \notin (q + 1)..(q + n) => w[i] = mem[i]
  <2>1. q + Len(x) <= Len(mem) /\ mem \in Seq(Cell) /\ q \in Nat /\ x \in Seq(Cell) /\ Len(x) = n
    BY <1>5, <1>6, <1>7, <1>8
  <2> QED
    BY ONLY <2>1, WrittenFacts
<1> HIDE DEF w
<1>12. /\ blocks' \in Seq(Seq(Cell)) /\ Len(blocks') = Len(blocks) /\ blocks'[Len(blocks)] = w
  BY <1>4, <1>9, <1>11, BlockReplaced
<1>13. Block' = w /\ Len(blocks') >= 1
  BY <1>4, <1>12 DEF Block
<1>14. received'.at = a /\ received'.size = z + n /\ received' \in [at : Nat, size : Nat]
  BY <1>5, <1>7, <1>10
<1>15. q = a + z /\ a <= q /\ q <= q + n /\ q + n <= Len(w) /\ Len(mem) \in Nat /\ q <= Len(mem) /\ q + n \in Nat
  <2>1. q = a + z
    BY DEF q
  <2>2. Len(mem) \in Nat
    BY <1>5
  <2> QED
    BY <1>5, <1>6, <1>7, <1>11, <2>1, <2>2
<1>16. BlocksOK'
  <2>1. received'.at + received'.size = q + n /\ received'.at + received'.size <= Len(Block')
    BY <1>5, <1>7, <1>13, <1>14, <1>15
  <2>2. room'.at + room'.size = Len(Block')
    BY <1>1, <1>4, <1>11, <1>13 DEF mem
  <2>3. room'.at + arrived' = received'.at + received'.size
    BY <1>1, <1>2, <1>6, <2>1
  <2>4. arrived' <= room'.size
    BY <1>1, <1>2, <1>7 DEF free
  <2>5. wire' \in Seq(Cell) /\ last' \in Nat /\ arrived' \in Nat /\ room' \in [at : Nat, size : Nat]
    BY <1>1, <1>2, <1>4, <1>7, <1>8, <1>9
  <2> QED
    BY <1>1, <1>12, <1>13, <1>14, <2>1, <2>2, <2>3, <2>4, <2>5 DEF BlocksOK
<1>17. AllKept'
  <2>1. IsSeq(kept)
    BY <1>3 DEF AllKept
  <2>2. ASSUME NEW i \in 1..Len(kept)
        PROVE  KeptIn(kept[i], blocks') /\ (kept[i].block = Len(blocks') => kept[i].at + kept[i].size <= received'.at)
    <3> DEFINE p == kept[i]
    <3>1. KeptIn(p, blocks) /\ (p.block = Len(blocks) => p.at + p.size <= a)
      BY <1>1, <1>3 DEF AllKept, a
    <3> HIDE DEF p
    <3>2. Len(w) = Len(blocks[Len(blocks)]) /\ \A j \in 1..a : w[j] = blocks[Len(blocks)][j]
      <4>1. \A j \in 1..a : j \in 1..Len(mem) /\ j \notin (q + 1)..(q + n)
        BY <1>5, <1>15
      <4> QED
        BY <1>11, <4>1 DEF mem, Block
    <3>3. KeptIn(p, blocks')
      BY <1>4, <1>5, <1>9, <1>11, <3>1, <3>2, KeptBefore
    <3> QED
      BY <1>12, <1>14, <3>1, <3>3 DEF p
  <2> QED
    BY <1>1, <2>1, <2>2 DEF AllKept
<1>18. Contents(Received') = c \o x
  <2>1. /\ SubSeq(w, a + 1, q + n) = SubSeq(mem, a + 1, q) \o SubSeq(w, q + 1, q + n)
    <3>1. \A i \in (a + 1)..q : w[i] = mem[i]
      <4>1. \A i \in (a + 1)..q : i \in 1..Len(mem) /\ i \notin (q + 1)..(q + n)
        BY <1>5, <1>6, <1>15
      <4> QED
        BY <1>11, <4>1
    <3>2. mem \in Seq(Cell) /\ w \in Seq(Cell) /\ a \in Nat /\ q \in Nat /\ q + n \in Nat
      BY <1>5, <1>6, <1>11, <1>15
    <3>3. a <= q /\ q <= q + n /\ q + n <= Len(w) /\ q <= Len(mem)
      BY <1>15
    <3> QED
      BY ONLY <3>1, <3>2, <3>3, SliceSteps
  <2>2. c = SubSeq(mem, a + 1, q)
    <3>1. Contents(Received) = SubSeq(Received.mem, Received.at + 1, Received.at + Received.size)
      BY <1>3, ReceivedIsView, ContentsFacts
    <3>2. Received.mem = mem /\ Received.at = a /\ Received.size = z
      BY DEF Received, mem, a, z
    <3> QED
      BY <1>15, <3>1, <3>2
  <2>3. Received' = [mem |-> w, at |-> a, size |-> z + n]
    BY <1>13, <1>14 DEF Received
  <2> DEFINE v == [mem |-> w, at |-> a, size |-> z + n]
  <2>4. IsView(v)
    <3>1. z + n \in Nat /\ a + (z + n) <= Len(w)
      BY <1>5, <1>7, <1>15
    <3> QED
      BY <1>5, <1>11, <3>1 DEF IsView, Views
  <2>5. v.mem = w /\ v.at = a /\ v.size = z + n
    OBVIOUS
  <2> HIDE DEF v
  <2>6. Contents(v) = SubSeq(w, a + 1, a + (z + n))
    BY <2>4, <2>5, ContentsFacts
  <2>7. a + (z + n) = q + n
    BY <1>5, <1>7, <1>15
  <2>8. Contents(v) = c \o x
    BY <1>11, <2>1, <2>2, <2>6, <2>7
  <2> QED
    BY <2>3, <2>8 DEF v
<1>19. Stream' = Stream
  <2>1. Contents(Received)' = c \o x
    BY <1>18
  <2>2. Pending' = Pending
    BY <1>1 DEF Pending
  <2>3. (c \o x) \o rest = c \o (x \o rest)
    <3>1. c \in Seq(Cell) /\ x \in Seq(Cell) /\ rest \in Seq(Cell)
      BY <1>5, <1>8
    <3> HIDE DEF c
    <3> QED
      BY ONLY <3>1, ConcatAssociative
  <2> QED
    BY <1>8, <1>9, <2>1, <2>2, <2>3 DEF Stream, c
<1>20. FramesOf(Stream', setting', said', Len(heard')) /\ SaidOK' /\ AllHeard'
  BY <1>1, <1>3, <1>19 DEF SaidOK, AllHeard
<1> QED
  BY <1>1, <1>16, <1>17, <1>20 DEF ReceiverOK

LEMMA SliceOfFront ==
    ASSUME NEW s \in Seq(Cell), NEW h \in Nat, NEW f \in Nat, h <= f, f <= Len(s)
    PROVE  SubSeq(SubSeq(s, 1, f), 1, h) = SubSeq(s, 1, h)
<1> DEFINE o == 0
<1>1. o \in Nat /\ o + f <= Len(s)
  OBVIOUS
<1>2. o + h <= f /\ o <= h /\ f <= Len(s) /\ s \in Seq(Cell) /\ h \in Nat /\ f \in Nat
  OBVIOUS
<1>3. o + 1 = 1 /\ o + o + 1 = 1 /\ o + h = h
  OBVIOUS
<1> HIDE DEF o
<1>4. SubSeq(SubSeq(s, o + 1, f), o + 1, h) = SubSeq(s, o + o + 1, o + h)
  BY ONLY <1>1, <1>2, SliceOfSlice
<1> QED
  BY <1>3, <1>4

LEMMA ContentsHeld ==
    ASSUME NEW v, IsView(v), NEW k \in Nat, k <= v.size
    PROVE  /\ Holds(v, 0, Contents(v)) /\ Bytes(v, 0, k) = SubSeq(Contents(v), 1, k)
           /\ Holds(v, 0, SubSeq(Contents(v), 1, k)) /\ Len(SubSeq(Contents(v), 1, k)) = k
<1> DEFINE c == Contents(v)
           o == 0
<1>1. c \in Seq(Cell) /\ Len(c) = v.size /\ v.size \in Nat
  BY ContentsFacts
<1>2. c = Bytes(v, 0, v.size)
  BY DEF Contents
<1>3. o \in Nat /\ o <= k /\ k <= Len(c) /\ o + o = o /\ k - o = k /\ o + 1 = 1 /\ o + Len(c) <= v.size /\ Bytes(v, o, Len(c)) = c
  BY <1>1, <1>2
<1>4. o = 0
  OBVIOUS
<1> HIDE DEF c, o
<1>5. Holds(v, o, c)
  BY <1>3 DEF Holds
<1>6. /\ Bytes(v, o + o, k - o) = SubSeq(c, o + 1, k) /\ Holds(v, o + o, SubSeq(c, o + 1, k))
      /\ Len(SubSeq(c, o + 1, k)) = k - o
  <2>1. IsView(v) /\ o \in Nat /\ k \in Nat /\ c \in Seq(Cell) /\ o <= k /\ k <= Len(c)
    BY <1>1, <1>3
  <2> QED
    BY ONLY <1>5, <2>1, HoldsPart, SMTT(30)
<1> QED
  BY <1>3, <1>4, <1>5, <1>6 DEF c

LEMMA StreamParts ==
    ASSUME ReceiverOK, SenderOK
    PROVE  /\ Stream = Contents(Received) \o (wire \o Pending) /\ wire \o Pending \in Seq(Cell)
           /\ Contents(Received) \in Seq(Cell) /\ Len(Contents(Received)) = received.size /\ received.size \in Nat
<1> DEFINE c == Contents(Received)
<1>1. c \in Seq(Cell) /\ wire \in Seq(Cell) /\ Pending \in Seq(Cell)
  BY StreamTyped
<1>2. Len(c) = received.size /\ received.size \in Nat
  BY ReceivedIsView DEF ReceiverOK
<1>3. Stream = (c \o wire) \o Pending
  BY DEF Stream
<1> HIDE DEF c
<1>4. (c \o wire) \o Pending = c \o (wire \o Pending)
  BY ONLY <1>1, ConcatAssociative
<1>5. wire \o Pending \in Seq(Cell)
  BY ONLY <1>1, SeqJoined
<1> QED
  BY <1>1, <1>2, <1>3, <1>4, <1>5 DEF c

LEMMA HeaderSays ==
    ASSUME ReceiverOK, SenderOK, handler # "closed", received.size >= MinMessageSize,
           NEW m, m = setting[said[Len(heard) + 1]]
    PROVE  /\ Len(heard) \in Nat /\ Len(heard) + 1 \in 1..Len(said) /\ said[Len(heard) + 1] \in 1..Len(setting)
           /\ IsMessage(m) /\ MessageSize = FrameSize(m) /\ FrameSize(m) \in Nat
           /\ HeaderSize \in Nat /\ HeaderSize <= FrameSize(m)
           /\ FrameSize(m) <= received.size =>
                 /\ IsFrame(SubSeq(Contents(Received), 1, FrameSize(m)), m)
                 /\ FramesOf(SubSeq(Contents(Received), FrameSize(m) + 1, received.size) \o (wire \o Pending),
                             setting, said, Len(heard) + 1)
<1> DEFINE k == Len(heard)
           c == Contents(Received)
           rest == wire \o Pending
           s == Stream
           F == FrameSize(m)
           H == HeaderSize
           z == received.size
           n == Len(said)
<1>1. s = c \o rest /\ rest \in Seq(Cell) /\ c \in Seq(Cell) /\ Len(c) = z /\ z \in Nat
  BY StreamParts
<1>2. k \in Nat /\ said \in Seq(Nat) /\ n \in Nat /\ FramesOf(s, setting, said, k)
  BY SeqFacts DEF ReceiverOK, AllHeard, SaidOK
<1>3. H \in Nat \ {0} /\ z >= H
  BY Widths DEF HeaderSize, MinMessageSize
<1> HIDE DEF c, rest, s, H, z, n, k
<1>4. s \in Seq(Cell) /\ Len(s) = z + Len(rest) /\ Len(rest) \in Nat
  <2>1. c \in Seq(Cell) /\ rest \in Seq(Cell)
    BY <1>1
  <2>2. c \o rest \in Seq(Cell) /\ Len(c \o rest) = Len(c) + Len(rest) /\ Len(rest) \in Nat
    BY ONLY <2>1, SeqJoined
  <2> QED
    BY <1>1, <2>2
<1>5. k <= n /\ (k = n => Len(s) = 0)
  BY <1>2, <1>4, NoMoreFrames DEF n
<1>6. k + 1 \in 1..n /\ k < n
  BY <1>1, <1>2, <1>3, <1>4, <1>5
<1>7. said[k + 1] \in 1..Len(setting)
  BY <1>6 DEF ReceiverOK, SaidOK, n
<1>8. IsMessage(m)
  BY <1>7, AtMessageFacts DEF SenderOK, k
<1>9. /\ F \in Nat /\ F <= Len(s) /\ IsFrame(SubSeq(s, 1, F), m)
      /\ FramesOf(SubSeq(s, F + 1, Len(s)), setting, said, k + 1)
  <2>1. m = setting[said[k + 1]]
    BY DEF k
  <2>2. IsMessage(setting[said[k + 1]]) /\ k < Len(said)
    BY <1>6, <1>8, <2>1 DEF n
  <2> QED
    BY <1>2, <1>4, <2>1, <2>2, FirstFrame
<1>10. H <= F
  <2>1. 0 \in 0..Len(m.values)
    BY <1>8, MessageFacts
  <2>2. H <= Offset(m, 0) /\ Offset(m, 0) <= F
    BY <1>8, <2>1, MessageFacts DEF H
  <2>3. Offset(m, 0) = H
    BY <1>8, MessageFacts DEF H
  <2> QED
    BY <2>2, <2>3
<1> HIDE DEF F
<1>11. SubSeq(s, 1, H) = Encoded(F, H)
  <2>1. SubSeq(SubSeq(s, 1, F), 1, H) = Encoded(F, H)
    BY <1>9 DEF IsFrame, F, H
  <2>2. SubSeq(SubSeq(s, 1, F), 1, H) = SubSeq(s, 1, H)
    BY <1>3, <1>4, <1>9, <1>10, SliceOfFront
  <2> QED
    BY <2>1, <2>2
<1>12. SubSeq(s, 1, H) = SubSeq(c, 1, H)
  <2>1. H \in 0..Len(c)
    BY <1>1, <1>3
  <2> QED
    BY <1>1, <2>1, FrontOfBoth
<1>13. IsView(Received) /\ Received.size = z
  BY ReceivedIsView DEF ReceiverOK, z
<1>14. Holds(Received, 0, Encoded(F, H))
  <2>1. Holds(Received, 0, SubSeq(c, 1, H))
    BY <1>3, <1>13, ContentsHeld DEF c
  <2> QED
    BY <1>11, <1>12, <2>1
<1>15. MessageSize = F
  <2>1. IsSize(F, H)
    BY <1>8 DEF IsMessage, FrameSize, F, H
  <2>2. 0 \in Nat /\ F \in Int
    BY <1>9
  <2>3. Size(Received, 0, H) = F
    BY <1>3, <1>14, <2>1, <2>2, NumberHeld
  <2> QED
    BY <2>3 DEF MessageSize, H
<1>16. ASSUME F <= z
       PROVE  /\ IsFrame(SubSeq(c, 1, F), m)
              /\ FramesOf(SubSeq(c, F + 1, z) \o rest, setting, said, k + 1)
  <2>1. F \in 0..Len(c)
    BY <1>1, <1>9, <1>16
  <2>2. SubSeq(s, 1, F) = SubSeq(c, 1, F)
    BY <1>1, <2>1, FrontOfBoth
  <2>3. SubSeq(s, F + 1, Len(s)) = SubSeq(c, F + 1, Len(c)) \o rest
    BY <1>1, <2>1, RestOfBoth
  <2> QED
    BY <1>1, <1>9, <2>2, <2>3
<1> QED
  BY <1>2, <1>3, <1>6, <1>7, <1>8, <1>9, <1>10, <1>15, <1>16 DEF k, c, rest, F, H, z, n

LEMMA InvalidSizeStep ==
    ASSUME ReceiverOK, SenderOK, InvalidSize
    PROVE  ReceiverOK'
<1>1. /\ handler = "framing" /\ received.size >= MinMessageSize /\ handler' = "closed"
      /\ MessageSize \notin MinMessageSize..Max({received.size, MaxMessageSize})
      /\ setting' = setting /\ said' = said /\ wire' = wire /\ blocks' = blocks /\ received' = received /\ room' = room
      /\ arrived' = arrived /\ last' = last /\ heard' = heard /\ kept' = kept
  BY DEF InvalidSize, sender
<1> DEFINE m == setting[said[Len(heard) + 1]]
           F == FrameSize(m)
           z == received.size
           most == Max({z, MaxMessageSize})
<1>2. /\ Len(heard) + 1 \in 1..Len(said) /\ MessageSize = F /\ F \in Nat /\ HeaderSize \in Nat /\ HeaderSize <= F
  BY <1>1, HeaderSays
<1>3. z \in Nat /\ MaxMessageSize \in Nat
  BY RoomAssumption, ReceivedIsView DEF ReceiverOK
<1>4. MaxMessageSize <= most /\ most \in Nat
  <2>1. {z, MaxMessageSize} \subseteq Nat /\ {z, MaxMessageSize} # {} /\ z + MaxMessageSize \in Nat
        /\ \A s \in {z, MaxMessageSize} : s <= z + MaxMessageSize
    BY <1>3
  <2>2. most \in {z, MaxMessageSize} /\ \A s \in {z, MaxMessageSize} : s <= most
    BY ONLY <2>1, MaxFacts
  <2> QED
    BY <1>3, <2>2
<1>5. ~(F <= MaxMessageSize)
  <2>1. F \notin HeaderSize..most
    BY <1>1, <1>2 DEF MinMessageSize
  <2> HIDE DEF F, most
  <2> QED
    BY <1>2, <1>3, <1>4, <2>1
<1>6. ~Acceptable(m)
  BY <1>5 DEF Acceptable, FrameSize
<1>7. Refusal'
  <2>1. SaidOK
    BY DEF ReceiverOK
  <2>2. Len(heard) + 1 \in DOMAIN said
    BY <1>2, <2>1 DEF SaidOK
  <2> QED
    BY <1>1, <1>6, <2>2 DEF Refusal
<1>8. Block' = Block
  BY <1>1 DEF Block
<1>9. BlocksOK' /\ SaidOK' /\ AllHeard' /\ AllKept'
  BY <1>1, <1>8 DEF ReceiverOK, BlocksOK, SaidOK, AllHeard, AllKept
<1> QED
  BY <1>1, <1>7, <1>9 DEF ReceiverOK

LEMMA SameMessageSize ==
    ASSUME NEW v, IsView(v), NEW w, IsView(w), Contents(v) = Contents(w), HeaderSize <= v.size
    PROVE  Size(v, 0, HeaderSize) = Size(w, 0, HeaderSize)
<1>1. HeaderSize \in Nat
  BY Widths DEF HeaderSize
<1>2. v.size = w.size
  BY ContentsFacts
<1>3. Bytes(v, 0, HeaderSize) = Bytes(w, 0, HeaderSize)
  BY <1>1, <1>2, ContentsHeld
<1> QED
  BY <1>3 DEF Size

LEMMA RearmStep ==
    ASSUME ReceiverOK, SenderOK, Rearm
    PROVE  ReceiverOK'
<1>1. /\ handler = "framing" /\ Incomplete /\ handler' = "reading"
      /\ setting' = setting /\ step' = step /\ buf' = buf /\ sent' = sent /\ said' = said /\ wire' = wire
      /\ arrived' = arrived /\ last' = last /\ heard' = heard /\ kept' = kept
  BY DEF Rearm, sender
<1>2. BlocksOK /\ SaidOK /\ AllHeard /\ AllKept /\ FramesOf(Stream, setting, said, Len(heard))
  BY <1>1 DEF ReceiverOK
<1> DEFINE a == received.at
           z == received.size
           at == room.at
           free == room.size
           c == Contents(Received)
           n == Len(blocks)
<1>3. /\ blocks \in Seq(Seq(Cell)) /\ n >= 1 /\ n \in Nat
      /\ received \in [at : Nat, size : Nat] /\ room \in [at : Nat, size : Nat]
      /\ at + free = Len(Block) /\ at + arrived = a + z /\ arrived <= free /\ arrived \in Nat /\ last \in Nat
      /\ wire \in Seq(Cell)
  BY <1>1, <1>2 DEF BlocksOK
<1>4. /\ IsView(Received) /\ Block \in Seq(Cell) /\ a \in Nat /\ z \in Nat /\ c \in Seq(Cell) /\ Len(c) = z
      /\ Received.size = z
  BY <1>2, ReceivedIsView
<1>5. at \in Nat /\ free \in Nat
  BY <1>3
<1>6. ReceiveBufferSize \in Nat /\ MinRoom \in Nat /\ MinRoom <= ReceiveBufferSize
  BY RoomAssumption
<1>7. SaidOK' /\ AllHeard' /\ Pending' = Pending
  BY <1>1, <1>2 DEF SaidOK, AllHeard, Pending
<1>8. CASE RoomLeft < MinRoom \/ RoomLeft < last
  <2> DEFINE N == NewBlockSize
             mem == Allocated(N).mem
             w == Written(mem, 0, c)
  <2>1. blocks' = Append(blocks, w) /\ received' = [received EXCEPT !.at = 0] /\ room' = [at |-> z, size |-> N - z]
    BY <1>1, <1>8 DEF Rearm
  <2>2. N \in Nat /\ N - z \in Nat /\ N - z >= MinRoom /\ z <= N /\ z + (N - z) = N
    <3> DEFINE more == IF last > ReceiveBufferSize THEN last ELSE 0
    <3>1. more \in Nat /\ N = ReceiveBufferSize + z + more
      BY <1>3 DEF NewBlockSize
    <3> HIDE DEF more, N, z
    <3> QED
      BY <1>4, <1>6, <3>1
  <2>3. mem \in Seq(Cell) /\ Len(mem) = N
    <3>1. N \in Int /\ ~(N < 0)
      BY <2>2
    <3> HIDE DEF N
    <3> QED
      BY <3>1, AllocatedIsBuffer
  <2> HIDE DEF mem, N
  <2>4. w \in Seq(Cell) /\ Len(w) = N /\ SubSeq(w, 0 + 1, 0 + z) = c
    <3>1. 0 + Len(c) <= Len(mem) /\ Len(c) = z
      BY <1>4, <2>2, <2>3
    <3>2. mem \in Seq(Cell) /\ c \in Seq(Cell)
      BY <1>4, <2>3
    <3>3. 0 \in Nat
      OBVIOUS
    <3> HIDE DEF c, z
    <3>4. /\ Written(mem, 0, c) \in Seq(Cell) /\ Len(Written(mem, 0, c)) = Len(mem)
          /\ SubSeq(Written(mem, 0, c), 0 + 1, 0 + Len(c)) = c
      BY ONLY <3>1, <3>2, <3>3, WrittenFacts
    <3> QED
      BY <2>3, <3>1, <3>4
  <2> HIDE DEF w
  <2>5. /\ blocks' \in Seq(Seq(Cell)) /\ Len(blocks') = n + 1 /\ blocks'[n + 1] = w
        /\ \A i \in 1..n : blocks'[i] = blocks[i]
    BY <1>3, <2>1, <2>4
  <2>6. Block' = w
    BY <2>5 DEF Block
  <2>7. received' = [at |-> 0, size |-> z]
    <3>1. received = [at |-> received.at, size |-> received.size]
      BY <1>3
    <3> QED
      BY <2>1, <3>1
  <2>8. BlocksOK'
    <3>1. received'.at = 0 /\ received'.size = z /\ received' \in [at : Nat, size : Nat]
      BY <1>4, <2>7
    <3>2. room'.at = z /\ room'.size = N - z /\ room' \in [at : Nat, size : Nat]
      BY <1>4, <2>1, <2>2
    <3>3. Len(blocks') >= 1
      BY <1>3, <2>5
    <3>4. received'.at + received'.size <= Len(Block') /\ room'.at + room'.size = Len(Block')
          /\ room'.at = received'.at + received'.size /\ room'.size >= MinRoom
      BY <1>4, <2>2, <2>4, <2>6, <3>1, <3>2
    <3> QED
      BY <1>1, <1>3, <2>5, <3>1, <3>2, <3>3, <3>4 DEF BlocksOK
  <2> DEFINE v == [mem |-> w, at |-> 0, size |-> z]
  <2>9. Received' = v
    BY <2>6, <2>7 DEF Received
  <2>10. IsView(v) /\ Contents(v) = c /\ v.size = z
    <3>1. v.mem = w /\ v.at = 0 /\ v.size = z
      OBVIOUS
    <3>2. IsView(v)
      BY <1>4, <2>2, <2>4 DEF IsView, Views
    <3> HIDE DEF v
    <3>3. Contents(v) = SubSeq(w, 0 + 1, 0 + z)
      BY <3>1, <3>2, ContentsFacts
    <3> QED
      BY <2>4, <3>1, <3>2, <3>3
  <2>11. Stream' = Stream
    <3>1. Contents(Received)' = c
      BY <2>9, <2>10
    <3> QED
      BY <1>1, <1>7, <3>1 DEF Stream
  <2>12. Incomplete'
    <3>1. ASSUME z >= MinMessageSize
          PROVE  MessageSize' = MessageSize
      <4> HIDE DEF v
      <4>1. Size(Received, 0, HeaderSize) = Size(v, 0, HeaderSize)
        BY <1>4, <2>10, <3>1, SameMessageSize DEF MinMessageSize
      <4> QED
        BY <2>9, <4>1 DEF MessageSize
    <3>2. received'.size = z
      BY <2>7
    <3> QED
      BY <1>1, <3>1, <3>2 DEF Incomplete
  <2>13. AllKept'
    <3>1. IsSeq(kept)
      BY <1>2 DEF AllKept
    <3>2. ASSUME NEW i \in 1..Len(kept)
          PROVE  KeptIn(kept[i], blocks') /\ kept[i].block # Len(blocks')
      <4> DEFINE p == kept[i]
      <4>1. KeptIn(p, blocks)
        BY <1>2 DEF AllKept
      <4> HIDE DEF p
      <4>2. p.block \in 1..n
        BY <4>1 DEF KeptIn
      <4>3. blocks'[p.block] = blocks[p.block] /\ p.block \in 1..(n + 1) /\ p.block # n + 1
        <5> DEFINE b == p.block
        <5>1. b \in 1..n /\ n \in Nat
          BY <1>3, <4>2
        <5>2. \A j \in 1..n : blocks'[j] = blocks[j]
          BY <2>5
        <5> HIDE DEF b, n
        <5>3. blocks'[b] = blocks[b] /\ b \in 1..(n + 1) /\ b # n + 1
          BY ONLY <5>1, <5>2
        <5> QED
          BY <5>3 DEF b
      <4>4. KeptIn(p, blocks')
        BY <2>5, <4>1, <4>3 DEF KeptIn
      <4> QED
        BY <2>5, <4>3, <4>4 DEF p
    <3> QED
      BY <1>1, <3>1, <3>2 DEF AllKept
  <2> QED
    BY <1>1, <1>2, <1>7, <2>8, <2>11, <2>12, <2>13 DEF ReceiverOK
<1>9. CASE ~(RoomLeft < MinRoom \/ RoomLeft < last)
  <2>1. room' = [at |-> at + arrived, size |-> RoomLeft] /\ blocks' = blocks /\ received' = received
    BY <1>1, <1>9 DEF Rearm
  <2>2. RoomLeft = free - arrived
    BY DEF RoomLeft
  <2> HIDE DEF a, z, at, free
  <2>3. RoomLeft \in Nat /\ RoomLeft >= MinRoom /\ at + arrived \in Nat /\ (at + arrived) + RoomLeft = Len(Block)
    <3>1. RoomLeft \in Nat
      BY <1>3, <1>5, <2>2
    <3>2. RoomLeft >= MinRoom
      <4>1. ~(RoomLeft < MinRoom)
        BY <1>9
      <4> QED
        BY <1>6, <3>1, <4>1
    <3>3. at + arrived \in Nat /\ (at + arrived) + (free - arrived) = at + free
      BY <1>3, <1>5
    <3>4. at + free = Len(Block)
      BY <1>3
    <3> QED
      BY <2>2, <3>1, <3>2, <3>3, <3>4
  <2>4. Block' = Block /\ Received' = Received
    BY <2>1 DEF Block, Received
  <2>5. room'.at = at + arrived /\ room'.size = RoomLeft /\ room' \in [at : Nat, size : Nat]
    BY <2>1, <2>3
  <2>6. BlocksOK'
    <3>1. room'.at + room'.size = Len(Block') /\ room'.at = received'.at + received'.size
      BY <1>3, <2>1, <2>3, <2>4, <2>5 DEF a, z
    <3> QED
      BY <1>1, <1>2, <2>1, <2>3, <2>4, <2>5, <3>1 DEF BlocksOK
  <2>7. AllKept'
    BY <1>1, <1>2, <2>1 DEF AllKept
  <2>8. Stream' = Stream /\ MessageSize' = MessageSize
    BY <1>1, <1>7, <2>4 DEF Stream, MessageSize
  <2>9. Incomplete'
    BY <1>1, <2>1, <2>8 DEF Incomplete
  <2> QED
    BY <1>1, <1>2, <1>7, <2>6, <2>7, <2>8, <2>9 DEF ReceiverOK
<1> QED
  BY <1>8, <1>9

\* The view that on_message is given.
LEMMA MessageView ==
    ASSUME NEW v, IsView(v), NEW m, IsMessage(m), NEW F \in Nat, F = FrameSize(m), F <= v.size, HeaderSize <= F,
           IsFrame(SubSeq(Contents(v), 1, F), m), NEW view, view = Advance([v EXCEPT !.size = F], HeaderSize)
    PROVE  /\ IsView(view) /\ view.mem = v.mem /\ view.at = v.at + HeaderSize /\ view.size = F - HeaderSize
           /\ HeardAs(view, Extracted(view, InOrder(m.values)), m)
           /\ LookedAs(LookedAt(view, m.values), m)
<1> DEFINE H == HeaderSize
           u == [mem |-> v.mem, at |-> v.at, size |-> F]
           f == SubSeq(Contents(v), 1, F)
           e == SubSeq(f, H + 1, F)
<1>1. H \in Nat /\ H <= F
  BY Widths DEF HeaderSize
<1>2. v.mem \in Seq(Cell) /\ v.at \in Nat /\ v.size \in Nat /\ v.at + v.size <= Len(v.mem) /\ Len(v.mem) \in Nat
      /\ v = [mem |-> v.mem, at |-> v.at, size |-> v.size]
  BY ViewFacts
<1>3. u = [v EXCEPT !.size = F]
  <2> DEFINE a == v.at
             mem == v.mem
             z == v.size
  <2>1. v = [mem |-> mem, at |-> a, size |-> z]
    BY <1>2
  <2> HIDE DEF a, mem, z
  <2>2. [v EXCEPT !.size = F] = [mem |-> mem, at |-> a, size |-> F]
    BY ONLY <2>1
  <2> QED
    BY <2>2 DEF a, mem
<1>4. u.mem = v.mem /\ u.at = v.at /\ u.size = F
  OBVIOUS
<1>5. IsView(u)
  <2>1. v.at + F <= Len(v.mem)
    BY <1>2
  <2> QED
    BY <1>2, <2>1 DEF IsView, Views
<1> HIDE DEF H, u
<1>6. Bytes(u, 0, F) = f
  <2>1. Bytes(v, 0, F) = f
    BY ContentsHeld
  <2> QED
    BY <1>4, <2>1 DEF Bytes
<1>7. f \in Seq(Cell) /\ Len(f) = F /\ ValuesBytes(e, m, 1, Len(m.values))
  BY DEF IsFrame, H
<1> HIDE DEF f
<1>8. Holds(u, 0, f)
  <2>1. 0 + F <= F
    OBVIOUS
  <2> QED
    BY <1>4, <1>6, <1>7, <2>1 DEF Holds
<1>9. Holds(u, 0 + H, e) /\ Len(e) = F - H /\ e \in Seq(Cell)
  <2>1. 0 \in Nat
    OBVIOUS
  <2>2. F \in Nat /\ F <= Len(f) /\ f \in Seq(Cell) /\ H \in Nat /\ H <= F
    BY <1>1, <1>7
  <2>3. Holds(u, 0 + H, SubSeq(f, H + 1, F)) /\ Len(SubSeq(f, H + 1, F)) = F - H
    BY ONLY <1>5, <1>8, <2>1, <2>2, HoldsPart
  <2>4. SubSeq(f, H + 1, F) \in Seq(Cell)
    BY <2>2
  <2> QED
    BY <2>3, <2>4
<1> HIDE DEF e
<1>10. view = Advance(u, H)
  BY <1>3 DEF H
<1>11. Consumed(u, view, H) /\ view.mem = u.mem
  <2>1. H <= u.size
    BY <1>1, <1>4
  <2> QED
    BY <1>1, <1>5, <1>10, <2>1, Advanced
<1>12. IsView(view) /\ view.at = v.at + H /\ view.size = F - H
  BY <1>4, <1>11 DEF Consumed
<1>13. Holds(view, 0, e)
  <2>1. 0 + H = H /\ H - H = 0 /\ H <= H
    BY <1>1
  <2>2. Holds(u, H, e)
    BY <1>9, <2>1
  <2>3. Holds(u, H, e) <=> Holds(view, H - H, e)
    BY <1>1, <1>5, <1>9, <1>11, <2>1, HoldsBehind
  <2> QED
    BY <2>1, <2>2, <2>3
<1>14. Len(e) = view.size
  BY <1>9, <1>12
<1>15. HeardAs(view, Extracted(view, InOrder(m.values)), m)
  BY <1>7, <1>9, <1>12, <1>13, <1>14, MessageRead
<1>16. LookedAs(LookedAt(view, m.values), m)
  BY <1>7, <1>9, <1>12, <1>13, <1>14, MessageLooked
<1> QED
  BY <1>4, <1>11, <1>12, <1>15, <1>16 DEF H

\* What is behind the first message, in the block it has been read in.
LEMMA BehindTheMessage ==
    ASSUME NEW mem \in Seq(Cell), NEW w \in Seq(Cell), Len(w) = Len(mem), NEW a \in Nat, NEW z \in Nat, NEW F \in Nat,
           F <= z, a + z <= Len(mem), \A i \in 1..Len(mem) : i \notin (a + 1)..(a + F) => w[i] = mem[i]
    PROVE  SubSeq(w, (a + F) + 1, (a + F) + (z - F)) = SubSeq(SubSeq(mem, a + 1, a + z), F + 1, z)
<1> DEFINE p == a + F
           q == a + z
<1>1. p \in Nat /\ q \in Nat /\ p <= q /\ q <= Len(mem) /\ q <= Len(w) /\ Len(mem) \in Nat /\ p + (z - F) = q
  OBVIOUS
<1>2. \A j \in (p + 1)..q : w[j] = mem[j]
  <2>1. \A j \in (p + 1)..q : j \in 1..Len(mem) /\ j \notin (a + 1)..p
    BY <1>1
  <2> QED
    BY <2>1
<1> HIDE DEF p, q
<1>3. SubSeq(w, p + 1, q) = SubSeq(mem, p + 1, q)
  <2>1. w \in Seq(Cell) /\ mem \in Seq(Cell)
    OBVIOUS
  <2> QED
    BY ONLY <1>1, <1>2, <2>1, SlicesAgree
<1>4. SubSeq(SubSeq(mem, a + 1, q), F + 1, z) = SubSeq(mem, a + F + 1, a + z)
  <2>1. a + z <= q /\ q <= Len(mem) /\ F <= z /\ q \in Nat
    BY <1>1 DEF q
  <2>2. mem \in Seq(Cell) /\ a \in Nat /\ F \in Nat /\ z \in Nat
    OBVIOUS
  <2> QED
    BY ONLY <2>1, <2>2, SliceOfSlice
<1>5. a + F + 1 = p + 1 /\ a + z = q
  BY DEF p, q
<1> QED
  BY <1>1, <1>3, <1>4, <1>5 DEF p, q

LEMMA FrameStep ==
    ASSUME ReceiverOK, SenderOK, Frame
    PROVE  ReceiverOK'
<1> DEFINE k == Len(heard)
           m == setting[said[k + 1]]
           F == MessageSize
           H == HeaderSize
           a == received.at
           z == received.size
           n == Len(blocks)
           mem == Block
           c == Contents(Received)
           rest == wire \o Pending
           view == Advance([Received EXCEPT !.size = F], H)
           read == Extracted(view, InOrder(m.values))
           looked == LookedAt(view, m.values)
           w == read.view.mem
           h == [ok |-> read.ok, values |-> read.value, left |-> read.view.size, looked |-> looked]
           q == [block |-> n, at |-> view.at, size |-> view.size, bytes |-> Contents([view EXCEPT !.mem = w])]
<1>1. /\ handler = "framing" /\ z >= MinMessageSize /\ F \in MinMessageSize..z
      /\ last' = F /\ setting' = setting /\ step' = step /\ buf' = buf /\ sent' = sent /\ said' = said
      /\ wire' = wire /\ room' = room /\ arrived' = arrived
  BY DEF Frame, sender
<1>2. /\ heard' = Append(heard, h)
      /\ blocks' = [blocks EXCEPT ![n] = w]
      /\ kept' = IF ~m.keeps THEN kept ELSE Append(kept, q)
      /\ handler' = IF read.ok THEN "framing" ELSE "closed"
      /\ received' = IF read.ok THEN [at |-> a + F, size |-> z - F] ELSE received
  BY DEF Frame
<1>3. BlocksOK /\ SaidOK /\ AllHeard /\ AllKept
  BY DEF ReceiverOK
<1>4. /\ IsView(Received) /\ mem \in Seq(Cell) /\ Received.mem = mem /\ Received.at = a /\ Received.size = z
      /\ a \in Nat /\ z \in Nat /\ c \in Seq(Cell) /\ Len(c) = z /\ a + z <= Len(mem)
  BY <1>3, ReceivedIsView DEF BlocksOK
<1>5. /\ k \in Nat /\ k + 1 \in 1..Len(said) /\ said[k + 1] \in 1..Len(setting)
      /\ IsMessage(m) /\ F = FrameSize(m) /\ F \in Nat /\ H \in Nat /\ H <= F
      /\ (F <= z => /\ IsFrame(SubSeq(c, 1, F), m)
                    /\ FramesOf(SubSeq(c, F + 1, z) \o rest, setting, said, k + 1))
  <2>1. handler # "closed" /\ received.size >= MinMessageSize
    BY <1>1
  <2> QED
    BY <2>1, HeaderSays
<1>6. F <= z
  BY <1>1, <1>4, <1>5 DEF MinMessageSize
<1>7. IsFrame(SubSeq(c, 1, F), m) /\ FramesOf(SubSeq(c, F + 1, z) \o rest, setting, said, k + 1)
  BY <1>5, <1>6
<1>8. /\ IsView(view) /\ view.mem = mem /\ view.at = a + H /\ view.size = F - H
      /\ HeardAs(view, read, m) /\ LookedAs(looked, m)
  <2> DEFINE v == Received
  <2>1. IsView(v) /\ F <= v.size /\ IsFrame(SubSeq(Contents(v), 1, F), m) /\ v.mem = mem /\ v.at = a
    BY <1>4, <1>6, <1>7
  <2>2. view = Advance([v EXCEPT !.size = F], HeaderSize) /\ HeaderSize <= F
    BY <1>5
  <2> HIDE DEF v, F, m, view
  <2>3. /\ IsView(view) /\ view.mem = v.mem /\ view.at = v.at + HeaderSize /\ view.size = F - HeaderSize
        /\ HeardAs(view, Extracted(view, InOrder(m.values)), m)
        /\ LookedAs(LookedAt(view, m.values), m)
    BY ONLY <1>5, <2>1, <2>2, MessageView
  <2> QED
    BY <2>1, <2>3
<1> HIDE DEF k, m, F, H, a, z, mem, c, rest, view, looked
<1>9. /\ Within(view, read.view) /\ (read.ok <=> AllFit(m))
      /\ read.ok => /\ read.view.size = 0
                    /\ \A j \in DOMAIN m.values :
                          Says(m.values[j], Restored(m.values, read.value)[j], j <= m.prepended)
  BY <1>8 DEF HeardAs
<1>10. HeardOK(h, m)
  <2>1. h.ok = read.ok /\ h.left = read.view.size /\ h.values = read.value /\ h.looked = looked
    OBVIOUS
  <2> HIDE DEF read, h
  <2> QED
    BY <1>8, <1>9, <2>1 DEF HeardOK
<1> HIDE DEF h, read
<1>11. /\ Len(w) = Len(mem) /\ w \in Seq(Cell) /\ Len(mem) \in Nat
       /\ \A i \in 1..Len(mem) : i \notin (a + 1)..(a + F) => w[i] = mem[i]
  <2>1. Len(w) = Len(mem) /\ w \in Seq(Cell) /\ Len(mem) \in Nat
    BY <1>4, <1>8, <1>9 DEF Within
  <2>2. \A i \in 1..Len(mem) : i \notin ((a + H) + 1)..((a + H) + (F - H)) => w[i] = mem[i]
    BY <1>8, <1>9 DEF Within
  <2>3. \A i \in 1..Len(mem) : i \notin (a + 1)..(a + F) => i \notin ((a + H) + 1)..((a + H) + (F - H))
    BY <1>4, <1>5, <2>1
  <2> QED
    BY <2>1, <2>2, <2>3
<1> HIDE DEF w
<1>12. blocks \in Seq(Seq(Cell)) /\ n >= 1 /\ n \in Nat
  BY <1>3 DEF BlocksOK
<1>13. blocks' \in Seq(Seq(Cell)) /\ Len(blocks') = n /\ blocks'[n] = w /\ Block' = w
  <2>1. blocks' \in Seq(Seq(Cell)) /\ Len(blocks') = n /\ blocks'[n] = w
    BY <1>2, <1>11, <1>12, BlockReplaced
  <2> QED
    BY <2>1 DEF Block
<1>14. SaidOK'
  BY <1>1, <1>3 DEF SaidOK
<1>15. AllHeard'
  <2>1. IsSeq(heard) /\ k <= Len(said) /\ \A i \in 1..k : HeardOK(heard[i], setting[said[i]])
    BY <1>3 DEF AllHeard, k
  <2>2. /\ IsSeq(heard') /\ Len(heard') = k + 1 /\ heard'[k + 1] = h
        /\ \A i \in 1..k : heard'[i] = heard[i]
    BY <1>2, <2>1, AppendFacts DEF k
  <2>3. \A i \in 1..(k + 1) : HeardOK(heard'[i], setting[said[i]])
    <3>1. \A i \in 1..(k + 1) : i = k + 1 \/ i \in 1..k
      BY <1>5
    <3> QED
      BY <1>10, <2>1, <2>2, <3>1 DEF m
  <2>4. k + 1 <= Len(said)
    BY <1>5
  <2> QED
    BY <1>1, <2>2, <2>3, <2>4 DEF AllHeard
<1>16. read.ok => received' = [at |-> a + F, size |-> z - F] /\ handler' = "framing"
  BY <1>2
<1>17. ~read.ok => received' = received /\ handler' = "closed"
  BY <1>2
<1>18. BlocksOK'
  <2>1. received' \in [at : Nat, size : Nat] /\ received'.at + received'.size = a + z
    <3>1. CASE read.ok
      <4>1. a + F \in Nat /\ z - F \in Nat /\ (a + F) + (z - F) = a + z
        BY <1>4, <1>5, <1>6
      <4>2. received'.at = a + F /\ received'.size = z - F /\ received' = [at |-> a + F, size |-> z - F]
        BY <1>16, <3>1
      <4> QED
        BY <4>1, <4>2
    <3>2. CASE ~read.ok
      BY <1>3, <1>17, <3>2 DEF BlocksOK, a, z
    <3> QED
      BY <3>1, <3>2
  <2>2. received'.at + received'.size <= Len(Block')
    BY <1>4, <1>11, <1>13, <2>1
  <2>3. room'.at + room'.size = Len(Block') /\ room'.at + arrived' = received'.at + received'.size /\ arrived' <= room'.size
    <3>1. room.at + room.size = Len(Block) /\ room.at + arrived = received.at + received.size /\ arrived <= room.size
      BY <1>1, <1>3 DEF BlocksOK
    <3> QED
      BY <1>1, <1>11, <1>13, <2>1, <3>1 DEF mem, a, z
  <2>4. handler' # "reading"
    BY <1>16, <1>17
  <2>5. room' \in [at : Nat, size : Nat] /\ wire' \in Seq(Cell) /\ last' \in Nat /\ arrived' \in Nat
    BY <1>1, <1>3, <1>5 DEF BlocksOK
  <2>6. Len(blocks') >= 1
    BY <1>12, <1>13
  <2> QED
    BY <1>13, <2>1, <2>2, <2>3, <2>4, <2>5, <2>6 DEF BlocksOK
<1> DEFINE Safe(p) ==
               /\ KeptIn(p, blocks')
               /\ handler' # "closed" /\ p.block = Len(blocks') => p.at + p.size <= received'.at
<1>19. \A i \in 1..Len(kept) : Safe(kept[i])
  <2>1. ASSUME NEW i \in 1..Len(kept)
        PROVE  Safe(kept[i])
    <3> DEFINE p == kept[i]
    <3>1. KeptIn(p, blocks) /\ (p.block = n => p.at + p.size <= a)
      BY <1>1, <1>3 DEF AllKept, a
    <3> HIDE DEF p, n
    <3>2. Len(w) = Len(blocks[n]) /\ \A j \in 1..a : w[j] = blocks[n][j]
      <4>1. \A j \in 1..a : j \in 1..Len(mem) /\ j \notin (a + 1)..(a + F)
        BY <1>4, <1>5, <1>11
      <4> QED
        BY <1>11, <4>1 DEF mem, Block, n
    <3>3. KeptIn(p, blocks')
      <4>1. blocks \in Seq(Seq(Cell)) /\ Len(blocks) >= 1 /\ w \in Seq(Cell) /\ blocks' = [blocks EXCEPT ![Len(blocks)] = w]
        BY <1>2, <1>11, <1>12 DEF n
      <4>2. a \in Nat /\ Len(w) = Len(blocks[Len(blocks)]) /\ \A j \in 1..a : w[j] = blocks[Len(blocks)][j]
        BY <1>4, <3>2 DEF n
      <4>3. KeptIn(p, blocks) /\ (p.block = Len(blocks) => p.at + p.size <= a)
        BY <3>1 DEF n
      <4> QED
        BY ONLY <4>1, <4>2, <4>3, KeptBefore
    <3>4. handler' # "closed" /\ p.block = Len(blocks') => p.at + p.size <= received'.at
      <4> SUFFICES ASSUME handler' # "closed", p.block = Len(blocks') PROVE p.at + p.size <= received'.at
        OBVIOUS
      <4>1. p.at + p.size <= a /\ received'.at = a + F
        BY <1>13, <1>16, <1>17, <3>1
      <4>2. p.at \in Nat /\ p.size \in Nat
        BY <3>1 DEF KeptIn
      <4> QED
        BY <1>4, <1>5, <4>1, <4>2
    <3> QED
      BY <3>3, <3>4 DEF p
  <2> QED
    BY <2>1
<1>20. Safe(q)
  <2> DEFINE u == [mem |-> w, at |-> view.at, size |-> view.size]
  <2>1. view = [mem |-> view.mem, at |-> view.at, size |-> view.size] /\ view.at \in Nat /\ view.size \in Nat
        /\ view.at + view.size <= Len(mem)
    BY <1>8, ViewFacts
  <2>2. [view EXCEPT !.mem = w] = u
    <3> DEFINE vm == view.mem
               va == view.at
               vz == view.size
    <3>1. view = [mem |-> vm, at |-> va, size |-> vz]
      BY <2>1
    <3> HIDE DEF vm, va, vz
    <3>2. [view EXCEPT !.mem = w] = [mem |-> w, at |-> va, size |-> vz]
      BY ONLY <3>1
    <3> QED
      BY <3>2 DEF va, vz
  <2>3. u.mem = w /\ u.at = view.at /\ u.size = view.size
    OBVIOUS
  <2>4. IsView(u)
    BY <1>11, <2>1 DEF IsView, Views
  <2> HIDE DEF u
  <2>5. Contents(u) = SubSeq(w, view.at + 1, view.at + view.size)
    BY <2>3, <2>4, ContentsFacts
  <2>6. q.block = n /\ q.at = view.at /\ q.size = view.size /\ q.bytes = Contents(u)
    BY <2>2
  <2> HIDE DEF q
  <2>7. n \in 1..Len(blocks')
    <3> HIDE DEF n
    <3> QED
      BY <1>12, <1>13
  <2>8. KeptIn(q, blocks')
    BY <1>11, <1>13, <2>1, <2>5, <2>6, <2>7 DEF KeptIn
  <2>9. handler' # "closed" => q.at + q.size <= received'.at
    <3> SUFFICES ASSUME handler' # "closed" PROVE q.at + q.size <= received'.at
      OBVIOUS
    <3>1. received'.at = a + F
      BY <1>16, <1>17
    <3>2. view.at + view.size = a + F
      BY <1>4, <1>5, <1>8
    <3> QED
      BY <1>4, <1>5, <2>6, <3>1, <3>2
  <2> QED
    BY <2>8, <2>9
<1> HIDE DEF q
<1>21. AllKept'
  <2>1. IsSeq(kept)
    BY <1>3 DEF AllKept
  <2>2. IsSeq(kept') /\ \A i \in 1..Len(kept') : Safe(kept'[i])
    <3>1. CASE ~m.keeps
      BY <1>2, <1>19, <2>1, <3>1
    <3>2. CASE m.keeps
      <4> DEFINE l == Len(kept)
      <4>1. kept' = Append(kept, q)
        BY <1>2, <3>2
      <4>2. /\ IsSeq(kept') /\ Len(kept') = l + 1 /\ kept'[l + 1] = q /\ l \in Nat
            /\ \A i \in 1..l : kept'[i] = kept[i]
        BY <2>1, <4>1, AppendFacts
      <4> HIDE DEF l, Safe
      <4>3. \A i \in 1..l : Safe(kept[i])
        BY <1>19 DEF l
      <4>4. \A i \in 1..(l + 1) : i = l + 1 \/ i \in 1..l
        BY <4>2
      <4> QED
        BY <1>20, <4>2, <4>3, <4>4
    <3> QED
      BY <3>1, <3>2
  <2> QED
    BY <2>2 DEF AllKept
<1>22. read.ok => FramesOf(Stream', setting', said', Len(heard'))
  <2> SUFFICES ASSUME read.ok PROVE FramesOf(Stream', setting', said', Len(heard'))
    OBVIOUS
  <2> DEFINE d == SubSeq(c, F + 1, z)
             v == [mem |-> w, at |-> a + F, size |-> z - F]
  <2>1. received'.at = a + F /\ received'.size = z - F
    BY <1>16
  <2>2. Received' = v
    BY <1>13, <2>1 DEF Received
  <2>3. v.mem = w /\ v.at = a + F /\ v.size = z - F
    OBVIOUS
  <2>4. IsView(v)
    <3>1. a + F \in Nat /\ z - F \in Nat /\ (a + F) + (z - F) <= Len(w)
      BY <1>4, <1>5, <1>6, <1>11
    <3> QED
      BY <1>11, <3>1 DEF IsView, Views
  <2> HIDE DEF v
  <2>5. Contents(v) = SubSeq(w, (a + F) + 1, (a + F) + (z - F)) /\ Contents(v) \in Seq(Cell)
    BY <2>3, <2>4, ContentsFacts
  <2>6. c = SubSeq(mem, a + 1, a + z)
    BY <1>4, ContentsFacts DEF c
  <2>7. SubSeq(w, (a + F) + 1, (a + F) + (z - F)) = SubSeq(SubSeq(mem, a + 1, a + z), F + 1, z)
    <3>1. mem \in Seq(Cell) /\ w \in Seq(Cell) /\ Len(w) = Len(mem) /\ a \in Nat /\ z \in Nat /\ F \in Nat
          /\ F <= z /\ a + z <= Len(mem)
      BY <1>4, <1>5, <1>6, <1>11
    <3>2. \A i \in 1..Len(mem) : i \notin (a + 1)..(a + F) => w[i] = mem[i]
      BY <1>11
    <3> QED
      BY ONLY <3>1, <3>2, BehindTheMessage
  <2>8. Contents(v) = d
    BY <2>5, <2>6, <2>7
  <2>9. Contents(Received)' = d
    BY <2>2, <2>8
  <2>10. d \in Seq(Cell) /\ wire \in Seq(Cell) /\ Pending \in Seq(Cell)
    BY <2>5, <2>8, StreamTyped
  <2>11. Pending' = Pending
    BY <1>1 DEF Pending
  <2>12. Stream' = (d \o wire) \o Pending
    BY <1>1, <2>9, <2>11 DEF Stream
  <2> HIDE DEF d
  <2>13. (d \o wire) \o Pending = d \o (wire \o Pending)
    BY ONLY <2>10, ConcatAssociative
  <2>14. FramesOf(d \o rest, setting, said, k + 1)
    BY <1>7 DEF d
  <2>15. Len(heard') = k + 1
    <3>1. IsSeq(heard)
      BY <1>3 DEF AllHeard
    <3> QED
      BY <1>2, <3>1, AppendFacts DEF k
  <2> QED
    BY <1>1, <2>12, <2>13, <2>14, <2>15 DEF rest
<1>23. ~read.ok => Refusal'
  <2> SUFFICES ASSUME ~read.ok PROVE Refusal'
    OBVIOUS
  <2>1. ~Acceptable(m)
    BY <1>9 DEF Acceptable, AllFit
  <2>2. k + 1 \in DOMAIN said
    BY <1>3, <1>5 DEF SaidOK
  <2> QED
    BY <1>1, <2>1, <2>2 DEF Refusal, m
<1> QED
  BY <1>14, <1>15, <1>16, <1>17, <1>18, <1>21, <1>22, <1>23 DEF ReceiverOK

LEMMA ReceiverInit == Init => ReceiverOK
<1> SUFFICES ASSUME Init PROVE ReceiverOK
  OBVIOUS
<1> DEFINE mem == Allocated(ReceiveBufferSize).mem
<1>1. /\ step = "allocate" /\ said = <<>> /\ wire = <<>> /\ blocks = <<mem>>
      /\ received = [at |-> 0, size |-> 0] /\ room = [at |-> 0, size |-> ReceiveBufferSize]
      /\ handler = "reading" /\ arrived = 0 /\ last = 0 /\ heard = <<>> /\ kept = <<>>
  BY DEF Init
<1>2. ReceiveBufferSize \in Nat /\ MinRoom \in Nat /\ MinRoom <= ReceiveBufferSize
  BY RoomAssumption
<1>3. mem \in Seq(Cell) /\ Len(mem) = ReceiveBufferSize
  <2>1. ReceiveBufferSize \in Int /\ ~(ReceiveBufferSize < 0)
    BY <1>2
  <2> QED
    BY <2>1, AllocatedIsBuffer
<1> HIDE DEF mem
<1>4. blocks \in Seq(Seq(Cell)) /\ Len(blocks) = 1 /\ Block = mem
  BY <1>1, <1>3 DEF Block
<1>5. received.at = 0 /\ received.size = 0 /\ room.at = 0 /\ room.size = ReceiveBufferSize
  BY <1>1
<1>6. BlocksOK
  <2>1. received \in [at : Nat, size : Nat] /\ room \in [at : Nat, size : Nat]
    BY <1>1, <1>2
  <2>2. wire \in Seq(Cell) /\ last \in Nat /\ arrived \in Nat /\ Len(blocks) >= 1
    BY <1>1, <1>4
  <2>3. received.at + received.size <= Len(Block) /\ room.at + room.size = Len(Block)
        /\ room.at = received.at + received.size /\ room.size >= MinRoom
    BY <1>2, <1>3, <1>4, <1>5
  <2> QED
    BY <1>1, <1>4, <2>1, <2>2, <2>3 DEF BlocksOK
<1>7. IsSeq(heard) /\ IsSeq(kept) /\ Len(heard) = 0 /\ Len(kept) = 0 /\ Len(said) = 0 /\ 1..0 = {}
  BY <1>1, EmptyIsSeq
<1>8. SaidOK /\ AllHeard /\ AllKept
  <2>1. said \in Seq(Nat)
    BY <1>1
  <2> QED
    BY <1>7, <2>1 DEF SaidOK, AllHeard, AllKept
<1>9. Incomplete
  <2>1. MinMessageSize \in Nat \ {0}
    BY Widths DEF MinMessageSize, HeaderSize
  <2>2. ~(received.size >= MinMessageSize)
    BY <1>5, <2>1
  <2> QED
    BY <2>2 DEF Incomplete
<1>10. Stream = <<>>
  <2>1. Contents(Received) = <<>>
    <3>1. Contents(Received) \in Seq(Cell) /\ Len(Contents(Received)) = 0
      BY <1>5, <1>6, ReceivedIsView
    <3> QED
      BY <3>1
  <2>2. Pending = <<>>
    BY <1>1 DEF Pending
  <2> QED
    BY <1>1, <2>1, <2>2 DEF Stream
<1>11. FramesOf(Stream, setting, said, Len(heard))
  BY <1>1, <1>7, <1>10, NoFrames
<1> QED
  BY <1>1, <1>6, <1>8, <1>9, <1>11 DEF ReceiverOK

LEMMA ReceiverStep == SenderOK /\ ReceiverOK /\ [Next]_vars => ReceiverOK'
<1> SUFFICES ASSUME SenderOK, ReceiverOK, [Next]_vars PROVE ReceiverOK'
  OBVIOUS
<1>1. CASE Allocate \/ AppendValue \/ PrependValue \/ Refused \/ SetHeader \/ WriteFails \/ SendReturns \/ UNCHANGED vars
  BY <1>1, QuietSender
<1>2. CASE Send
  BY <1>2, SendStep
<1>3. CASE WriteSome
  BY <1>3, WriteSomeStep
<1>4. CASE Receive
  BY <1>4, ReceiveStep
<1>5. CASE Frame
  BY <1>5, FrameStep
<1>6. CASE InvalidSize
  BY <1>6, InvalidSizeStep
<1>7. CASE Rearm
  BY <1>7, RearmStep
<1>8. CASE Finished
  <2>1. UNCHANGED vars
    BY <1>8 DEF Finished
  <2> QED
    BY <2>1, QuietSender
<1> QED
  BY <1>1, <1>2, <1>3, <1>4, <1>5, <1>6, <1>7, <1>8 DEF Next, Sending, Handling

LEMMA PathInvariant == Spec => [](SenderOK /\ ReceiverOK)
<1>1. Init => SenderOK /\ ReceiverOK
  BY SenderInit, ReceiverInit
<1>2. SenderOK /\ ReceiverOK /\ [Next]_vars => (SenderOK /\ ReceiverOK)'
  BY SenderStep, ReceiverStep
<1> QED
  BY <1>1, <1>2, PTL DEF Spec

\* The buffers stay within their blocks, no message is heard before it is
\* sent, and the read that is pending may write exactly behind what has been
\* received, with the room it needs.
THEOREM PathIsTyped == Spec => []TypeOK
<1>1. SenderOK /\ ReceiverOK => TypeOK
  <2> SUFFICES ASSUME SenderOK, ReceiverOK PROVE TypeOK
    OBVIOUS
  <2>1. buf.at + buf.size <= Len(buf.mem) /\ step \in {"allocate", "fill", "header", "send", "failed"}
    BY DEF SenderOK, IsBuffer, End
  <2>2. Len(heard) <= Len(said) /\ handler \in {"reading", "framing", "closed"} /\ BlocksOK
    BY DEF ReceiverOK, AllHeard
  <2> QED
    BY <2>1, <2>2 DEF BlocksOK, TypeOK
<1> QED
  BY <1>1, PathInvariant, PTL

\* What on_message takes out of a message is what has been put into it, in
\* the same order, and nothing is left; looking at the values agrees; a
\* message that is kept stays as it was while others are received behind it
\* or in another block.
THEOREM MessagesDelivered == Spec => []DeliveredAsSaid
<1>1. SenderOK /\ ReceiverOK => DeliveredAsSaid
  <2> SUFFICES ASSUME SenderOK, ReceiverOK PROVE DeliveredAsSaid
    OBVIOUS
  <2>1. AllHeard /\ AllKept
    BY DEF ReceiverOK
  <2>2. IsSeq(heard) /\ IsSeq(kept) /\ DOMAIN heard = 1..Len(heard) /\ DOMAIN kept = 1..Len(kept)
    BY <2>1, SeqFacts DEF AllHeard, AllKept
  <2>3. \A i \in DOMAIN heard : HeardOK(heard[i], setting[said[i]])
    BY <2>1, <2>2 DEF AllHeard
  <2>4. \A i \in DOMAIN kept : KeptIn(kept[i], blocks)
    BY <2>1, <2>2 DEF AllKept
  <2>5. \A i \in DOMAIN kept :
          SubSeq(blocks[kept[i].block], kept[i].at + 1, kept[i].at + kept[i].size) = kept[i].bytes
    BY <2>4 DEF KeptIn
  <2>6. ASSUME NEW i \in DOMAIN heard
        PROVE  LET m == setting[said[i]]
                   h == heard[i]
                   values == Restored(m.values, h.values)
               IN  /\ h.ok <=> \A k \in DOMAIN m.values : Fits(m.values[k])
                   /\ h.ok => /\ h.left = 0
                              /\ \A k \in DOMAIN m.values : Says(m.values[k], values[k], k <= m.prepended)
                   /\ \A k \in DOMAIN h.looked :
                         ~Cut(m.values[k]) => Says(m.values[k], h.looked[k], k <= m.prepended)
    BY <2>3 DEF HeardOK, AllFit, LookedAs
  <2> QED
    BY <2>5, <2>6 DEF DeliveredAsSaid
<1> QED
  BY <1>1, PathInvariant, PTL

\* When everything is sent and received nothing is missing and nothing is
\* left in the receiver's block, and a session is only closed on a message
\* that is too long or does not fit.
THEOREM NothingLost == Spec => []NothingIsLost
<1>1. SenderOK /\ ReceiverOK => NothingIsLost
  <2> SUFFICES ASSUME SenderOK, ReceiverOK PROVE NothingIsLost
    OBVIOUS
  <2>1. handler = "closed" => \E i \in DOMAIN said : ~Acceptable(setting[said[i]])
    BY DEF ReceiverOK, Refusal
  <2>2. ASSUME building > Len(setting), wire = <<>>, handler = "reading"
        PROVE  Len(heard) = Len(said) /\ received.size = 0
    <3> DEFINE c == Contents(Received)
               k == Len(heard)
               z == received.size
               m == setting[said[k + 1]]
    <3>1. step = "allocate"
      <4>1. Len(setting) \in Nat /\ building \in Nat
        BY AtMessageFacts DEF SenderOK
      <4>2. ~(building <= Len(setting))
        BY <2>2, <4>1
      <4> QED
        BY <4>2 DEF SenderOK, AtMessage
    <3>2. Pending = <<>>
      BY <3>1 DEF Pending
    <3>3. c \in Seq(Cell) /\ Len(c) = z /\ z \in Nat
      BY StreamParts
    <3>4. Stream = c
      BY <2>2, <3>2, <3>3 DEF Stream
    <3>5. FramesOf(c, setting, said, k) /\ Incomplete /\ said \in Seq(Nat) /\ k \in Nat
      BY <2>2, <3>4, SeqFacts DEF ReceiverOK, SaidOK, AllHeard
    <3>6. k <= Len(said) /\ (k = Len(said) => Len(c) = 0)
      BY <3>3, <3>5, NoMoreFrames
    <3>7. ASSUME k # Len(said)
          PROVE  FALSE
      <4>1. Len(said) \in Nat
        BY <3>5
      <4>2. k < Len(said) /\ k + 1 \in 1..Len(said)
        BY <3>5, <3>6, <3>7, <4>1
      <4>3. IsMessage(m)
        <5>1. said[k + 1] \in 1..Len(setting)
          BY <4>2 DEF ReceiverOK, SaidOK
        <5> QED
          BY <5>1, AtMessageFacts DEF SenderOK
      <4> DEFINE F == FrameSize(m)
      <4>4. F \in Nat /\ F <= z
        BY <3>3, <3>5, <4>2, <4>3, FirstFrame
      <4>5. HeaderSize \in Nat /\ HeaderSize <= F
        <5>1. 0 \in 0..Len(m.values) /\ HeaderSize \in Nat
          BY <4>3, MessageFacts
        <5>2. HeaderSize <= Offset(m, 0) /\ Offset(m, 0) <= F
          BY <4>3, <5>1, MessageFacts
        <5> DEFINE o == Offset(m, 0)
        <5>3. o = HeaderSize /\ o <= F
          BY <4>3, <5>2, MessageFacts
        <5> QED
          BY <5>1, <5>3
      <4>6. z >= MinMessageSize
        <5> HIDE DEF F, z
        <5> QED
          BY <3>3, <4>4, <4>5 DEF MinMessageSize
      <4>7. MessageSize = F
        BY <2>2, <4>6, HeaderSays
      <4>8. MessageSize \in (z + 1)..MaxMessageSize
        BY <3>5, <4>6 DEF Incomplete
      <4> HIDE DEF F, z
      <4>9. F >= z + 1
        BY <3>3, <4>4, <4>7, <4>8, RoomAssumption
      <4> QED
        BY <3>3, <4>4, <4>9
    <3> QED
      BY <3>3, <3>6, <3>7
  <2> QED
    BY <2>1, <2>2 DEF NothingIsLost
<1> QED
  BY <1>1, PathInvariant, PTL

===============================================================================
