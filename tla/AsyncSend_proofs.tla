--------------------------- MODULE AsyncSend_proofs ---------------------------
(***************************************************************************)
(* Proofs about both senders of AsyncSend, for any messages of any size    *)
(* and any faults: that a sender has one write outstanding, for the front  *)
(* of its queue or for the batch it gathered, that it holds itself for as  *)
(* long as its writes last, and that the peer is sent the accepted         *)
(* messages in order, whole and once each.                                 *)
(***************************************************************************)
EXTENDS AsyncSend, SequenceTheorems, WellFoundedInduction, TLAPS

-----------------------------------------------------------------------------
(* Induction over the natural numbers, stated of a set instead of an         *)
(* operator: a set of natural numbers that is not empty has a least element, *)
(* since < is well-founded on them.                                          *)

LEMMA LessIsWellFounded ==
    \E R : IsWellFoundedOn(R, Nat) /\ \A x, y \in Nat : y < x => <<y, x>> \in R
<1> DEFINE R == OpToRel(<, Nat)
<1>1. IsWellFoundedOn(R, Nat)
  BY NatLessThanWellFounded
<1>2. \A x, y \in Nat : y < x => <<y, x>> \in R
  BY DEF OpToRel
<1> HIDE DEF R
<1> QED
  BY ONLY <1>1, <1>2, Zenon

LEMMA LeastNatural ==
    ASSUME NEW S, S \subseteq Nat, S # {}
    PROVE  \E n \in S : \A k \in S : n <= k
<1>1. PICK R : IsWellFoundedOn(R, Nat) /\ \A x, y \in Nat : y < x => <<y, x>> \in R
  BY LessIsWellFounded
<1>2. PICK n \in S : \A k \in S : ~(<<k, n>> \in R)
  BY <1>1, WFMin
<1>3. \A k \in S : ~(k < n)
  BY <1>1, <1>2, Zenon
<1>4. \A k \in S : k \in Nat /\ n \in Nat
  OBVIOUS
<1>5. \A k \in S : n <= k
  BY ONLY <1>3, <1>4
<1> QED
  BY <1>5, Zenon

LEMMA NaturalInduction ==
    ASSUME NEW S, 0 \in S, \A n \in Nat : n \in S => n + 1 \in S
    PROVE  \A n \in Nat : n \in S
<1> SUFFICES ASSUME Nat \ S # {} PROVE FALSE
  OBVIOUS
<1>1. PICK n \in Nat \ S : \A k \in Nat \ S : n <= k
  BY LeastNatural
<1>2. n - 1 \in Nat
  OBVIOUS
<1>3. n - 1 \in S
  BY <1>1, <1>2
<1> QED
  BY <1>2, <1>3

-----------------------------------------------------------------------------
(* FlattenSeq *)

\* f[i] is the concatenation of the first i sequences of s.
Flattens(f, s, n) ==
    \A i \in 1..n : f[i] = IF i = 1 THEN s[i] ELSE f[i - 1] \o s[i]

LEMMA FlatteningExists ==
    ASSUME NEW V, NEW s \in Seq(Seq(V))
    PROVE  \E f \in [1..Len(s) -> Seq(V)] : Flattens(f, s, Len(s))
<1> DEFINE S == {n \in Nat : n <= Len(s) =>
                    \E f \in [1..n -> Seq(V)] : Flattens(f, s, n)}
<1>1. 0 \in S
  <2> DEFINE f == [i \in 1..0 |-> <<>>]
  <2>1. f \in [1..0 -> Seq(V)]
    OBVIOUS
  <2>2. \A i \in 1..0 : FALSE
    OBVIOUS
  <2> HIDE DEF f
  <2>3. Flattens(f, s, 0)
    BY <2>2, Zenon DEF Flattens
  <2> QED
    BY <2>1, <2>3
<1>2. ASSUME NEW n \in Nat, n \in S
      PROVE  n + 1 \in S
  <2> SUFFICES ASSUME n + 1 <= Len(s)
               PROVE  \E f \in [1..(n + 1) -> Seq(V)] : Flattens(f, s, n + 1)
    OBVIOUS
  <2>1. PICK f \in [1..n -> Seq(V)] : Flattens(f, s, n)
    BY <1>2
  <2> DEFINE g == [i \in 1..(n + 1) |->
                      IF i <= n THEN f[i] ELSE IF n = 0 THEN s[1] ELSE f[n] \o s[n + 1]]
  <2>2. s[n + 1] \in Seq(V)
    OBVIOUS
  <2>3. g \in [1..(n + 1) -> Seq(V)]
    BY <2>2
  <2>4. ASSUME NEW i \in 1..(n + 1)
        PROVE  g[i] = IF i = 1 THEN s[i] ELSE g[i - 1] \o s[i]
    <3>1. CASE i <= n
      <4>1. f[i] = IF i = 1 THEN s[i] ELSE f[i - 1] \o s[i]
        <5>1. i \in 1..n
          BY <3>1
        <5> QED
          BY <2>1, <5>1, Zenon DEF Flattens
      <4>2. g[i] = f[i] /\ (i # 1 => g[i - 1] = f[i - 1])
        BY <3>1
      <4> QED
        BY <4>1, <4>2
    <3>2. CASE i = n + 1 /\ n = 0
      BY <3>2
    <3>3. CASE i = n + 1 /\ n # 0
      BY <3>3
    <3> QED
      BY <3>1, <3>2, <3>3
  <2> QED
    BY <2>3, <2>4 DEF Flattens
<1> HIDE DEF S
<1>3. \A n \in Nat : n \in S
  BY <1>1, <1>2, NaturalInduction
<1> QED
  BY <1>3 DEF S

LEMMA FlatteningIsUnique ==
    ASSUME NEW s, NEW t, NEW f, NEW g, NEW n \in Nat,
           Flattens(f, s, n), Flattens(g, t, n), \A i \in 1..n : s[i] = t[i]
    PROVE  \A i \in 1..n : f[i] = g[i]
<1> DEFINE S == {k \in Nat : k \in 1..n => f[k] = g[k]}
<1>1. 0 \in S
  OBVIOUS
<1>2. ASSUME NEW k \in Nat, k \in S
      PROVE  k + 1 \in S
  <2> SUFFICES ASSUME k + 1 \in 1..n PROVE f[k + 1] = g[k + 1]
    OBVIOUS
  <2>1. CASE k = 0
    BY <2>1 DEF Flattens
  <2>2. CASE k # 0
    <3>1. f[k] = g[k] /\ (k + 1) - 1 = k
      BY <1>2, <2>2
    <3> QED
      BY <2>2, <3>1 DEF Flattens
  <2> QED
    BY <2>1, <2>2
<1> HIDE DEF S
<1>3. \A k \in Nat : k \in S
  BY <1>1, <1>2, NaturalInduction
<1> QED
  BY <1>3 DEF S

LEMMA FlattenUnfolds ==
    ASSUME NEW V, NEW s \in Seq(Seq(V)), s # <<>>
    PROVE  \E f \in [1..Len(s) -> Seq(V)] :
               Flattens(f, s, Len(s)) /\ FlattenSeq(s) = f[Len(s)]
<1>1. PICK g \in [1..Len(s) -> Seq(V)] : Flattens(g, s, Len(s))
  BY FlatteningExists
<1> DEFINE F(h) == [i \in 1..Len(s) |-> IF i = 1 THEN s[i] ELSE h[i - 1] \o s[i]]
           f == CHOOSE h : h = F(h)
<1>2. g = F(g)
  BY <1>1 DEF Flattens
<1>3. f = F(f)
  BY <1>2
<1>4. FlattenSeq(s) = f[Len(s)]
  BY DEF FlattenSeq
<1> HIDE DEF f
<1>5. Flattens(f, s, Len(s))
  BY <1>3 DEF Flattens
<1>6. \A i \in 1..Len(s) : f[i] = g[i]
  BY <1>1, <1>5, FlatteningIsUnique
<1>7. f \in [1..Len(s) -> Seq(V)]
  BY <1>3, <1>6
<1> QED
  BY <1>4, <1>5, <1>7

LEMMA FlattenEmpty == FlattenSeq(<<>>) = <<>>
BY DEF FlattenSeq

LEMMA FlattenType ==
    ASSUME NEW V, NEW s \in Seq(Seq(V))
    PROVE  FlattenSeq(s) \in Seq(V)
<1>1. CASE s = <<>>
  <2>1. FlattenSeq(s) = <<>>
    BY <1>1, FlattenEmpty, Zenon
  <2> QED
    BY <2>1
<1>2. CASE s # <<>>
  <2>1. Len(s) \in 1..Len(s)
    BY <1>2
  <2> QED
    BY <1>2, <2>1, FlattenUnfolds, SMTT(30)
<1> QED
  BY <1>1, <1>2

\* What follows last comes last.
LEMMA FlattenAppend ==
    ASSUME NEW V, NEW s \in Seq(Seq(V)), NEW a \in Seq(V)
    PROVE  FlattenSeq(Append(s, a)) = FlattenSeq(s) \o a
<1> DEFINE t == Append(s, a)
<1>1. /\ t \in Seq(Seq(V)) /\ t # <<>> /\ Len(t) = Len(s) + 1
      /\ \A i \in 1..Len(s) : t[i] = s[i]
      /\ t[Len(s) + 1] = a
  <2>1. t \in Seq(Seq(V))
    OBVIOUS
  <2>2. Len(t) = Len(s) + 1
    OBVIOUS
  <2>3. \A i \in 1..Len(s) : t[i] = s[i]
    OBVIOUS
  <2>4. t[Len(s) + 1] = a
    OBVIOUS
  <2> HIDE DEF t
  <2>5. t # <<>>
    BY <2>1, <2>2
  <2> QED
    BY <2>1, <2>2, <2>3, <2>4, <2>5
<1> HIDE DEF t
<1>2. PICK f \in [1..Len(t) -> Seq(V)] : Flattens(f, t, Len(t)) /\ FlattenSeq(t) = f[Len(t)]
  BY <1>1, FlattenUnfolds
<1>3. CASE s = <<>>
  <2>1. f[1] = a
    BY <1>1, <1>2, <1>3 DEF Flattens
  <2> QED
    BY <1>1, <1>2, <1>3, <2>1, FlattenEmpty DEF t
<1>4. CASE s # <<>>
  <2>1. PICK g \in [1..Len(s) -> Seq(V)] : Flattens(g, s, Len(s)) /\ FlattenSeq(s) = g[Len(s)]
    BY <1>4, FlattenUnfolds
  <2>2. Flattens(f, t, Len(s))
    <3>1. \A i \in 1..Len(s) : i \in 1..Len(t)
      BY <1>1
    <3> QED
      BY <1>2, <3>1, Zenon DEF Flattens
  <2>3. Len(s) \in Nat /\ Len(s) # 0 /\ Len(s) \in 1..Len(s)
    BY <1>4
  <2>4. f[Len(s)] = g[Len(s)]
    <3>1. \A i \in 1..Len(s) : f[i] = g[i]
      <4>1. Flattens(g, s, Len(s)) /\ Len(s) \in Nat
        BY <2>1, <2>3
      <4>2. \A i \in 1..Len(s) : t[i] = s[i]
        BY <1>1
      <4> QED
        BY ONLY <2>2, <4>1, <4>2, FlatteningIsUnique
    <3> QED
      BY <2>3, <3>1
  <2>5. f[Len(t)] = f[Len(s)] \o a
    <3>1. Len(t) \in 1..Len(t) /\ Len(t) # 1 /\ Len(t) - 1 = Len(s)
      BY <1>1, <2>3
    <3>2. f[Len(t)] = f[Len(t) - 1] \o t[Len(t)]
      BY <1>2, <3>1, Zenon DEF Flattens
    <3> QED
      BY <1>1, <3>1, <3>2
  <2> QED
    BY <1>2, <2>1, <2>4, <2>5 DEF t
<1> QED
  BY <1>3, <1>4

\* What stands first comes first.
LEMMA FlattenPrepend ==
    ASSUME NEW V, NEW s \in Seq(Seq(V)), NEW a \in Seq(V)
    PROVE  FlattenSeq(<<a>> \o s) = a \o FlattenSeq(s)
<1> DEFINE S == {n \in Nat : \A t \in Seq(Seq(V)) :
                    Len(t) = n => FlattenSeq(<<a>> \o t) = a \o FlattenSeq(t)}
<1>1. 0 \in S
  <2> SUFFICES ASSUME NEW t \in Seq(Seq(V)), Len(t) = 0
               PROVE  FlattenSeq(<<a>> \o t) = a \o FlattenSeq(t)
    OBVIOUS
  <2>1. t = <<>> /\ <<a>> \o t = Append(<<>>, a)
    OBVIOUS
  <2>2. <<>> \in Seq(Seq(V))
    OBVIOUS
  <2>3. FlattenSeq(Append(<<>>, a)) = FlattenSeq(<<>>) \o a
    BY <2>2, FlattenAppend
  <2> QED
    BY <2>1, <2>3, FlattenEmpty
<1>2. ASSUME NEW n \in Nat, n \in S
      PROVE  n + 1 \in S
  <2> SUFFICES ASSUME NEW t \in Seq(Seq(V)), Len(t) = n + 1
               PROVE  FlattenSeq(<<a>> \o t) = a \o FlattenSeq(t)
    <3>1. n + 1 \in Nat
      OBVIOUS
    <3> QED
      BY <3>1, Zenon
  <2> DEFINE r == SubSeq(t, 1, n)
             b == t[n + 1]
  <2>1. r \in Seq(Seq(V)) /\ Len(r) = n /\ b \in Seq(V) /\ t = Append(r, b)
    OBVIOUS
  <2> HIDE DEF r, b
  <2>2. <<a>> \o r \in Seq(Seq(V)) /\ <<a>> \o t = Append(<<a>> \o r, b)
    BY <2>1
  <2>3. FlattenSeq(<<a>> \o t) = FlattenSeq(<<a>> \o r) \o b
    BY <2>1, <2>2, FlattenAppend
  <2>4. FlattenSeq(<<a>> \o r) = a \o FlattenSeq(r)
    BY <1>2, <2>1
  <2>5. FlattenSeq(t) = FlattenSeq(r) \o b
    BY <2>1, FlattenAppend
  <2>6. FlattenSeq(r) \in Seq(V)
    BY <2>1, FlattenType
  <2>7. (a \o FlattenSeq(r)) \o b = a \o (FlattenSeq(r) \o b)
    BY <2>1, <2>6
  <2> QED
    BY <2>3, <2>4, <2>5, <2>7
<1> HIDE DEF S
<1>3. \A n \in Nat : n \in S
  BY <1>1, <1>2, NaturalInduction
<1> QED
  BY <1>3, SMTT(30) DEF S

USE SizeAssumption, GathersAssumption, MayCloseAssumption, ThrowsAssumption

-----------------------------------------------------------------------------
(* The inductive invariant *)

\* The write of the front, or of the batch: it is the only one, held, and takes
\* of what it was given.
FrontWrite(w) ==
    /\ writes = {w}
    /\ gather => w.data # <<>>
    /\ IF gather THEN sending = w.data
                 ELSE queue # <<>> /\ queue[1] = w.data
    /\ holdSend
    /\ w.status = "ok" => w.len <= Len(w.data)

\* As long as the gathering sender was given no empty message, nothing empty
\* waits for it either: an empty batch means that nothing is being written.
OpenIsOrderly ==
    open /\ NoneEmpty =>
        /\ ~undefined
        /\ gather /\ sending = <<>> => queue = <<>>
        /\ gather => \A i \in 1..Len(queue) : queue[i] # <<>>
        /\ \A w \in writes : FrontWrite(w)

UnwrittenIsReleased ==
    /\ writes = {} /\ NoneThrown /\ ~undefined /\ NoneEmpty
    /\ gather => open
    => ~holdSend

OpenIsEstablished == open => sockState = "ESTABLISHED"
BatchIsGathered == sending # <<>> => gather
ClosingIsClosed == closer # "idle" => ~open

IInv ==
    /\ TypeOK
    /\ BatchIsGathered
    /\ ClosingIsClosed
    /\ OpenIsEstablished
    /\ OpenIsOrderly
    /\ UnwrittenIsReleased

\* What is left to write of what was accepted: the batch, then the queue.
Remaining == sending \o FlattenSeq(queue)

\* As long as the connection is whole, what the peer has and what is left make
\* up what was promised; the handler of a write that took some of the front
\* has yet to take it off.
Unsent(w) == IF w.status = "ok" THEN Rest(Remaining, w.len) ELSE Remaining
NothingIsLost ==
    open /\ ~reset /\ NoneEmpty =>
       /\ \A w \in writes : w.status # "err" /\ Stream!Promised = stream \o Unsent(w)
       /\ writes = {} => Stream!Promised = stream \o Remaining

AcceptedOnce == \A m \in ToSet(accepted) : sender[m] = "true"

StreamInv == NothingIsLost /\ AcceptedOnce
-----------------------------------------------------------------------------
(* Buffers *)

LEMMA BufferIsFlat == Buffer = Seq(Messages)
BY DEF Buffer

LEMMA QueueType ==
    ASSUME TypeOK
    PROVE  /\ queue \in Seq(Buffer)
           /\ queue \in Seq(Seq(Messages))
           /\ sending \in Seq(Messages)
           /\ FlattenSeq(queue) \in Seq(Messages)
<1>1. queue \in Seq(Buffer) /\ sending \in Seq(Messages)
  BY DEF TypeOK, Buffer
<1>2. queue \in Seq(Seq(Messages))
  BY <1>1, BufferIsFlat
<1> QED
  BY <1>1, <1>2, FlattenType

\* Buffers of which one is not empty make up one that is not empty.
LEMMA FlattenBuffers ==
    ASSUME NEW s \in Seq(Buffer)
    PROVE  /\ FlattenSeq(s) \in Buffer
           /\ s # <<>> /\ s[1] # <<>> => FlattenSeq(s) # <<>>
<1>1. s \in Seq(Seq(Messages))
  BY BufferIsFlat
<1>2. FlattenSeq(s) \in Buffer
  BY <1>1, FlattenType, BufferIsFlat
<1>3. ASSUME s # <<>>, s[1] # <<>>
      PROVE  FlattenSeq(s) # <<>>
  <2> DEFINE a == s[1]
             t == Tail(s)
  <2>1. a \in Seq(Messages) /\ t \in Seq(Seq(Messages)) /\ s = <<a>> \o t /\ a # <<>>
    BY <1>1, <1>3
  <2> HIDE DEF a, t
  <2>2. FlattenSeq(s) = a \o FlattenSeq(t)
    BY <2>1, FlattenPrepend
  <2>3. FlattenSeq(t) \in Seq(Messages)
    BY <2>1, FlattenType
  <2>4. Len(a \o FlattenSeq(t)) # 0
    BY <2>1, <2>3
  <2> QED
    BY <2>2, <2>4
<1> QED
  BY <1>2, <1>3

LEMMA UnitsType ==
    ASSUME NEW m \in Messages
    PROVE  /\ Units(m) \in Buffer
           /\ Units(m) = <<>> => Size[m] = 0
<1>1. Size[m] \in Nat
  OBVIOUS
<1>2. Units(m) \in Buffer /\ Len(Units(m)) = Size[m]
  BY <1>1 DEF Units, Buffer
<1> QED
  BY <1>1, <1>2

\* A gathering sender that was given no empty message has not been given one
\* before.
LEMMA NoneEmptyBefore ==
    ASSUME TypeOK, NEW m \in Messages, UNCHANGED gather,
           accepted' = accepted \/ accepted' = Append(accepted, m), NoneEmpty'
    PROVE  /\ NoneEmpty
           /\ gather /\ accepted' = Append(accepted, m) => Units(m) # <<>>
<1>1. ASSUME accepted' = Append(accepted, m)
      PROVE  ToSet(accepted) \subseteq ToSet(accepted') /\ m \in ToSet(accepted')
  <2>1. accepted \in Seq(Messages)
    BY DEF TypeOK
  <2>2. /\ Len(accepted) \in Nat /\ DOMAIN accepted = 1..Len(accepted)
        /\ DOMAIN accepted' = 1..(Len(accepted) + 1)
        /\ accepted'[Len(accepted) + 1] = m
        /\ \A i \in 1..Len(accepted) : accepted'[i] = accepted[i]
    BY <1>1, <2>1
  <2>3. /\ Len(accepted) + 1 \in 1..(Len(accepted) + 1)
        /\ \A i \in 1..Len(accepted) : i \in 1..(Len(accepted) + 1)
    BY <2>2
  <2> QED
    BY <2>2, <2>3 DEF ToSet
<1>2. CASE accepted' = accepted
  <2>1. NoneEmpty
    BY <1>2 DEF NoneEmpty
  <2>2. accepted' # Append(accepted, m)
    BY <1>2 DEF TypeOK
  <2> QED
    BY <2>1, <2>2
<1>3. CASE accepted' = Append(accepted, m)
  <2>1. Units(m) = <<>> => Size[m] = 0
    BY UnitsType
  <2>2. gather => \A x \in ToSet(accepted') : Size[x] # 0
    BY DEF NoneEmpty
  <2> QED
    BY <1>1, <1>3, <2>1, <2>2 DEF NoneEmpty
<1> QED
  BY <1>2, <1>3

LEMMA RestType ==
    ASSUME NEW buffer \in Buffer, NEW n \in Nat, n < Len(buffer)
    PROVE  Rest(buffer, n) \in Buffer /\ Rest(buffer, n) # <<>>
<1>1. Rest(buffer, n) \in Buffer /\ Len(Rest(buffer, n)) = Len(buffer) - n
  BY DEF Rest, Buffer
<1> QED
  BY <1>1

\* What a handler takes of, and what stands behind it.
Foremost == IF gather THEN sending ELSE queue[1]
Behind == IF gather THEN queue ELSE Tail(queue)

LEMMA FrontType ==
    ASSUME TypeOK, NEW n \in Nat, FrontHas(n), gather => sending # <<>>
    PROVE  /\ Foremost \in Seq(Messages) /\ Len(Foremost) >= n
           /\ Behind \in Seq(Buffer) /\ Behind \in Seq(Seq(Messages))
           /\ ~gather => queue = <<Foremost>> \o Behind
<1>1. CASE gather
  BY <1>1, QueueType DEF FrontHas, Foremost, Behind
<1>2. CASE ~gather
  <2>1. /\ queue \in Seq(Buffer) /\ queue # <<>>
        /\ queue[1] \in Buffer /\ Len(queue[1]) >= n
        /\ Tail(queue) \in Seq(Buffer)
        /\ queue = <<queue[1]>> \o Tail(queue)
    BY <1>2, QueueType DEF FrontHas
  <2> QED
    BY <1>2, <2>1, BufferIsFlat DEF Foremost, Behind, Buffer
<1> QED
  BY <1>1, <1>2

\* What is left of the queue is a queue again, no longer than before, and of
\* messages that are not empty when those behind the front are not.
LEMMA AdvanceType ==
    ASSUME TypeOK, NEW n \in Nat, FrontHas(n), gather => sending # <<>>
    PROVE  /\ Advance(n) \in Seq(Buffer) /\ Len(Advance(n)) <= Queued
           /\ gather /\ (\A i \in 1..Len(queue) : queue[i] # <<>>)
              => \A i \in 1..Len(Advance(n)) : Advance(n)[i] # <<>>
<1>1. /\ Behind \in Seq(Buffer) /\ queue \in Seq(Buffer)
      /\ Len(Behind) + 1 <= Queued
      /\ gather => Behind = queue
  <2>1. CASE gather
    BY <2>1, QueueType DEF Behind, Queued
  <2>2. CASE ~gather
    <3>1. queue \in Seq(Buffer) /\ queue # <<>> /\ Len(queue) <= Queued
      BY <2>2, QueueType DEF Queued, FrontHas
    <3> QED
      BY <2>2, <3>1, FrontType DEF Behind
  <2> QED
    BY <2>1, <2>2
<1>2. CASE Len(Foremost) = n
  <2>1. Advance(n) = Behind
    BY <1>2 DEF Advance, Foremost, Behind
  <2>2. Len(Behind) \in Nat /\ Queued \in Int
    BY <1>1 DEF Queued
  <2> QED
    BY <1>1, <2>1, <2>2
<1>3. CASE Len(Foremost) # n
  <2>1. Foremost \in Buffer /\ n < Len(Foremost)
    BY <1>3, FrontType DEF Buffer
  <2> DEFINE r == Rest(Foremost, n)
  <2>2. r \in Buffer /\ r # <<>>
    BY <2>1, RestType
  <2>3. Advance(n) = <<r>> \o Behind
    BY <1>3 DEF Advance, Foremost, Behind
  <2> HIDE DEF r
  <2>4. /\ <<r>> \o Behind \in Seq(Buffer) /\ Len(<<r>> \o Behind) = Len(Behind) + 1
        /\ \A i \in 1..(Len(Behind) + 1) : (<<r>> \o Behind)[i] = IF i = 1 THEN r ELSE Behind[i - 1]
    BY <1>1, <2>2
  <2>5. ASSUME gather, \A i \in 1..Len(queue) : queue[i] # <<>>,
               NEW i \in 1..(Len(Behind) + 1)
        PROVE  (<<r>> \o Behind)[i] # <<>>
    <3>1. CASE i = 1
      BY <2>2, <2>4, <3>1
    <3>2. CASE i # 1
      <4>1. Len(Behind) \in Nat
        BY <1>1
      <4>2. i - 1 \in 1..Len(Behind)
        BY <3>2, <4>1
      <4> QED
        BY <1>1, <2>4, <2>5, <3>2, <4>2
    <3> QED
      BY <3>1, <3>2
  <2> QED
    BY <1>1, <2>3, <2>4, <2>5
<1> QED
  BY <1>2, <1>3

\* The handlers leave no more queued and gathered than there was.
LEMMA AdvanceQueued ==
    ASSUME TypeOK, NEW n \in Nat, FrontHas(n), gather => sending # <<>>,
           UNCHANGED accepted,
           \/ queue' = Advance(n) /\ sending' = <<>>
           \/ queue' = Advance(n) /\ ~gather /\ sending' = sending
           \/ queue' = <<>> /\ Advance(n) # <<>>
    PROVE  Queued' <= Len(accepted')
<1>1. /\ Advance(n) \in Seq(Buffer) /\ Len(Advance(n)) <= Queued
      /\ Queued <= Len(accepted) /\ Len(accepted) \in Nat
      /\ queue \in Seq(Buffer)
  BY AdvanceType DEF TypeOK
<1>2. Queued \in Nat /\ Len(Advance(n)) \in Nat
  BY <1>1 DEF Queued
<1>3. CASE queue' = Advance(n) /\ sending' = <<>>
  BY <1>1, <1>2, <1>3 DEF Queued
<1>4. CASE queue' = Advance(n) /\ ~gather /\ sending' = sending
  <2>1. Len(Advance(n)) <= Len(queue)
    <3>1. Behind = Tail(queue) /\ Foremost = queue[1] /\ queue # <<>>
      BY <1>4 DEF Behind, Foremost, FrontHas
    <3>2. Tail(queue) \in Seq(Buffer) /\ Len(Tail(queue)) = Len(queue) - 1
      BY <1>1, <3>1
    <3> DEFINE r == Rest(queue[1], n)
               t == Tail(queue)
    <3>3. Advance(n) = t \/ Advance(n) = <<r>> \o t
      BY <1>4 DEF Advance
    <3> HIDE DEF r, t
    <3>4. t \in Seq(Buffer) /\ Len(t) = Len(queue) - 1
      BY <3>2 DEF t
    <3>5. Len(<<r>> \o t) = Len(t) + 1
      BY <3>4
    <3> QED
      BY <1>1, <3>3, <3>4, <3>5
  <2>2. Len(queue) \in Nat
    BY <1>1
  <2> QED
    BY <1>1, <1>2, <1>4, <2>1, <2>2 DEF Queued
<1>5. CASE queue' = <<>> /\ Advance(n) # <<>>
  <2>1. Len(Advance(n)) >= 1
    BY <1>1, <1>2, <1>5
  <2> QED
    BY <1>1, <1>2, <1>5, <2>1 DEF Queued
<1> QED
  BY <1>3, <1>4, <1>5

LEMMA StartWriteType ==
    ASSUME open \in BOOLEAN, NEW m \in Messages, NEW buffer \in Buffer
    PROVE  /\ StartWrite(m, buffer) \in Write
           /\ StartWrite(m, buffer).data = buffer /\ StartWrite(m, buffer).len = 0
           /\ open => StartWrite(m, buffer).status # "err"
BY DEF StartWrite, Write

LEMMA AbortedType ==
    ASSUME NEW ws, ws \subseteq Write
    PROVE  Aborted(ws) \subseteq Write
<1> SUFFICES ASSUME NEW w \in ws
             PROVE  (IF w.status = "pending" THEN [w EXCEPT !.status = "err"] ELSE w) \in Write
  BY DEF Aborted
<1>1. w \in Write
  OBVIOUS
<1> QED
  BY <1>1 DEF Write

LEMMA FinishType ==
    ASSUME TypeOK, NEW w \in writes, NEW status \in {"ok", "err"}, NEW n \in Nat,
           Finish(w, status, n)
    PROVE  /\ [w EXCEPT !.status = status, !.len = n] \in Write
           /\ writes' \subseteq Write
<1>1. w \in Write
  BY DEF TypeOK
<1>2. [w EXCEPT !.status = status, !.len = n] \in Write
  BY <1>1 DEF Write
<1> QED
  BY <1>2 DEF TypeOK, Finish

-----------------------------------------------------------------------------
(* send() *)

LEMMA SenderInv ==
    ASSUME IInv, NEW m \in Messages, SenderStep(m)
    PROVE  IInv'
<1>1. /\ TypeOK /\ BatchIsGathered /\ ClosingIsClosed
      /\ OpenIsEstablished /\ OpenIsOrderly /\ UnwrittenIsReleased
  BY DEF IInv
<1>2. UNCHANGED <<gather, sockState, open, closer, undefined>>
  BY DEF SenderStep, CheckState, PushMessage, PushThrows, MustWait
<1>6. OpenIsEstablished'
  BY <1>1, <1>2 DEF OpenIsEstablished
<1>7. NoneEmpty' => NoneEmpty
  BY <1>1, <1>2, NoneEmptyBefore DEF SenderStep, CheckState, PushMessage, PushThrows
<1>3. CASE CheckState(m)
  <2>1. TypeOK'
    <3>1. sender' \in [Messages -> SenderPoints]
      BY <1>1, <1>3 DEF CheckState, TypeOK, SenderPoints
    <3>2. UNCHANGED <<gather, sockState, open, reset, queue, sending, holdSend,
                      writes, closer, accepted, stream, undefined>>
      BY <1>3 DEF CheckState
    <3>3. /\ queue' \in Seq(Buffer) /\ sending' \in Buffer
          /\ writes' \subseteq Write /\ accepted' \in Seq(Messages)
          /\ stream' \in Seq(Messages)
      BY <1>1, <3>2 DEF TypeOK
    <3>4. /\ gather' \in BOOLEAN /\ sockState' \in SocketStates /\ open' \in BOOLEAN
          /\ reset' \in BOOLEAN /\ holdSend' \in BOOLEAN
          /\ closer' \in CloserPoints /\ undefined' \in BOOLEAN
          /\ Queued' <= Len(accepted')
      BY <1>1, <3>2 DEF TypeOK, Queued
    <3> QED
      BY <3>1, <3>3, <3>4 DEF TypeOK
  <2>2. OpenIsOrderly'
    BY <1>1, <1>3 DEF CheckState, OpenIsOrderly, FrontWrite, NoneEmpty
  <2>3. UnwrittenIsReleased'
    BY <1>1, <1>3 DEF TypeOK, CheckState, UnwrittenIsReleased, NoneThrown, NoneEmpty
  <2> QED
    BY <1>1, <1>2, <1>3, <1>6, <2>1, <2>2, <2>3 DEF IInv, BatchIsGathered, ClosingIsClosed, CheckState
<1>4. CASE PushMessage(m)
  <2> DEFINE w == StartWrite(m, Units(m))
  <2>1. Units(m) \in Buffer /\ w \in Write /\ w.data = Units(m) /\ w.len = 0
    BY <1>1, UnitsType, StartWriteType DEF TypeOK
  <2>2. /\ accepted' = Append(accepted, m)
        /\ sender' = [sender EXCEPT ![m] = "true"]
        /\ sender[m] = "checked"
        /\ UNCHANGED <<gather, sockState, open, reset, closer, stream, undefined>>
        /\ IF MustWait THEN UNCHANGED <<holdSend, writes>>
                       ELSE holdSend' = TRUE /\ writes' = writes \cup {w}
        /\ IF gather /\ ~MustWait
           THEN sending' = Units(m) /\ UNCHANGED queue
           ELSE queue' = Append(queue, Units(m)) /\ UNCHANGED sending
    BY <1>4 DEF PushMessage, SendAsync
  <2> HIDE DEF w
  <2>3. queue' \in Seq(Buffer) /\ sending' \in Buffer
    <3>1. queue \in Seq(Buffer) /\ sending \in Buffer
      BY <1>1 DEF TypeOK
    <3>2. Append(queue, Units(m)) \in Seq(Buffer)
      BY <2>1, <3>1
    <3> QED
      BY <2>1, <2>2, <3>1, <3>2
  <2>8. Queued' <= Len(accepted')
    <3>1. /\ queue \in Seq(Buffer) /\ accepted \in Seq(Messages) /\ Queued <= Len(accepted)
      BY <1>1 DEF TypeOK
    <3>2. Len(accepted') = Len(accepted) + 1
      BY <2>2, <3>1
    <3>3. CASE gather /\ ~MustWait
      <4>1. sending = <<>> /\ queue' = queue
        BY <2>2, <3>3 DEF MustWait
      <4> QED
        BY <3>1, <3>2, <4>1 DEF Queued
    <3>4. CASE ~(gather /\ ~MustWait)
      <4>1. sending' = sending /\ queue' = Append(queue, Units(m))
        BY <2>2, <3>4
      <4>2. Len(queue') = Len(queue) + 1
        BY <2>1, <3>1, <4>1
      <4> QED
        BY <3>1, <3>2, <4>1, <4>2 DEF Queued
    <3> QED
      BY <3>3, <3>4
  <2>4. TypeOK'
    <3>1. sender' \in [Messages -> SenderPoints] /\ accepted' \in Seq(Messages)
      BY <1>1, <2>2 DEF TypeOK, SenderPoints
    <3>2. writes' \subseteq Write /\ holdSend' \in BOOLEAN
      BY <1>1, <2>1, <2>2 DEF TypeOK
    <3> QED
      BY <1>1, <2>2, <2>3, <2>8, <3>1, <3>2 DEF TypeOK
  <2>5. OpenIsOrderly'
    <3> SUFFICES ASSUME open, NoneEmpty'
                 PROVE  /\ ~undefined
                        /\ gather /\ sending' = <<>> => queue' = <<>>
                        /\ gather => \A i \in 1..Len(queue') : queue'[i] # <<>>
                        /\ \A x \in writes' : FrontWrite(x)'
      BY <2>2 DEF OpenIsOrderly
    <3>4. NoneEmpty /\ (gather => Units(m) # <<>>)
      BY <1>1, <1>2, <2>2, NoneEmptyBefore
    <3>1. /\ ~undefined
          /\ gather /\ sending = <<>> => queue = <<>>
          /\ gather => \A i \in 1..Len(queue) : queue[i] # <<>>
          /\ \A x \in writes : FrontWrite(x)
      BY <1>1, <3>4 DEF OpenIsOrderly
    <3>5. ASSUME gather
          PROVE  \A i \in 1..Len(queue') : queue'[i] # <<>>
      <4>1. queue \in Seq(Buffer) /\ Units(m) \in Buffer
        BY <1>1, <2>1 DEF TypeOK
      <4>2. queue' = queue \/ queue' = Append(queue, Units(m))
        BY <2>2
      <4>3. \A i \in 1..Len(Append(queue, Units(m))) :
               Append(queue, Units(m))[i] = IF i <= Len(queue) THEN queue[i] ELSE Units(m)
        BY <4>1
      <4> QED
        BY <3>1, <3>4, <3>5, <4>1, <4>2, <4>3
    <3>2. CASE MustWait
      <4>1. queue # <<>> => queue'[1] = queue[1]
        <5>1. queue \in Seq(Buffer) /\ Units(m) \in Buffer /\ queue' = Append(queue, Units(m))
          BY <1>1, <2>1, <2>2, <3>2 DEF TypeOK
        <5> QED
          BY <5>1
      <4>2. queue' # <<>>
        <5>1. queue' = Append(queue, Units(m)) /\ queue \in Seq(Buffer)
          BY <1>1, <2>2, <3>2 DEF TypeOK
        <5> QED
          BY <2>1, <5>1
      <4>3. writes' = writes /\ holdSend' = holdSend /\ sending' = sending /\ gather' = gather
        BY <2>2, <3>2
      <4>4. gather => sending # <<>>
        BY <3>2 DEF MustWait
      <4>5. ASSUME NEW x \in writes
            PROVE  FrontWrite(x)'
        BY <3>1, <4>1, <4>2, <4>3, <4>5 DEF FrontWrite
      <4> QED
        BY <3>1, <3>5, <4>3, <4>4, <4>5
    <3>3. CASE ~MustWait
      <4>1. writes = {}
        BY <3>1, <3>3 DEF FrontWrite, MustWait
      <4>2. writes' = {w} /\ holdSend' /\ gather' = gather
        BY <2>2, <3>3, <4>1
      <4>3. CASE gather
        <5>1. sending' = Units(m)
          BY <2>2, <3>3, <4>3
        <5> QED
          BY <2>1, <3>1, <3>4, <3>5, <4>2, <4>3, <5>1 DEF FrontWrite, Buffer
      <4>4. CASE ~gather
        <5>1. queue = <<>> /\ queue' = Append(queue, Units(m))
          BY <2>2, <3>3, <4>4 DEF MustWait
        <5>2. queue'[1] = Units(m) /\ queue' # <<>>
          BY <2>1, <5>1
        <5> QED
          BY <2>1, <3>1, <4>2, <4>4, <5>2 DEF FrontWrite, Buffer
      <4> QED
        BY <4>3, <4>4
    <3> QED
      BY <3>2, <3>3
  <2>6. UnwrittenIsReleased'
    BY <1>1, <1>4, <1>7, <2>2 DEF TypeOK, UnwrittenIsReleased, NoneThrown, PushMessage
  <2>7. BatchIsGathered'
    BY <1>1, <2>2 DEF BatchIsGathered
  <2> QED
    BY <1>1, <1>2, <1>6, <2>2, <2>4, <2>5, <2>6, <2>7 DEF IInv, ClosingIsClosed
<1>5. CASE PushThrows(m)
  <2>1. /\ ~MustWait /\ holdSend' = TRUE
        /\ sender' = [sender EXCEPT ![m] = "thrown"]
        /\ UNCHANGED <<gather, sockState, open, reset, queue, sending, writes,
                       closer, accepted, stream, undefined>>
    BY <1>5 DEF PushThrows
  <2>2. TypeOK'
    BY <1>1, <2>1 DEF TypeOK, SenderPoints, Queued
  <2>3. OpenIsOrderly'
    BY <1>1, <2>1 DEF OpenIsOrderly, FrontWrite, NoneEmpty
  <2>4. UnwrittenIsReleased'
    BY <1>1, <2>1 DEF TypeOK, UnwrittenIsReleased, NoneThrown
  <2> QED
    BY <1>1, <1>2, <1>6, <2>1, <2>2, <2>3, <2>4 DEF IInv, BatchIsGathered, ClosingIsClosed
<1> QED
  BY <1>3, <1>4, <1>5 DEF SenderStep

-----------------------------------------------------------------------------
(* The kernel *)

LEMMA KernelInv ==
    ASSUME IInv, NEW w \in writes, WriteOk(w) \/ WriteFails(w)
    PROVE  IInv'
<1>1. /\ TypeOK /\ BatchIsGathered /\ ClosingIsClosed
      /\ OpenIsEstablished /\ OpenIsOrderly /\ UnwrittenIsReleased
  BY DEF IInv
<1>2. w \in Write
  BY <1>1 DEF TypeOK
<1>3. PICK status \in {"ok", "err"}, n \in Nat :
          /\ Finish(w, status, n)
          /\ status = "ok" => n <= Len(w.data)
  BY <1>2 DEF WriteOk, WriteFails
<1> DEFINE x == [w EXCEPT !.status = status, !.len = n]
<1>4. /\ x \in Write /\ writes' \subseteq Write /\ writes' = (writes \ {w}) \cup {x}
      /\ x.data = w.data /\ x.status = status /\ x.len = n
  <2>1. x \in Write /\ writes' \subseteq Write
    BY <1>1, <1>3, FinishType, Zenon
  <2>2. writes' = (writes \ {w}) \cup {x}
    BY <1>3 DEF Finish
  <2>3. x.data = w.data /\ x.status = status /\ x.len = n
    BY <1>2 DEF Write
  <2> QED
    BY <2>1, <2>2, <2>3
<1> HIDE DEF x
<1>5. UNCHANGED <<gather, sockState, open, queue, sending, holdSend, sender,
                  closer, accepted, undefined>>
  BY DEF WriteOk, WriteFails
<1>6. stream' \in Seq(Messages) /\ reset' \in BOOLEAN
  <2>1. CASE WriteOk(w)
    <3>1. PICK k \in 1..Len(w.data) : stream' = stream \o SubSeq(w.data, 1, k)
      BY <2>1 DEF WriteOk
    <3>2. SubSeq(w.data, 1, k) \in Seq(Messages)
      BY <1>2, <3>1 DEF Write, Buffer
    <3> QED
      BY <1>1, <2>1, <3>1, <3>2 DEF TypeOK, WriteOk
  <2>2. CASE WriteFails(w)
    BY <1>1, <2>2 DEF TypeOK, WriteFails
  <2> QED
    BY <2>1, <2>2
<1>7. TypeOK'
  BY <1>1, <1>4, <1>5, <1>6 DEF TypeOK, Queued
<1>8. OpenIsOrderly'
  <2> SUFFICES ASSUME open, NoneEmpty PROVE \A v \in writes' : FrontWrite(v)'
    BY <1>1, <1>5 DEF OpenIsOrderly, NoneEmpty
  <2>1. FrontWrite(w)
    BY <1>1 DEF OpenIsOrderly
  <2>2. writes' = {x}
    BY <1>4, <2>1 DEF FrontWrite
  <2>3. FrontWrite(x)'
    BY <1>3, <1>4, <1>5, <2>1, <2>2 DEF FrontWrite
  <2> QED
    BY <2>2, <2>3
<1>9. UnwrittenIsReleased'
  BY <1>4 DEF UnwrittenIsReleased
<1> QED
  BY <1>1, <1>5, <1>7, <1>8, <1>9 DEF IInv, BatchIsGathered, ClosingIsClosed,
     OpenIsEstablished

-----------------------------------------------------------------------------
(* The handlers *)

LEMMA HandlerInv ==
    ASSUME IInv, NEW w \in writes,
           \/ HandleError(w) \/ HandleOverrun(w) \/ BatchGone(w)
           \/ HandleLast(w) \/ HandleMore(w) \/ HandleThrows(w)
    PROVE  IInv'
<1>1. /\ TypeOK /\ BatchIsGathered /\ ClosingIsClosed
      /\ OpenIsEstablished /\ OpenIsOrderly /\ UnwrittenIsReleased
  BY DEF IInv
<1>2. w \in Write /\ w.len \in Nat /\ w.data \in Buffer /\ w.from \in Messages
  BY <1>1 DEF TypeOK, Write
<1>3. open /\ NoneEmpty =>
         /\ ~undefined
         /\ gather /\ sending = <<>> => queue = <<>>
         /\ gather => \A i \in 1..Len(queue) : queue[i] # <<>>
         /\ FrontWrite(w)
  BY <1>1 DEF OpenIsOrderly
<1>11. /\ UNCHANGED <<gather, sockState, accepted, closer>> /\ NoneEmpty' = NoneEmpty
       /\ open' => open
  BY DEF HandleError, HandleOverrun, BatchGone, HandleLast, HandleMore, HandleThrows, NoneEmpty
<1>12. OpenIsEstablished'
  BY <1>1, <1>11 DEF OpenIsEstablished
<1>4. CASE HandleError(w)
  <2>1. /\ holdSend' = FALSE /\ writes' = writes \ {w}
        /\ UNCHANGED <<gather, sockState, open, reset, queue, sending, sender,
                       closer, accepted, stream, undefined>>
    BY <1>4 DEF HandleError, ReleaseSend
  <2>2. TypeOK' /\ UnwrittenIsReleased'
    BY <1>1, <2>1 DEF TypeOK, Queued, UnwrittenIsReleased
  <2>3. OpenIsOrderly'
    BY <1>3, <1>11, <2>1 DEF OpenIsOrderly, FrontWrite
  <2> QED
    BY <1>1, <1>12, <2>1, <2>2, <2>3 DEF IInv, BatchIsGathered, ClosingIsClosed
<1>5. CASE HandleOverrun(w)
  <2>1. /\ w.status = "ok" /\ ~FrontHas(w.len)
        /\ undefined' = TRUE /\ writes' = writes \ {w}
        /\ UNCHANGED <<gather, sockState, open, reset, queue, sending, holdSend,
                       sender, closer, accepted, stream>>
    BY <1>5 DEF HandleOverrun
  <2>2. ~(open /\ NoneEmpty)
    <3> SUFFICES ASSUME open, NoneEmpty PROVE FALSE
      OBVIOUS
    <3>1. /\ IF gather THEN sending = w.data ELSE queue # <<>> /\ queue[1] = w.data
          /\ w.len <= Len(w.data)
      BY <1>3, <2>1 DEF FrontWrite
    <3>2. Len(w.data) \in Nat
      BY <1>2 DEF Buffer
    <3> QED
      BY <1>2, <2>1, <3>1, <3>2 DEF FrontHas
  <2>3. TypeOK'
    BY <1>1, <2>1 DEF TypeOK, Queued
  <2> QED
    BY <1>1, <1>11, <1>12, <2>1, <2>2, <2>3 DEF IInv, BatchIsGathered, ClosingIsClosed, OpenIsOrderly,
       UnwrittenIsReleased
<1>6. CASE BatchGone(w)
  <2>1. /\ gather /\ sending = <<>> /\ writes' = writes \ {w}
        /\ UNCHANGED <<gather, sockState, open, reset, queue, sending, holdSend,
                       sender, closer, accepted, stream, undefined>>
    BY <1>6 DEF BatchGone
  <2>2. ~(open /\ NoneEmpty)
    BY <1>3, <2>1 DEF FrontWrite
  <2>3. TypeOK'
    BY <1>1, <2>1 DEF TypeOK, Queued
  <2> QED
    BY <1>1, <1>11, <1>12, <2>1, <2>2, <2>3 DEF IInv, BatchIsGathered, ClosingIsClosed, OpenIsOrderly,
       UnwrittenIsReleased
<1>7. ASSUME Handles(w)
      PROVE  /\ FrontHas(w.len) /\ (gather => sending # <<>>)
             /\ Advance(w.len) \in Seq(Buffer)
             /\ gather /\ (\A i \in 1..Len(queue) : queue[i] # <<>>)
                => \A i \in 1..Len(Advance(w.len)) : Advance(w.len)[i] # <<>>
  BY <1>1, <1>2, <1>7, AdvanceType DEF Handles
<1>8. CASE HandleLast(w)
  <2>1. /\ Handles(w) /\ ~MoreToSend(w.len)
        /\ queue' = Advance(w.len) /\ sending' = <<>>
        /\ holdSend' = FALSE /\ writes' = writes \ {w}
        /\ UNCHANGED <<gather, sockState, open, reset, sender, closer, accepted,
                       stream, undefined>>
    BY <1>8 DEF HandleLast, ReleaseSend
  <2>2. queue' \in Seq(Buffer) /\ sending' \in Buffer
    BY <1>7, <2>1 DEF Buffer
  <2>6. Queued' <= Len(accepted')
    BY <1>1, <1>2, <1>7, <2>1, AdvanceQueued
  <2>3. TypeOK' /\ UnwrittenIsReleased'
    BY <1>1, <2>1, <2>2, <2>6 DEF TypeOK, UnwrittenIsReleased
  <2>4. open => queue' = <<>>
    BY <1>1, <2>1 DEF MoreToSend, MaySend, OpenIsEstablished
  <2>5. OpenIsOrderly'
    <3>1. queue' = <<>> => \A i \in 1..Len(queue') : FALSE
      OBVIOUS
    <3> QED
      BY <1>3, <1>11, <2>1, <2>4, <3>1 DEF OpenIsOrderly, FrontWrite
  <2> QED
    BY <1>1, <1>12, <2>1, <2>3, <2>5 DEF IInv, BatchIsGathered, ClosingIsClosed
<1>9. CASE HandleMore(w)
  <2> DEFINE next == StartWrite(w.from, IF gather THEN sending' ELSE queue'[1])
  <2>1. /\ Handles(w) /\ Advance(w.len) # <<>>
        /\ IF gather THEN queue' = <<>> /\ sending' = FlattenSeq(Advance(w.len))
                     ELSE queue' = Advance(w.len) /\ UNCHANGED sending
        /\ holdSend' = TRUE
        /\ writes' = (writes \ {w}) \cup {next}
        /\ UNCHANGED <<gather, sockState, open, reset, sender, closer, accepted,
                       stream, undefined>>
    BY <1>9 DEF HandleMore, MoreToSend, SendAsync
  <2>2. FlattenSeq(Advance(w.len)) \in Buffer
    BY <1>7, <2>1, FlattenBuffers
  <2>3. queue' \in Seq(Buffer) /\ sending' \in Buffer /\ (~gather => queue' # <<>>)
    <3>1. <<>> \in Seq(Buffer) /\ sending \in Buffer
      BY <1>1 DEF TypeOK
    <3>2. CASE gather
      BY <2>1, <2>2, <3>1, <3>2
    <3>3. CASE ~gather
      BY <1>7, <2>1, <3>1, <3>3, Zenon
    <3> QED
      BY <3>2, <3>3
  <2>4. (IF gather THEN sending' ELSE queue'[1]) \in Buffer
    BY <2>3
  <2>5. PICK x \in Write :
            /\ x = next /\ x.len = 0
            /\ x.data = IF gather THEN sending' ELSE queue'[1]
    <3>1. open \in BOOLEAN
      BY <1>1 DEF TypeOK
    <3>2. /\ next \in Write /\ next.len = 0
          /\ next.data = IF gather THEN sending' ELSE queue'[1]
      BY <1>2, <2>4, <3>1, StartWriteType
    <3> HIDE DEF next
    <3> QED
      BY <3>2
  <2> HIDE DEF next
  <2>10. Queued' <= Len(accepted')
    BY <1>1, <1>2, <1>7, <2>1, AdvanceQueued
  <2>6. TypeOK'
    BY <1>1, <2>1, <2>3, <2>5, <2>10 DEF TypeOK
  <2>7. OpenIsOrderly'
    <3> SUFFICES ASSUME open, NoneEmpty
                 PROVE  /\ ~undefined
                        /\ gather /\ sending' = <<>> => queue' = <<>>
                        /\ gather => \A i \in 1..Len(queue') : queue'[i] # <<>>
                        /\ \A v \in writes' : FrontWrite(v)'
      BY <1>11, <2>1 DEF OpenIsOrderly
    <3>1. writes' = {x}
      BY <1>3, <2>1, <2>5 DEF FrontWrite
    <3>2. gather => sending' # <<>> /\ queue' = <<>>
      <4> SUFFICES ASSUME gather PROVE sending' # <<>>
        BY <2>1
      <4>1. Len(Advance(w.len)) \in Nat /\ Len(Advance(w.len)) # 0
        BY <1>7, <2>1
      <4>2. 1 \in 1..Len(Advance(w.len))
        BY <4>1
      <4>3. Advance(w.len)[1] # <<>>
        BY <1>3, <1>7, <2>1, <4>2
      <4> QED
        BY <1>7, <2>1, <4>3, FlattenBuffers
    <3>5. x.len <= Len(x.data)
      BY <2>5 DEF Write, Buffer
    <3>3. FrontWrite(x)'
      <4>1. gather' = gather /\ holdSend'
        BY <2>1
      <4>2. CASE gather
        BY <2>5, <3>1, <3>2, <3>5, <4>1, <4>2 DEF FrontWrite
      <4>3. CASE ~gather
        BY <2>3, <2>5, <3>1, <3>5, <4>1, <4>3 DEF FrontWrite
      <4> QED
        BY <4>2, <4>3
    <3>6. queue' = <<>> => \A i \in 1..Len(queue') : FALSE
      OBVIOUS
    <3> QED
      BY <1>3, <3>1, <3>2, <3>3, <3>6
  <2>8. UnwrittenIsReleased'
    BY <2>1 DEF UnwrittenIsReleased
  <2>9. BatchIsGathered'
    BY <1>1, <2>1 DEF BatchIsGathered
  <2> QED
    BY <1>1, <1>12, <2>1, <2>6, <2>7, <2>8, <2>9 DEF IInv, ClosingIsClosed
<1>10. CASE HandleThrows(w)
  <2>1. /\ Handles(w) /\ Advance(w.len) # <<>>
        /\ \/ queue' = Advance(w.len) /\ sending' = <<>>
           \/ gather /\ queue' = <<>> /\ sending' = FlattenSeq(Advance(w.len))
        /\ open' = FALSE /\ holdSend' = FALSE
        /\ writes' = Aborted(writes \ {w})
        /\ UNCHANGED <<gather, sockState, reset, sender, closer, accepted, stream,
                       undefined>>
    BY <1>10 DEF HandleThrows, MoreToSend, ReleaseSend
  <2>2. FlattenSeq(Advance(w.len)) \in Buffer
    BY <1>7, <2>1, FlattenBuffers
  <2>3. <<>> \in Buffer /\ <<>> \in Seq(Buffer)
    BY DEF Buffer
  <2>4. /\ queue' \in Seq(Buffer) /\ sending' \in Buffer
        /\ sending' # <<>> => gather
    BY <1>7, <2>1, <2>2, <2>3, Zenon
  <2>5. writes' \subseteq Write
    BY <1>1, <2>1, AbortedType DEF TypeOK
  <2>7. Queued' <= Len(accepted')
    BY <1>1, <1>2, <1>7, <2>1, AdvanceQueued
  <2>6. TypeOK'
    BY <1>1, <2>1, <2>4, <2>5, <2>7 DEF TypeOK
  <2> QED
    BY <1>12, <2>1, <2>4, <2>6 DEF IInv, BatchIsGathered, ClosingIsClosed, OpenIsOrderly,
       UnwrittenIsReleased
<1> QED
  BY <1>4, <1>5, <1>6, <1>8, <1>9, <1>10

-----------------------------------------------------------------------------
(* process_closesocket *)

LEMMA CloserInv ==
    ASSUME IInv, CloseBegin \/ CloserStep
    PROVE  IInv'
<1>1. /\ TypeOK /\ BatchIsGathered /\ ClosingIsClosed
      /\ OpenIsEstablished /\ OpenIsOrderly /\ UnwrittenIsReleased
  BY DEF IInv
<1>2. CASE CloseBegin
  <2>1. /\ open' = FALSE /\ writes' = Aborted(writes) /\ closer' = "close_cas"
        /\ UNCHANGED <<gather, sockState, reset, queue, sending, holdSend, sender,
                       accepted, stream, undefined>>
    BY <1>2 DEF CloseBegin
  <2>2. writes' \subseteq Write /\ (writes' = {} => writes = {})
    <3>1. writes' \subseteq Write
      BY <1>1, <2>1, AbortedType DEF TypeOK
    <3>2. \A w \in writes : writes' # {}
      <4> SUFFICES ASSUME NEW w \in writes PROVE writes' # {}
        OBVIOUS
      <4>1. (IF w.status = "pending" THEN [w EXCEPT !.status = "err"] ELSE w) \in writes'
        BY <2>1 DEF Aborted
      <4> QED
        BY <4>1
    <3> QED
      BY <3>1, <3>2
  <2>3. TypeOK'
    BY <1>1, <2>1, <2>2 DEF TypeOK, CloserPoints, Queued
  <2> QED
    BY <1>1, <2>1, <2>2, <2>3 DEF IInv, BatchIsGathered, ClosingIsClosed, OpenIsOrderly,
       OpenIsEstablished, UnwrittenIsReleased, NoneThrown, NoneEmpty
<1>3. CASE CloseCas \/ CloseNone
  <2>1. /\ UNCHANGED <<gather, open, reset, queue, sending, holdSend, writes,
                       sender, accepted, stream, undefined>>
        /\ closer # "idle"
        /\ sockState' \in SocketStates /\ closer' \in CloserPoints
    BY <1>3 DEF CloseCas, CloseNone, SocketStates, CloserPoints
  <2>2. ~open
    BY <1>1, <2>1 DEF ClosingIsClosed
  <2> QED
    BY <1>1, <2>1, <2>2 DEF IInv, BatchIsGathered, ClosingIsClosed, TypeOK, OpenIsOrderly,
       OpenIsEstablished, UnwrittenIsReleased, NoneThrown, NoneEmpty, Queued
<1>4. CASE CloseClear
  <2>1. /\ queue' = <<>> /\ sending' = <<>> /\ closer' = "close_none"
        /\ UNCHANGED <<gather, sockState, open, reset, holdSend, writes, sender,
                       accepted, stream, undefined>>
    BY <1>4 DEF CloseClear
  <2>2. ~open
    BY <1>1, <1>4 DEF CloseClear, ClosingIsClosed
  <2>3. queue' \in Seq(Buffer) /\ sending' \in Buffer
    BY <2>1 DEF Buffer
  <2>4. Queued' <= Len(accepted')
    <3>1. Queued' = 0 /\ Len(accepted) \in Nat
      BY <1>1, <2>1 DEF Queued, TypeOK
    <3> QED
      BY <2>1, <3>1
  <2> QED
    BY <1>1, <2>1, <2>2, <2>3, <2>4 DEF IInv, BatchIsGathered, ClosingIsClosed, TypeOK,
       CloserPoints, OpenIsOrderly, OpenIsEstablished, UnwrittenIsReleased, NoneThrown, NoneEmpty
<1> QED
  BY <1>2, <1>3, <1>4 DEF CloserStep

-----------------------------------------------------------------------------
LEMMA InitInv == Init => IInv
<1> SUFFICES ASSUME Init PROVE IInv
  OBVIOUS
<1>1. TypeOK
  <2>1. gather \in BOOLEAN /\ sockState \in SocketStates /\ closer \in CloserPoints
    BY DEF Init, SocketStates, CloserPoints
  <2>2. queue \in Seq(Buffer) /\ sending \in Buffer /\ writes \subseteq Write
    BY DEF Init, Buffer
  <2>3. sender \in [Messages -> SenderPoints]
    BY DEF Init, SenderPoints
  <2>4. accepted \in Seq(Messages) /\ stream \in Seq(Messages)
    BY DEF Init
  <2>5. open \in BOOLEAN /\ reset \in BOOLEAN /\ holdSend \in BOOLEAN /\ undefined \in BOOLEAN
    BY DEF Init
  <2>6. Queued <= Len(accepted)
    BY DEF Init, Queued
  <2> QED
    BY <2>1, <2>2, <2>3, <2>4, <2>5, <2>6 DEF TypeOK
<1> QED
  BY <1>1 DEF Init, IInv, BatchIsGathered, ClosingIsClosed, OpenIsOrderly, OpenIsEstablished,
     UnwrittenIsReleased

LEMMA StepInv == IInv /\ [Next]_vars => IInv'
<1> SUFFICES ASSUME IInv, [Next]_vars PROVE IInv'
  OBVIOUS
<1>1. CASE UNCHANGED vars
  BY <1>1 DEF IInv, vars, TypeOK, BatchIsGathered, ClosingIsClosed, OpenIsOrderly, FrontWrite,
     OpenIsEstablished, UnwrittenIsReleased, NoneThrown, NoneEmpty, Queued
<1>2. CASE Next
  BY <1>2, SenderInv, KernelInv, HandlerInv, CloserInv
     DEF Next, HandlerStep, KernelStep
<1> QED
  BY <1>1, <1>2

\* What a sender has queued, outstanding and held (IInv).
THEOREM Invariant == Spec => []IInv
BY InitInv, StepInv, PTL DEF Spec

\* Every variable of either sender keeps its type, and never is more queued and
\* gathered than was accepted, whatever the sizes and the partial writes.
THEOREM TypeCorrect == Spec => []TypeOK
<1>1. IInv => TypeOK
  BY DEF IInv
<1> QED
  BY <1>1, Invariant, PTL

\* However the sends, the handlers and the closing interleave and wherever
\* async_write_some throws, a sender whose handle is open has at most one
\* write outstanding, and that for the present front of its queue, or for its
\* present batch: the queueing sender for messages of any sizes, the gathering
\* one until it accepts an empty message.
THEOREM OneWrite == Spec => []OneWriteForTheFront
<1>1. IInv => OneWriteForTheFront
  BY DEF IInv, OneWriteForTheFront, OpenIsOrderly, FrontWrite
<1> QED
  BY <1>1, Invariant, PTL

\* And while its handle is open it holds itself for as long as a write lasts;
\* when all is written and no send() threw it does not, the queueing sender
\* after closing as well.
THEOREM HeldWhileWriting == Spec => []HoldIsForWrites
<1>1. IInv => HoldIsForWrites
  BY DEF IInv, HoldIsForWrites, HoldCoversWrite, IdleIsReleased, OpenIsOrderly,
     FrontWrite, UnwrittenIsReleased
<1> QED
  BY <1>1, Invariant, PTL

-----------------------------------------------------------------------------
(* The stream *)

\* What is accepted stays promised, and one more message is promised after it.
LEMMA StreamFlatten ==
    ASSUME NEW s \in Seq(Seq(Messages))
    PROVE  Stream!FlattenSeq(s) = FlattenSeq(s)
BY DEF Stream!FlattenSeq, FlattenSeq

LEMMA PromisedType ==
    ASSUME TypeOK
    PROVE  /\ [i \in 1..Len(accepted) |-> Units(accepted[i])] \in Seq(Seq(Messages))
           /\ Stream!Promised = FlattenSeq([i \in 1..Len(accepted) |-> Units(accepted[i])])
           /\ Stream!Promised \in Seq(Messages)
<1> DEFINE s == [i \in 1..Len(accepted) |-> Units(accepted[i])]
<1>1. accepted \in Seq(Messages)
  BY DEF TypeOK
<1>2. \A i \in 1..Len(accepted) : Units(accepted[i]) \in Seq(Messages)
  BY <1>1, UnitsType, BufferIsFlat
<1>3. s \in Seq(Seq(Messages))
  BY <1>1, <1>2
<1>4. Stream!Promised = Stream!FlattenSeq(s)
  BY DEF Stream!Promised, Stream!Units, Units
<1> HIDE DEF s
<1>5. Stream!Promised = FlattenSeq(s)
  BY <1>3, <1>4, StreamFlatten
<1> QED
  BY <1>3, <1>5, FlattenType DEF s

LEMMA AcceptPromises ==
    ASSUME TypeOK, NEW m \in Messages, accepted' = Append(accepted, m)
    PROVE  (Stream!Promised)' = Stream!Promised \o Units(m)
<1> DEFINE s == [i \in 1..Len(accepted) |-> Units(accepted[i])]
           t == [i \in 1..Len(accepted') |-> Units(accepted'[i])]
<1>1. accepted \in Seq(Messages) /\ accepted' \in Seq(Messages)
  BY DEF TypeOK
<1>2. s \in Seq(Seq(Messages)) /\ Stream!Promised = FlattenSeq(s)
  BY PromisedType
<1>3. Units(m) \in Seq(Messages)
  BY UnitsType, BufferIsFlat
<1>4. t = Append(s, Units(m))
  <2>1. /\ Len(accepted') = Len(accepted) + 1
        /\ \A i \in 1..Len(accepted) : accepted'[i] = accepted[i]
        /\ accepted'[Len(accepted) + 1] = m
    BY <1>1
  <2>2. /\ Len(s) = Len(accepted)
        /\ Append(s, Units(m)) = [i \in 1..(Len(s) + 1) |-> IF i <= Len(s) THEN s[i] ELSE Units(m)]
    BY <1>1, <1>2, <1>3
  <2> QED
    BY <1>1, <2>1, <2>2
<1>5. (Stream!Promised)' = Stream!FlattenSeq(t)
  BY DEF Stream!Promised, Stream!Units, Units
<1> HIDE DEF s, t
<1>6. t \in Seq(Seq(Messages)) /\ FlattenSeq(t) = FlattenSeq(s) \o Units(m)
  <2>1. FlattenSeq(Append(s, Units(m))) = FlattenSeq(s) \o Units(m)
    BY <1>2, <1>3, FlattenAppend
  <2> QED
    BY <1>2, <1>3, <1>4, <2>1
<1> QED
  BY <1>2, <1>5, <1>6, StreamFlatten

LEMMA SplitBuffer ==
    ASSUME NEW a \in Seq(Messages), NEW b \in Seq(Messages), NEW n \in 0..Len(a)
    PROVE  /\ Rest(a, n) \in Seq(Messages) /\ SubSeq(a, 1, n) \in Seq(Messages)
           /\ a = SubSeq(a, 1, n) \o Rest(a, n)
           /\ Rest(a \o b, n) = Rest(a, n) \o b
           /\ SubSeq(a \o b, 1, n) = SubSeq(a, 1, n)
<1>1. Rest(a, n) \in Seq(Messages) /\ SubSeq(a, 1, n) \in Seq(Messages)
  BY DEF Rest
<1>2. a = SubSeq(a, 1, n) \o Rest(a, n)
  <2>1. 1 \in 1..(Len(a) + 1) /\ n \in (1 - 1)..Len(a) /\ Len(a) \in n..Len(a)
    OBVIOUS
  <2>2. SubSeq(a, 1, n) \o SubSeq(a, n + 1, Len(a)) = SubSeq(a, 1, Len(a))
    BY <2>1, ConcatAdjacentSubSeq
  <2> QED
    BY <2>2, SubSeqFull DEF Rest
<1>3. Rest(a \o b, n) = Rest(a, n) \o b
  <2> DEFINE l == Len(a) + Len(b)
  <2>1. /\ a \o b \in Seq(Messages) /\ Len(a \o b) = l
        /\ \A i \in 1..l : (a \o b)[i] = IF i <= Len(a) THEN a[i] ELSE b[i - Len(a)]
    BY ConcatProperties
  <2>2. /\ Len(a) \in Nat /\ Len(b) \in Nat /\ n \in 0..l
        /\ l = Len(a) + Len(b) /\ n <= Len(a)
    OBVIOUS
  <2> HIDE DEF l
  <2>3. /\ Rest(a \o b, n) \in Seq(Messages) /\ Len(Rest(a \o b, n)) = l - n
        /\ \A i \in 1..(l - n) : Rest(a \o b, n)[i] = (a \o b)[n + i]
    BY <2>1, <2>2, SMTT(60) DEF Rest
  <2>4. /\ Len(Rest(a, n)) = Len(a) - n
        /\ \A i \in 1..(Len(a) - n) : Rest(a, n)[i] = a[n + i]
    BY <2>2 DEF Rest
  <2>5. /\ Rest(a, n) \o b \in Seq(Messages) /\ Len(Rest(a, n) \o b) = l - n
        /\ \A i \in 1..(l - n) :
              (Rest(a, n) \o b)[i] = IF i <= Len(a) - n THEN Rest(a, n)[i] ELSE b[i - (Len(a) - n)]
    BY <1>1, <2>2, <2>4, SMTT(60)
  <2>6. ASSUME NEW i \in 1..(l - n)
        PROVE  Rest(a \o b, n)[i] = (Rest(a, n) \o b)[i]
    <3>1. n + i \in 1..l
      BY <2>2
    <3>2. CASE i <= Len(a) - n
      <4>1. i \in 1..(Len(a) - n) /\ n + i <= Len(a)
        BY <2>2, <3>2
      <4> QED
        <5>1. (a \o b)[n + i] = a[n + i]
          BY <2>1, <3>1, <4>1
        <5>2. Rest(a, n)[i] = a[n + i]
          BY <2>4, <4>1
        <5>3. (Rest(a, n) \o b)[i] = Rest(a, n)[i]
          BY <2>5, <3>2
        <5> QED
          BY <2>3, <5>1, <5>2, <5>3
    <3>3. CASE ~(i <= Len(a) - n)
      <4>1. ~(n + i <= Len(a)) /\ (n + i) - Len(a) = i - (Len(a) - n)
        BY <2>2, <3>3
      <4> QED
        BY <2>1, <2>3, <2>5, <3>1, <3>3, <4>1
    <3> QED
      BY <3>2, <3>3
  <2> QED
    BY <2>3, <2>5, <2>6, SeqEqual
<1>4. SubSeq(a \o b, 1, n) = SubSeq(a, 1, n)
  OBVIOUS
<1> QED
  BY <1>1, <1>2, <1>3, <1>4

LEMMA Regroup ==
    ASSUME NEW a \in Seq(Messages), NEW b \in Seq(Messages), NEW c \in Seq(Messages)
    PROVE  (a \o b) \o c = a \o (b \o c)
BY SMTT(60)

LEMMA RemainingSplits ==
    ASSUME TypeOK, BatchIsGathered, NEW n \in Nat, FrontHas(n), gather => sending # <<>>
    PROVE  /\ Remaining = Foremost \o FlattenSeq(Behind)
           /\ FlattenSeq(Behind) \in Seq(Messages)
<1>1. /\ Behind \in Seq(Seq(Messages)) /\ Foremost \in Seq(Messages)
      /\ ~gather => queue = <<Foremost>> \o Behind
  BY FrontType
<1>2. FlattenSeq(Behind) \in Seq(Messages)
  BY <1>1, FlattenType
<1>3. CASE gather
  BY <1>2, <1>3 DEF Remaining, Foremost, Behind
<1>4. CASE ~gather
  <2>1. FlattenSeq(queue) = Foremost \o FlattenSeq(Behind)
    BY <1>1, <1>4, FlattenPrepend
  <2>2. sending = <<>>
    BY <1>4 DEF BatchIsGathered
  <2>3. FlattenSeq(queue) \in Seq(Messages)
    BY QueueType
  <2> QED
    BY <1>2, <2>1, <2>2, <2>3 DEF Remaining
<1> QED
  BY <1>3, <1>4

\* Taking n units off the queue leaves what remains after n units.
LEMMA AdvanceFlattens ==
    ASSUME TypeOK, BatchIsGathered, NEW n \in Nat, FrontHas(n), gather => sending # <<>>
    PROVE  FlattenSeq(Advance(n)) = Rest(Remaining, n)
<1> DEFINE o == FlattenSeq(Behind)
           r == Rest(Foremost, n)
<1>1. /\ Foremost \in Seq(Messages) /\ Len(Foremost) >= n
      /\ Behind \in Seq(Seq(Messages))
      /\ o \in Seq(Messages) /\ Remaining = Foremost \o o
  BY FrontType, RemainingSplits
<1>2. n \in 0..Len(Foremost)
  BY <1>1
<1>3. r \in Seq(Messages) /\ Rest(Remaining, n) = r \o o
  BY <1>1, <1>2, SplitBuffer
<1> HIDE DEF o
<1>4. CASE Len(Foremost) = n
  <2>1. Advance(n) = Behind
    BY <1>4 DEF Advance, Foremost, Behind
  <2>2. r = <<>>
    BY <1>1, <1>4 DEF Rest
  <2> QED
    BY <1>1, <1>3, <2>1, <2>2 DEF o
<1>5. CASE Len(Foremost) # n
  <2>1. Advance(n) = <<r>> \o Behind
    BY <1>5 DEF Advance, Foremost, Behind
  <2> HIDE DEF r
  <2>2. FlattenSeq(<<r>> \o Behind) = r \o o
    BY <1>1, <1>3, FlattenPrepend DEF o
  <2> QED
    BY <1>3, <2>1, <2>2
<1> QED
  BY <1>4, <1>5

LEMMA AcceptedOnceHolds ==
    ASSUME IInv, AcceptedOnce, Next
    PROVE  AcceptedOnce'
<1>1. sender \in [Messages -> SenderPoints] /\ accepted \in Seq(Messages)
  BY DEF IInv, TypeOK
<1>2. ASSUME NEW m \in Messages, SenderStep(m)
      PROVE  AcceptedOnce'
  <2>1. CASE CheckState(m) \/ PushThrows(m)
    <3>1. accepted' = accepted /\ sender[m] # "true" /\ \A x \in Messages \ {m} : sender'[x] = sender[x]
      BY <1>1, <2>1 DEF CheckState, PushThrows
    <3>2. ToSet(accepted) \subseteq Messages
      BY <1>1 DEF ToSet
    <3> QED
      BY <3>1, <3>2 DEF AcceptedOnce
  <2>2. CASE PushMessage(m)
    <3>1. accepted' = Append(accepted, m) /\ sender' = [sender EXCEPT ![m] = "true"]
      BY <2>2 DEF PushMessage
    <3>2. ToSet(accepted') = ToSet(accepted) \cup {m} /\ ToSet(accepted) \subseteq Messages
      <4>1. /\ Len(accepted) \in Nat
            /\ DOMAIN accepted = 1..Len(accepted)
            /\ DOMAIN accepted' = 1..(Len(accepted) + 1)
            /\ accepted'[Len(accepted) + 1] = m
        BY <1>1, <3>1
      <4>2. \A i \in 1..Len(accepted) : accepted[i] \in Messages /\ accepted'[i] = accepted[i]
        BY <1>1, <3>1
      <4>3. 1..(Len(accepted) + 1) = (1..Len(accepted)) \cup {Len(accepted) + 1}
        BY <4>1
      <4> QED
        BY <4>1, <4>2, <4>3 DEF ToSet
    <3> QED
      BY <1>1, <3>1, <3>2 DEF AcceptedOnce
  <2> QED
    BY <1>2, <2>1, <2>2 DEF SenderStep
<1>3. ASSUME HandlerStep \/ KernelStep \/ CloseBegin \/ CloserStep
      PROVE  AcceptedOnce'
  <2>1. UNCHANGED <<sender, accepted>>
    BY <1>3 DEF HandlerStep, HandleError, HandleOverrun, BatchGone, HandleLast, HandleMore,
       HandleThrows, KernelStep, WriteOk, WriteFails, CloseBegin, CloserStep, CloseCas,
       CloseClear, CloseNone
  <2> QED
    BY <2>1 DEF AcceptedOnce
<1> QED
  BY <1>2, <1>3 DEF Next

\* What is being written comes first in what remains.
LEMMA FrontRemains ==
    ASSUME TypeOK, BatchIsGathered, NEW w \in writes, FrontWrite(w)
    PROVE  \E rest \in Seq(Messages) : Remaining = w.data \o rest
<1>1. w.data \in Seq(Messages)
  BY DEF TypeOK, Write, Buffer
<1>2. CASE gather
  BY <1>2, QueueType DEF FrontWrite, Remaining
<1>3. CASE ~gather
  <2>1. /\ 0 \in Nat /\ gather => sending # <<>>
        /\ FrontHas(0) /\ Foremost = w.data
    BY <1>1, <1>3 DEF FrontWrite, FrontHas, Foremost
  <2> QED
    BY <2>1, RemainingSplits
<1> QED
  BY <1>2, <1>3

\* Nothing taken off leaves all.
LEMMA RestOfAll ==
    ASSUME NEW a \in Seq(Messages)
    PROVE  Rest(a, 0) = a
BY DEF Rest

\* A step of the promise: nothing, a message more, or some units more.
Delivers ==
    \/ UNCHANGED <<accepted, stream>>
    \/ \E m \in Messages : Stream!Accept(m)
    \/ \E n \in 1..(Len(Stream!Promised) - Len(stream)) : Stream!Transmit(n)

LEMMA StreamSender ==
    ASSUME IInv, StreamInv, NEW m \in Messages, SenderStep(m)
    PROVE  NothingIsLost' /\ (NoneEmpty => Delivers)
<1>1. /\ TypeOK /\ BatchIsGathered /\ OpenIsOrderly
      /\ NothingIsLost /\ AcceptedOnce
  BY DEF IInv, StreamInv
<1>2. CASE CheckState(m) \/ PushThrows(m)
  <2>1. UNCHANGED <<gather, open, reset, queue, sending, writes, accepted, stream>>
    BY <1>2 DEF CheckState, PushThrows
  <2>2. (Stream!Promised)' = Stream!Promised
    BY <2>1 DEF Stream!Promised
  <2> QED
    BY <1>1, <2>1, <2>2 DEF NothingIsLost, Unsent, Remaining, Delivers, NoneEmpty
<1>3. CASE PushMessage(m)
  <2> DEFINE u == Units(m)
             p == Stream!Promised
             r == Remaining
  <2>1. /\ accepted' = Append(accepted, m) /\ sender[m] = "checked"
        /\ UNCHANGED <<gather, open, reset, stream>>
        /\ IF MustWait THEN UNCHANGED writes
                       ELSE writes' = writes \cup {StartWrite(m, u)}
        /\ IF gather /\ ~MustWait
           THEN sending' = u /\ UNCHANGED queue
           ELSE queue' = Append(queue, u) /\ UNCHANGED sending
    BY <1>3 DEF PushMessage, SendAsync
  <2>2. m \notin ToSet(accepted)
    BY <1>1, <2>1 DEF AcceptedOnce
  <2>3. Delivers
    BY <2>1, <2>2 DEF Delivers, Stream!Accept, Stream!ToSet, ToSet
  <2>4. (Stream!Promised)' = p \o u
    BY <1>1, <2>1, AcceptPromises
  <2>5. /\ u \in Seq(Messages) /\ p \in Seq(Messages) /\ stream \in Seq(Messages)
        /\ sending \in Seq(Messages) /\ FlattenSeq(queue) \in Seq(Messages)
        /\ queue \in Seq(Seq(Messages))
        /\ r \in Seq(Messages) /\ r = sending \o FlattenSeq(queue)
    <3>1. u \in Seq(Messages) /\ p \in Seq(Messages) /\ stream \in Seq(Messages)
      BY <1>1, UnitsType, BufferIsFlat, PromisedType DEF TypeOK
    <3>2. /\ sending \in Seq(Messages) /\ FlattenSeq(queue) \in Seq(Messages)
          /\ queue \in Seq(Seq(Messages))
      BY <1>1, QueueType
    <3> QED
      BY <3>1, <3>2 DEF Remaining
  <2>15. r = Remaining
    OBVIOUS
  <2>16. p = Stream!Promised
    OBVIOUS
  <2> HIDE DEF u, p, r
  <2>6. ASSUME open, ~reset, NoneEmpty
        PROVE  /\ \A w \in writes' : w.status # "err"
               /\ \A w \in writes' : p \o u = stream \o (Unsent(w))'
               /\ writes' = {} => p \o u = stream \o Remaining'
    <3>1. /\ \A w \in writes : w.status # "err" /\ p = stream \o Unsent(w)
          /\ writes = {} => p = stream \o r
      BY <1>1, <2>6, <2>15, <2>16 DEF NothingIsLost
    <3>2. /\ gather /\ sending = <<>> => queue = <<>>
          /\ \A w \in writes : FrontWrite(w)
      BY <1>1, <2>6 DEF OpenIsOrderly
    <3>3. CASE MustWait
      <4>1. queue' = Append(queue, u) /\ sending' = sending /\ writes' = writes
        BY <2>1, <3>3
      <4>2. FlattenSeq(queue') = FlattenSeq(queue) \o u
        BY <2>5, <4>1, FlattenAppend
      <4>3. Remaining' = r \o u
        <5>1. Remaining' = sending \o (FlattenSeq(queue) \o u)
          BY <4>1, <4>2 DEF Remaining
        <5>2. (sending \o FlattenSeq(queue)) \o u = sending \o (FlattenSeq(queue) \o u)
          <6>1. /\ sending \in Seq(Messages) /\ FlattenSeq(queue) \in Seq(Messages)
                /\ u \in Seq(Messages)
            BY <2>5
          <6> QED
            BY ONLY <6>1, Regroup
        <5>3. r \o u = (sending \o FlattenSeq(queue)) \o u
          BY <2>5
        <5> QED
          BY ONLY <5>1, <5>2, <5>3
      <4>4. ASSUME NEW w \in writes
            PROVE  p \o u = stream \o (Unsent(w))'
        <5>1. p = stream \o Unsent(w) /\ FrontWrite(w)
          BY <3>1, <3>2
        <5>2. Unsent(w) \in Seq(Messages) /\ (Unsent(w))' = Unsent(w) \o u
          <6>1. CASE w.status = "ok"
            <7>1. w.len \in 0..Len(r)
              <8>1. w \in Write /\ w.len <= Len(w.data)
                BY <1>1, <5>1, <6>1 DEF TypeOK, FrontWrite
              <8>2. w.len \in Nat /\ w.data \in Seq(Messages)
                BY <8>1 DEF Write, Buffer
              <8>3. PICK rest \in Seq(Messages) : r = w.data \o rest
                BY <1>1, <2>15, <5>1, FrontRemains
              <8> QED
                BY <8>1, <8>2, <8>3
            <7>2. Rest(r, w.len) \in Seq(Messages) /\ Rest(r \o u, w.len) = Rest(r, w.len) \o u
              <8>1. r \in Seq(Messages) /\ u \in Seq(Messages) /\ w.len \in 0..Len(r)
                BY <2>5, <7>1
              <8> QED
                BY ONLY <8>1, SplitBuffer
            <7>3. (Unsent(w))' = Rest(Remaining', w.len)
              BY <6>1 DEF Unsent, Rest
            <7> QED
              BY <2>15, <4>3, <6>1, <7>2, <7>3 DEF Unsent
          <6>2. CASE w.status # "ok"
            BY <2>5, <2>15, <4>3, <6>2 DEF Unsent
          <6> QED
            BY <6>1, <6>2
        <5> QED
          <6>1. (stream \o Unsent(w)) \o u = stream \o (Unsent(w) \o u)
            <7>1. stream \in Seq(Messages) /\ Unsent(w) \in Seq(Messages) /\ u \in Seq(Messages)
              BY <2>5, <5>2
            <7> QED
              BY ONLY <7>1, Regroup
          <6> QED
            BY <5>1, <5>2, <6>1
      <4>5. writes = {} => p \o u = stream \o (r \o u)
        <5>1. (stream \o r) \o u = stream \o (r \o u)
          BY <2>5, Regroup
        <5> QED
          BY <3>1, <5>1
      <4> QED
        BY <3>1, <4>1, <4>3, <4>4, <4>5
    <3>4. CASE ~MustWait
      <4>1. writes = {} /\ queue = <<>> /\ sending = <<>>
        BY <1>1, <3>2, <3>4 DEF FrontWrite, MustWait, BatchIsGathered
      <4>2. r = <<>>
        BY <2>5, <4>1, FlattenEmpty
      <4>3. p = stream
        <5>1. p = stream \o <<>>
          BY <3>1, <4>1, <4>2
        <5> QED
          BY <2>5, <5>1
      <4>4. Remaining' = u
        <5>1. CASE gather
          <6>1. sending' = u /\ queue' = <<>>
            BY <2>1, <3>4, <4>1, <5>1
          <6>2. FlattenSeq(queue') = <<>>
            BY <6>1, FlattenEmpty
          <6> QED
            BY <2>5, <6>1, <6>2 DEF Remaining
        <5>2. CASE ~gather
          <6>1. sending' = <<>> /\ queue' = Append(<<>>, u) /\ <<>> \in Seq(Seq(Messages))
            BY <2>1, <4>1, <5>2
          <6>2. FlattenSeq(queue') = <<>> \o u
            BY <2>5, <6>1, FlattenAppend, FlattenEmpty
          <6> QED
            BY <2>5, <6>1, <6>2 DEF Remaining
        <5> QED
          BY <5>1, <5>2
      <4>5. writes' = {StartWrite(m, u)}
        BY <2>1, <3>4, <4>1
      <4>6. StartWrite(m, u).status # "err" /\ StartWrite(m, u).len = 0
        BY <2>6 DEF StartWrite
      <4>7. ASSUME NEW w \in writes'
            PROVE  w.status # "err" /\ (Unsent(w))' = Remaining'
        <5>1. w.status # "err" /\ w.len = 0
          BY <4>5, <4>6
        <5>2. Rest(Remaining', 0) = Remaining'
          BY <2>5, <4>4, RestOfAll
        <5> QED
          BY <5>1, <5>2 DEF Unsent, Rest
      <4> QED
        BY <4>3, <4>4, <4>5, <4>7
    <3> QED
      BY <3>3, <3>4
  <2>7. NoneEmpty' => NoneEmpty
    BY <1>1, <2>1, NoneEmptyBefore
  <2> QED
    BY <2>1, <2>3, <2>4, <2>6, <2>7, <2>16 DEF NothingIsLost
<1> QED
  BY <1>2, <1>3 DEF SenderStep

LEMMA StreamKernel ==
    ASSUME IInv, StreamInv, NEW w \in writes, WriteOk(w) \/ WriteFails(w)
    PROVE  NothingIsLost' /\ (NoneEmpty => Delivers)
<1>1. /\ TypeOK /\ BatchIsGathered /\ OpenIsOrderly /\ NothingIsLost
  BY DEF IInv, StreamInv
<1>2. CASE WriteFails(w)
  BY <1>2 DEF WriteFails, NothingIsLost, Delivers
<1>4. CASE WriteOk(w) /\ ~NoneEmpty
  BY <1>4 DEF WriteOk, NothingIsLost, NoneEmpty
<1>3. CASE WriteOk(w) /\ NoneEmpty
  <2> DEFINE p == Stream!Promised
             r == Remaining
  <2>1. PICK n \in 1..Len(w.data) :
            /\ stream' = stream \o SubSeq(w.data, 1, n)
            /\ Finish(w, "ok", n)
    BY <1>3 DEF WriteOk
  <2>2. /\ w.status = "pending" /\ open /\ ~reset
        /\ UNCHANGED <<gather, open, reset, queue, sending, accepted>>
    BY <1>3 DEF WriteOk
  <2>3. w \in Write /\ w.data \in Seq(Messages) /\ FrontWrite(w)
    BY <1>1, <1>3, <2>2 DEF TypeOK, Write, Buffer, OpenIsOrderly
  <2>4. p = stream \o r
    BY <1>1, <1>3, <2>2 DEF NothingIsLost, Unsent
  <2>5. PICK rest \in Seq(Messages) : r = w.data \o rest
    BY <1>1, <2>3, FrontRemains
  <2>6. /\ n \in 0..Len(w.data) /\ n \in 0..Len(r)
        /\ r \in Seq(Messages) /\ stream \in Seq(Messages)
    BY <1>1, <2>1, <2>3, <2>5 DEF TypeOK
  <2>7. SubSeq(w.data, 1, n) = SubSeq(r, 1, n)
    BY <2>3, <2>5, <2>6, SplitBuffer
  <2>8. /\ SubSeq(r, 1, n) \in Seq(Messages) /\ Rest(r, n) \in Seq(Messages)
        /\ r = SubSeq(r, 1, n) \o Rest(r, n)
    BY <2>6, SplitBuffer
  <2>10. (Stream!Promised)' = p /\ Remaining' = r
    BY <2>2 DEF Stream!Promised, Remaining
  <2>15. p = Stream!Promised
    OBVIOUS
  <2> HIDE DEF p, r
  <2>9. p = stream' \o Rest(r, n)
    <3>1. stream' = stream \o SubSeq(r, 1, n)
      BY <2>1, <2>7
    <3> QED
      <4>1. (stream \o SubSeq(r, 1, n)) \o Rest(r, n) = stream \o (SubSeq(r, 1, n) \o Rest(r, n))
        BY <2>6, <2>8, Regroup
      <4> QED
        BY <2>4, <2>8, <3>1, <4>1
  <2> DEFINE x == [w EXCEPT !.status = "ok", !.len = n]
  <2>11. x.status = "ok" /\ x.len = n /\ writes' = {x}
    BY <2>1, <2>3 DEF FrontWrite, Finish, Write
  <2> HIDE DEF x
  <2>12. NothingIsLost'
    <3> SUFFICES ASSUME NEW v \in writes'
                 PROVE  v.status # "err" /\ p = stream' \o (Unsent(v))'
      BY <2>15, <2>10, <2>11 DEF NothingIsLost
    <3>1. v.status = "ok" /\ v.len = n
      BY <2>11
    <3>2. (Unsent(v))' = Rest(r, n)
      BY <2>10, <3>1 DEF Unsent, Rest
    <3> QED
      BY <2>9, <3>1, <3>2
  <2>13. /\ n \in 1..(Len(p) - Len(stream))
         /\ stream' = SubSeq(p, 1, Len(stream) + n)
    <3>1. /\ Len(p) = Len(stream) + Len(r) /\ Len(stream) \in Nat /\ Len(r) \in Nat
          /\ n \in 1..Len(r)
      BY <2>1, <2>4, <2>6, SMTT(60)
    <3>2. /\ stream' \in Seq(Messages) /\ Len(stream') = Len(stream) + n
      <4>1. stream' = stream \o SubSeq(r, 1, n) /\ Len(SubSeq(r, 1, n)) = n
        BY <2>1, <2>6, <2>7
      <4> QED
        BY <2>6, <2>8, <4>1
    <3>3. Len(stream') \in 0..Len(stream') /\ SubSeq(stream', 1, Len(stream')) = stream'
      BY <3>2
    <3>4. SubSeq(stream' \o Rest(r, n), 1, Len(stream')) = SubSeq(stream', 1, Len(stream'))
      BY <2>8, <3>2, <3>3, SplitBuffer
    <3> QED
      BY <2>9, <3>1, <3>2, <3>3, <3>4
  <2>14. Delivers
    BY <2>2, <2>15, <2>13 DEF Delivers, Stream!Transmit
  <2> QED
    BY <2>12, <2>14
<1> QED
  BY <1>2, <1>3, <1>4

LEMMA StreamHandler ==
    ASSUME IInv, IInv', StreamInv, NEW w \in writes,
           \/ HandleError(w) \/ HandleOverrun(w) \/ BatchGone(w)
           \/ HandleLast(w) \/ HandleMore(w) \/ HandleThrows(w)
    PROVE  NothingIsLost' /\ (NoneEmpty => Delivers)
<1>1. /\ TypeOK /\ BatchIsGathered /\ OpenIsOrderly /\ NothingIsLost
  BY DEF IInv, StreamInv
<1>2. /\ UNCHANGED <<gather, reset, accepted, stream>> /\ (open' => open)
      /\ NoneEmpty' = NoneEmpty
  BY DEF HandleError, HandleOverrun, BatchGone, HandleLast, HandleMore, HandleThrows, NoneEmpty
<1>3. Delivers /\ (Stream!Promised)' = Stream!Promised
  BY <1>2 DEF Delivers, Stream!Promised
<1> SUFFICES ASSUME open', ~reset', NoneEmpty
             PROVE  /\ \A v \in writes' : /\ v.status # "err"
                                          /\ Stream!Promised = stream \o (Unsent(v))'
                    /\ writes' = {} => Stream!Promised = stream \o Remaining'
  BY <1>2, <1>3 DEF NothingIsLost
<1>4. open /\ ~reset /\ FrontWrite(w) /\ w.status # "err" /\ ~undefined'
  BY <1>1, <1>2 DEF OpenIsOrderly, NothingIsLost, IInv
<1>5. HandleLast(w) \/ HandleMore(w)
  <2>1. ~HandleError(w) /\ ~HandleOverrun(w) /\ ~HandleThrows(w)
    BY <1>4 DEF HandleError, HandleOverrun, HandleThrows
  <2>2. ~BatchGone(w)
    BY <1>4 DEF BatchGone, FrontWrite
  <2> QED
    BY <2>1, <2>2
<1>6. /\ Handles(w) /\ w.status = "ok" /\ FrontHas(w.len) /\ (gather => sending # <<>>)
  BY <1>5 DEF HandleLast, HandleMore, Handles
<1>7. w.len \in Nat
  BY <1>1 DEF TypeOK, Write
<1>8. Stream!Promised = stream \o FlattenSeq(Advance(w.len))
  <2>1. Stream!Promised = stream \o Rest(Remaining, w.len)
    BY <1>1, <1>4, <1>6 DEF NothingIsLost, Unsent
  <2> QED
    BY <1>1, <1>6, <1>7, <2>1, AdvanceFlattens
<1>9. Advance(w.len) \in Seq(Buffer) /\ Advance(w.len) \in Seq(Seq(Messages))
  <2>1. Advance(w.len) \in Seq(Buffer)
    BY <1>1, <1>6, <1>7, AdvanceType
  <2> QED
    BY <2>1, BufferIsFlat
<1>10. FlattenSeq(Advance(w.len)) \in Seq(Messages)
  BY <1>9, FlattenType
<1>11. Remaining' = FlattenSeq(Advance(w.len))
  <2>1. CASE HandleLast(w)
    <3>1. queue' = Advance(w.len) /\ sending' = <<>>
      BY <2>1 DEF HandleLast
    <3> QED
      BY <1>10, <3>1 DEF Remaining
  <2>2. CASE HandleMore(w) /\ gather
    <3>1. queue' = <<>> /\ sending' = FlattenSeq(Advance(w.len))
      BY <2>2 DEF HandleMore
    <3>2. FlattenSeq(queue') = <<>>
      BY <3>1, FlattenEmpty
    <3> QED
      BY <1>10, <3>1, <3>2 DEF Remaining
  <2>3. CASE HandleMore(w) /\ ~gather
    <3>1. queue' = Advance(w.len) /\ sending' = <<>>
      BY <1>1, <2>3 DEF HandleMore, BatchIsGathered
    <3> QED
      BY <1>10, <3>1 DEF Remaining
  <2> QED
    BY <1>5, <2>1, <2>2, <2>3
<1>12. ASSUME NEW v \in writes'
       PROVE  v.status # "err" /\ v.len = 0
  <2>1. writes = {w}
    BY <1>4 DEF FrontWrite
  <2>2. HandleMore(w)
    BY <1>5, <2>1 DEF HandleLast
  <2>3. v = StartWrite(w.from, IF gather THEN sending' ELSE queue'[1])
    BY <2>1, <2>2 DEF HandleMore, SendAsync
  <2> QED
    BY <1>4, <2>3 DEF StartWrite
<1>13. ASSUME NEW v \in writes'
       PROVE  (Unsent(v))' = Remaining'
  <2>1. Rest(Remaining', 0) = Remaining'
    BY <1>10, <1>11, RestOfAll
  <2> QED
    BY <1>12, <2>1 DEF Unsent, Rest
<1> QED
  BY <1>8, <1>11, <1>12, <1>13

LEMMA StreamCloser ==
    ASSUME IInv, StreamInv, CloseBegin \/ CloserStep
    PROVE  NothingIsLost' /\ (NoneEmpty => Delivers)
<1>1. ~open' /\ UNCHANGED <<accepted, stream>>
  BY DEF IInv, ClosingIsClosed, CloseBegin, CloserStep, CloseCas, CloseClear, CloseNone
<1> QED
  BY <1>1 DEF NothingIsLost, Delivers

LEMMA StreamInit == Init => StreamInv /\ Stream!SInit
<1> SUFFICES ASSUME Init PROVE StreamInv /\ Stream!SInit
  OBVIOUS
<1>1. accepted = <<>> /\ stream = <<>> /\ writes = {} /\ queue = <<>> /\ sending = <<>>
  BY DEF Init
<1>2. Stream!Promised = <<>>
  <2> DEFINE s == [i \in 1..Len(accepted) |-> Stream!Units(accepted[i])]
  <2>1. Len(s) = 0 /\ s = <<>>
    BY <1>1
  <2> HIDE DEF s
  <2>2. Stream!Promised = Stream!FlattenSeq(s)
    BY DEF Stream!Promised, s
  <2> QED
    BY <2>1, <2>2 DEF Stream!FlattenSeq
<1>3. Remaining = <<>>
  BY <1>1, FlattenEmpty DEF Remaining
<1>4. AcceptedOnce
  BY <1>1 DEF AcceptedOnce, ToSet
<1> QED
  BY <1>1, <1>2, <1>3, <1>4 DEF StreamInv, NothingIsLost, Stream!SInit

LEMMA StreamStep ==
    ASSUME IInv, IInv', StreamInv, [Next]_vars
    PROVE  StreamInv' /\ [NoneEmpty => Stream!SNext]_(Stream!svars)
<1>1. CASE UNCHANGED vars
  <2>1. /\ UNCHANGED <<gather, open, reset, queue, sending, writes, sender, accepted, stream>>
    BY <1>1 DEF vars
  <2>2. (Stream!Promised)' = Stream!Promised
    BY <2>1 DEF Stream!Promised
  <2>3. NothingIsLost'
    BY <2>1, <2>2 DEF StreamInv, NothingIsLost, Unsent, Remaining, NoneEmpty
  <2>4. AcceptedOnce'
    BY <2>1 DEF StreamInv, AcceptedOnce
  <2> QED
    BY <2>1, <2>3, <2>4 DEF StreamInv, Stream!svars
<1>2. CASE Next
  <2>1. AcceptedOnce'
    BY <1>2, AcceptedOnceHolds DEF StreamInv
  <2>2. NothingIsLost' /\ (NoneEmpty => Delivers)
    BY <1>2, StreamSender, StreamKernel, StreamHandler, StreamCloser
       DEF Next, HandlerStep, KernelStep
  <2> QED
    BY <2>1, <2>2 DEF StreamInv, Delivers, Stream!SNext, Stream!svars
<1> QED
  BY <1>1, <1>2

\* What the peer has and what is left to write make up what was promised.
THEOREM StreamInvariant == Spec => []StreamInv
<1>1. Init => StreamInv
  BY StreamInit
<1>2. IInv /\ IInv' /\ StreamInv /\ [Next]_vars => StreamInv'
  BY StreamStep
<1> QED
  BY <1>1, <1>2, Invariant, PTL DEF Spec

\* Either sender implements SendStream, the gathering one until it accepts an
\* empty message: partial writes, gathering, throwing and failing never make it
\* skip, repeat or swap a unit of what it accepted.
THEOREM SendsInOrder == Spec => InOrderStream
<1>1. Init => Stream!SInit
  BY StreamInit
<1>2. IInv /\ IInv' /\ StreamInv /\ [Next]_vars => [NoneEmpty => Stream!SNext]_(Stream!svars)
  BY StreamStep
<1> QED
  BY <1>1, <1>2, Invariant, StreamInvariant, PTL DEF Spec, InOrderStream
=============================================================================
