--------------------------- MODULE Serializers_proofs ---------------------------
(***************************************************************************)
(* Proofs about BufferView, BasicBuffer and Serializers, which have no     *)
(* state: what recursive functions compute, what each kind of value is     *)
(* written as, behind and ahead of others, that it takes as many bytes as  *)
(* get_size_of says, and what is found at an offset.  MessagePath_proofs   *)
(* rests on these lemmas.                                                  *)
(***************************************************************************)
EXTENDS Serializers, SequenceTheorems, WellFoundedInduction, TLAPS
-----------------------------------------------------------------------------
(* Recursive functions *)

LEMMA LessIsWellFounded ==
    \E R : IsWellFoundedOn(R, Nat) /\ \A x, y \in Nat : y < x => <<y, x>> \in R
<1> DEFINE R == OpToRel(<, Nat)
<1>1. IsWellFoundedOn(R, Nat)
  BY NatLessThanWellFounded
<1>2. \A x, y \in Nat : y < x => <<y, x>> \in R
  BY DEF OpToRel
<1> HIDE DEF R
<1> QED
  BY ONLY <1>1, <1>2, Zenon

LEMMA LeastNatural ==
    ASSUME NEW S, S \subseteq Nat, S # {}
    PROVE  \E n \in S : \A k \in S : n <= k
<1>1. PICK R : IsWellFoundedOn(R, Nat) /\ \A x, y \in Nat : y < x => <<y, x>> \in R
  BY LessIsWellFounded
<1>2. PICK n \in S : \A k \in S : ~(<<k, n>> \in R)
  BY <1>1, WFMin
<1>3. \A k \in S : ~(k < n)
  BY <1>1, <1>2, Zenon
<1>4. \A k \in S : k \in Nat /\ n \in Nat
  OBVIOUS
<1>5. \A k \in S : n <= k
  BY ONLY <1>3, <1>4
<1> QED
  BY <1>5, Zenon

LEMMA NaturalInduction ==
    ASSUME NEW S, 0 \in S, \A n \in Nat : n \in S => n + 1 \in S
    PROVE  \A n \in Nat : n \in S
<1> SUFFICES ASSUME Nat \ S # {} PROVE FALSE
  OBVIOUS
<1>1. PICK n \in Nat \ S : \A k \in Nat \ S : n <= k
  BY LeastNatural
<1>2. n - 1 \in Nat
  OBVIOUS
<1>3. n - 1 \in S
  BY <1>1, <1>2
<1> QED
  BY <1>2, <1>3

LEMMA UpTo ==
    ASSUME NEW n \in Nat, NEW S, 0 \in S, \A i \in 1..n : i - 1 \in S => i \in S
    PROVE  \A i \in 0..n : i \in S
<1> DEFINE T == {k \in Nat : k \in 0..n => k \in S}
<1>1. 0 \in T
  OBVIOUS
<1>2. ASSUME NEW k \in Nat, k \in T
      PROVE  k + 1 \in T
  <2>1. CASE k + 1 \in 0..n
    <3>1. k \in S /\ k + 1 \in 1..n /\ (k + 1) - 1 = k
      BY <1>2, <2>1
    <3> QED
      BY <3>1
  <2> QED
    BY <2>1
<1> HIDE DEF T
<1>3. \A k \in Nat : k \in T
  BY <1>1, <1>2, NaturalInduction
<1> QED
  BY <1>3 DEF T

Recurs(f, a, rule, n) == f[0] = a /\ \A i \in 1..n : f[i] = rule[<<i, f[i - 1]>>]
StepsWithin(rule, A, n) == \A i \in 1..n : \A x \in A : rule[<<i, x>>] \in A
SameRule(f, g, n) == f[0] = g[0] /\ \A i \in 1..n : f[i - 1] = g[i - 1] => f[i] = g[i]

\* A function whose values follow from the one before; rule is of [i, value].
LEMMA RecursionExists ==
    ASSUME NEW A, NEW a \in A, NEW n \in Nat, NEW rule, StepsWithin(rule, A, n)
    PROVE  \E f \in [0..n -> A] : Recurs(f, a, rule, n)
<1> DEFINE Good(f, k) == f \in [0..k -> A] /\ f[0] = a
                         /\ \A i \in 1..k : f[i] = rule[<<i, f[i - 1]>>]
           S == {k \in Nat : \E f : Good(f, k)}
<1>1. 0 \in S
  <2> DEFINE f == [i \in 0..0 |-> a]
  <2>1. f \in [0..0 -> A] /\ f[0] = a /\ \A i \in 1..0 : FALSE
    OBVIOUS
  <2> HIDE DEF f
  <2>2. Good(f, 0)
    BY <2>1, Zenon
  <2> QED
    BY <2>2
<1>2. ASSUME NEW i \in 1..n, i - 1 \in S
      PROVE  i \in S
  <2>1. PICK f : Good(f, i - 1)
    BY <1>2
  <2> DEFINE g == [j \in 0..i |-> IF j < i THEN f[j] ELSE rule[<<i, f[i - 1]>>]]
  <2>2. f[i - 1] \in A /\ rule[<<i, f[i - 1]>>] \in A
    BY <2>1 DEF StepsWithin
  <2>3. g \in [0..i -> A]
    <3> SUFFICES ASSUME NEW j \in 0..i PROVE g[j] \in A
      OBVIOUS
    <3>1. CASE j < i
      <4>1. j \in 0..(i - 1)
        BY <3>1
      <4> QED
        BY <2>1, <3>1, <4>1
    <3>2. CASE j = i
      BY <2>2, <3>2
    <3> QED
      BY <3>1, <3>2
  <2>4. g[0] = a
    BY <2>1
  <2>5. ASSUME NEW j \in 1..i
        PROVE  g[j] = rule[<<j, g[j - 1]>>]
    <3>1. CASE j < i
      <4>1. j \in 1..(i - 1) /\ g[j] = f[j] /\ g[j - 1] = f[j - 1]
        BY <3>1
      <4>2. f[j] = rule[<<j, f[j - 1]>>]
        BY <2>1, <4>1
      <4> QED
        BY <4>1, <4>2
    <3>2. CASE j = i
      <4>1. g[j] = rule[<<i, f[i - 1]>>] /\ g[j - 1] = f[i - 1]
        BY <3>2
      <4> QED
        BY <3>2, <4>1
    <3> QED
      BY <3>1, <3>2
  <2> HIDE DEF g
  <2>6. Good(g, i)
    BY <2>3, <2>4, <2>5
  <2> QED
    BY <2>6
<1> HIDE DEF S
<1>3. n \in S
  BY <1>1, <1>2, UpTo
<1> QED
  BY <1>3 DEF S, Recurs

\* Two functions that follow the same rule are the same.
LEMMA RecursionUnique ==
    ASSUME NEW n \in Nat, NEW f, NEW g, SameRule(f, g, n)
    PROVE  \A i \in 0..n : f[i] = g[i]
<1> DEFINE S == {i \in Nat : f[i] = g[i]}
<1>1. 0 \in S /\ \A i \in 1..n : i - 1 \in S => i \in S
  BY DEF SameRule
<1> HIDE DEF S
<1>2. \A i \in 0..n : i \in S
  BY <1>1, UpTo
<1> QED
  BY <1>2 DEF S

-----------------------------------------------------------------------------
(* Numbers and their bytes *)

Shifts(f, n, base, k) == f[0] = n /\ \A i \in 1..k : f[i] = f[i - 1] \div base

LEMMA ShiftedUnfolds ==
    ASSUME NEW n \in Int, NEW base \in Nat \ {0}, NEW k \in Nat
    PROVE  \E f \in [0..k -> Int] : Shifts(f, n, base, k) /\ Shifted(n, base, k) = f[k]
<1> DEFINE rule == [p \in (1..k) \X Int |-> p[2] \div base]
           F(h) == [i \in 0..k |-> IF i = 0 THEN n ELSE h[i - 1] \div base]
           f == CHOOSE h : h = F(h)
<1>1. \A i \in 1..k : \A x \in Int : rule[<<i, x>>] = x \div base /\ x \div base \in Int
  OBVIOUS
<1> HIDE DEF rule
<1>2. PICK g \in [0..k -> Int] : Recurs(g, n, rule, k)
  <2>1. StepsWithin(rule, Int, k)
    BY <1>1 DEF StepsWithin
  <2> QED
    BY <2>1, RecursionExists
<1>3. g[0] = n /\ \A i \in 1..k : g[i] = g[i - 1] \div base
  <2>1. \A i \in 1..k : g[i - 1] \in Int
    BY <1>2
  <2> QED
    BY <1>1, <1>2, <2>1 DEF Recurs
<1>4. g = F(g)
  BY <1>3
<1>5. f = F(f)
  BY <1>4
<1>6. Shifted(n, base, k) = f[k]
  BY DEF Shifted
<1> HIDE DEF f
<1>7. f[0] = n /\ \A i \in 1..k : f[i] = f[i - 1] \div base
  BY <1>5
<1>9. \A i \in 0..k : f[i] = g[i]
  <2>1. SameRule(f, g, k)
    BY <1>3, <1>7, Zenon DEF SameRule
  <2> QED
    BY <2>1, RecursionUnique
<1>10. f = g
  BY <1>2, <1>5, <1>9
<1> QED
  BY <1>6, <1>7, <1>10 DEF Shifts

LEMMA ShiftedSteps ==
    ASSUME NEW n \in Int, NEW base \in Nat \ {0}
    PROVE  /\ Shifted(n, base, 0) = n
           /\ \A k \in Nat : /\ Shifted(n, base, k) \in Int
                             /\ Shifted(n, base, k + 1) = Shifted(n, base, k) \div base
<1>1. Shifted(n, base, 0) = n
  <2>1. 0 \in Nat
    OBVIOUS
  <2>2. PICK f \in [0..0 -> Int] : Shifts(f, n, base, 0) /\ Shifted(n, base, 0) = f[0]
    BY <2>1, ShiftedUnfolds
  <2> QED
    BY <2>2 DEF Shifts
<1>2. ASSUME NEW k \in Nat
      PROVE  /\ Shifted(n, base, k) \in Int
             /\ Shifted(n, base, k + 1) = Shifted(n, base, k) \div base
  <2>1. PICK f \in [0..k -> Int] : Shifts(f, n, base, k) /\ Shifted(n, base, k) = f[k]
    BY ShiftedUnfolds
  <2>2. k + 1 \in Nat
    OBVIOUS
  <2>3. PICK g \in [0..(k + 1) -> Int] :
            Shifts(g, n, base, k + 1) /\ Shifted(n, base, k + 1) = g[k + 1]
    BY <2>2, ShiftedUnfolds
  <2>4. \A i \in 0..k : f[i] = g[i]
    <3>1. SameRule(f, g, k)
      <4>1. \A i \in 1..k : i \in 1..(k + 1)
        OBVIOUS
      <4> QED
        BY <2>1, <2>3, <4>1, Zenon DEF Shifts, SameRule
    <3> QED
      BY <3>1, RecursionUnique
  <2>5. g[k + 1] = g[k] \div base
    <3>1. k + 1 \in 1..(k + 1) /\ (k + 1) - 1 = k
      OBVIOUS
    <3> QED
      BY <2>3, <3>1 DEF Shifts
  <2>6. f[k] = g[k] /\ f[k] \in Int
    BY <2>1, <2>4
  <2> QED
    BY <2>1, <2>3, <2>5, <2>6
<1> QED
  BY <1>1, <1>2

LEMMA EncodedType ==
    ASSUME NEW n \in Int, NEW width \in Nat
    PROVE  Encoded(n, width) \in Seq(Char) /\ Len(Encoded(n, width)) = width
<1>1. \A i \in 1..width : i - 1 \in Nat
  OBVIOUS
<1>2. Base \in Nat \ {0} /\ Base = 256
  BY DEF Base
<1>3. \A i \in 1..width : Shifted(n, Base, i - 1) \in Int
  BY <1>1, <1>2, ShiftedSteps
<1>4. \A i \in 1..width : (Shifted(n, Base, i - 1) % Base) \in Char
  BY <1>2, <1>3 DEF Char
<1> QED
  BY <1>4 DEF Encoded

\* What Composed computes: the numbers f of the last bytes, up to the first.
Composes(f, bytes, top) ==
    f[1] = top /\ \A k \in 2..Len(bytes) : f[k] = bytes[Len(bytes) + 1 - k] + Base * f[k - 1]

LEMMA ComposedUnfolds ==
    ASSUME NEW bytes \in Seq(Int), bytes # <<>>, NEW top \in Int
    PROVE  \E f \in [1..Len(bytes) -> Int] :
               Composes(f, bytes, top) /\ Composed(bytes, top) = f[Len(bytes)]
<1> DEFINE n == Len(bytes)
<1>0. n \in Nat \ {0} /\ n - 1 \in Nat /\ DOMAIN bytes = 1..n /\ Base \in Int
      /\ \A i \in 1..n : bytes[i] \in Int
  BY DEF Base
<1> HIDE DEF n
<1> DEFINE rule == [p \in (1..(n - 1)) \X Int |-> bytes[n - p[1]] + Base * p[2]]
           F(h) == [k \in DOMAIN bytes |->
                        IF k = 1 THEN top ELSE bytes[n + 1 - k] + Base * h[k - 1]]
           f == CHOOSE h : h = F(h)
<1>1. \A i \in 1..(n - 1) : \A x \in Int :
          rule[<<i, x>>] = bytes[n - i] + Base * x /\ rule[<<i, x>>] \in Int
  <2> SUFFICES ASSUME NEW i \in 1..(n - 1), NEW x \in Int
               PROVE  rule[<<i, x>>] = bytes[n - i] + Base * x /\ rule[<<i, x>>] \in Int
    OBVIOUS
  <2>1. bytes[n - i] \in Int
    BY <1>0
  <2> QED
    BY <1>0, <2>1
<1> HIDE DEF rule
<1>2. PICK g \in [0..(n - 1) -> Int] : Recurs(g, top, rule, n - 1)
  <2>1. StepsWithin(rule, Int, n - 1)
    BY <1>1 DEF StepsWithin
  <2> QED
    BY <1>0, <2>1, RecursionExists
<1> DEFINE h == [k \in 1..n |-> g[k - 1]]
<1>3. h \in [1..n -> Int] /\ h[1] = top
  BY <1>0, <1>2 DEF Recurs
<1>4. \A k \in 2..n : h[k] = bytes[n + 1 - k] + Base * h[k - 1]
  <2> SUFFICES ASSUME NEW k \in 2..n PROVE h[k] = bytes[n + 1 - k] + Base * h[k - 1]
    OBVIOUS
  <2>1. k - 1 \in 1..(n - 1) /\ n - (k - 1) = n + 1 - k /\ h[k] = g[k - 1] /\ h[k - 1] = g[(k - 1) - 1]
    BY <1>0
  <2>3. g[(k - 1) - 1] \in Int
    BY <1>0, <1>2
  <2>2. g[k - 1] = rule[<<k - 1, g[(k - 1) - 1]>>]
    BY <1>2, <2>1 DEF Recurs
  <2> QED
    BY <1>1, <2>1, <2>2, <2>3
<1> HIDE DEF h
<1>5. h = F(h)
  <2>1. \A k \in 1..n : h[k] = IF k = 1 THEN top ELSE bytes[n + 1 - k] + Base * h[k - 1]
    BY <1>0, <1>3, <1>4
  <2> QED
    BY <1>0, <1>3, <2>1
<1>6. f = F(f)
  BY <1>5
<1>7. Composed(bytes, top) = f[n]
  BY DEF Composed, n
<1> HIDE DEF f
<1>8. Composes(f, bytes, top) /\ Composes(h, bytes, top)
  <2>0. \A k \in 1..n : f[k] = IF k = 1 THEN top ELSE bytes[n + 1 - k] + Base * f[k - 1]
    BY <1>0, <1>6, Zenon
  <2>2. 1 \in 1..n /\ \A k \in 2..n : k \in 1..n /\ k # 1
    BY <1>0
  <2>1. f[1] = top /\ \A k \in 2..n : f[k] = bytes[n + 1 - k] + Base * f[k - 1]
    BY <2>0, <2>2, Zenon
  <2> QED
    BY <1>3, <1>4, <2>1, Zenon DEF Composes, n
<1>9. \A i \in 0..(n - 1) : f[i + 1] = h[i + 1]
  <2> DEFINE ff == [i \in 0..(n - 1) |-> f[i + 1]]
             hh == [i \in 0..(n - 1) |-> h[i + 1]]
  <2>1. ff[0] = hh[0]
    BY <1>0, <1>8 DEF Composes, n
  <2>2. \A i \in 1..(n - 1) : ff[i - 1] = hh[i - 1] => ff[i] = hh[i]
    <3> SUFFICES ASSUME NEW i \in 1..(n - 1), f[i] = h[i] PROVE f[i + 1] = h[i + 1]
      <4>1. \A i \in 1..(n - 1) : /\ i \in 0..(n - 1) /\ i - 1 \in 0..(n - 1)
                                   /\ (i - 1) + 1 = i
        BY <1>0
      <4>2. \A i \in 1..(n - 1) : ff[i] = f[i + 1] /\ hh[i] = h[i + 1]
                                   /\ ff[i - 1] = f[i] /\ hh[i - 1] = h[i]
        BY <4>1
      <4> HIDE DEF ff, hh
      <4> QED
        BY <4>2, Zenon
    <3>1. i + 1 \in 2..n /\ (i + 1) - 1 = i
      BY <1>0
    <3> QED
      BY <1>8, <3>1 DEF Composes, n
  <2>3. \A i \in 0..(n - 1) : ff[i] = f[i + 1] /\ hh[i] = h[i + 1]
    OBVIOUS
  <2> HIDE DEF ff, hh
  <2>4. \A i \in 0..(n - 1) : ff[i] = hh[i]
    <3>1. SameRule(ff, hh, n - 1)
      BY <2>1, <2>2, Zenon DEF SameRule
    <3> QED
      BY <1>0, <3>1, RecursionUnique
  <2> QED
    BY <2>3, <2>4
<1>10. f = h
  <2>1. \A k \in 1..n : f[k] = h[k]
    <3> SUFFICES ASSUME NEW k \in 1..n PROVE f[k] = h[k]
      OBVIOUS
    <3>1. k - 1 \in 0..(n - 1) /\ (k - 1) + 1 = k
      BY <1>0
    <3> QED
      BY <1>9, <3>1
  <2>2. DOMAIN f = 1..n /\ DOMAIN h = 1..n /\ f = [k \in 1..n |-> f[k]] /\ h = [k \in 1..n |-> h[k]]
    BY <1>0, <1>3, <1>6
  <2> QED
    BY <2>1, <2>2
<1> QED
  BY <1>3, <1>7, <1>8, <1>10 DEF n

LEMMA DecodedType ==
    ASSUME NEW bytes \in Seq(Int), bytes # <<>>
    PROVE  Decoded(bytes) \in Int
<1>1. Last(bytes) \in Int
  BY DEF Last
<1>2. SignedByte(Last(bytes)) \in Int
  BY <1>1 DEF SignedByte, Base
<1>3. Len(bytes) \in 1..Len(bytes)
  BY LenProperties
<1> QED
  BY <1>2, <1>3, ComposedUnfolds DEF Decoded

\* The bytes of a number, with the right top, give it back.
LEMMA ComposedEncoded ==
    ASSUME NEW n \in Int, NEW width \in Nat \ {0}, NEW top, top = Shifted(n, Base, width - 1)
    PROVE  Composed(Encoded(n, width), top) = n
<1> DEFINE e == Encoded(n, width)
           s(k) == Shifted(n, Base, k)
<1>1. Base \in Nat \ {0} /\ Base = 256
  BY DEF Base
<1>2. s(0) = n /\ \A k \in Nat : s(k) \in Int /\ s(k + 1) = s(k) \div Base
  <2>1. Base \in Nat \ {0}
    BY <1>1
  <2> QED
    BY <2>1, ShiftedSteps
<1>3. e \in Seq(Int) /\ Len(e) = width /\ \A i \in 1..width : e[i] = s(i - 1) % Base
  <2>1. e \in Seq(Char) /\ Len(e) = width
    BY EncodedType
  <2>2. \A i \in 1..width : e[i] = s(i - 1) % Base
    BY DEF Encoded
  <2>3. Seq(Char) \subseteq Seq(Int)
    <3>1. Char \subseteq Int
      BY DEF Char, Base
    <3> QED
      BY <3>1, SeqMonotonic
  <2> HIDE DEF s
  <2> QED
    BY <2>1, <2>2, <2>3, Zenon
<1>4. top \in Int
  <2>1. width - 1 \in Nat
    OBVIOUS
  <2> QED
    BY <1>2, <2>1
<1> HIDE DEF e
<1>5. PICK f \in [1..Len(e) -> Int] : Composes(f, e, top) /\ Composed(e, top) = f[Len(e)]
  <2>1. e # <<>>
    BY <1>3
  <2> QED
    BY <1>3, <1>4, <2>1, ComposedUnfolds
<1> DEFINE S == {i \in Nat : i < width => f[i + 1] = s(width - 1 - i)}
<1> HIDE DEF s
<1>6. 0 \in S
  BY <1>5 DEF Composes, s
<1>7. ASSUME NEW i \in Nat, i \in S
      PROVE  i + 1 \in S
  <2>1. CASE i + 1 < width
    <3> DEFINE j == width - 2 - i
    <3>1. j \in Nat /\ j + 1 = width - 1 - i /\ width + 1 - (i + 2) = j + 1 /\ i + 2 \in 2..width
          /\ j + 1 \in 1..width /\ (j + 1) - 1 = j /\ (i + 2) - 1 = i + 1
      BY <2>1
    <3>2. f[i + 1] = s(j + 1)
      BY <1>7, <2>1, <3>1
    <3>3. f[i + 2] = e[j + 1] + Base * f[i + 1]
      <4>1. i + 2 \in 2..Len(e) /\ Len(e) + 1 - (i + 2) = j + 1
        BY <1>3, <3>1
      <4> QED
        BY <1>5, <3>1, <4>1 DEF Composes
    <3> HIDE DEF j
    <3>4. e[j + 1] = s(j) % Base /\ s(j + 1) = s(j) \div Base /\ s(j) \in Int
      BY <1>2, <1>3, <3>1
    <3>5. f[i + 2] = s(j)
      BY <1>1, <3>2, <3>3, <3>4
    <3>6. (i + 1) + 1 = i + 2 /\ width - 1 - (i + 1) = j
      BY DEF j
    <3> QED
      BY <3>5, <3>6
  <2> QED
    BY <2>1
<1> HIDE DEF S
<1>8. width - 1 \in S
  <2>1. \A i \in Nat : i \in S
    BY <1>6, <1>7, NaturalInduction
  <2> QED
    BY <2>1
<1>9. f[width] = s(0)
  <2>1. width - 1 < width /\ (width - 1) + 1 = width /\ width - 1 - (width - 1) = 0
    OBVIOUS
  <2> QED
    BY <1>8, <2>1 DEF S
<1> QED
  BY <1>2, <1>3, <1>5, <1>9 DEF e

\* A number within its width is read as it was written.
LEMMA DecodedEncoded ==
    ASSUME NEW n, NEW width \in Nat \ {0}, InWidth(n, width)
    PROVE  Decoded(Encoded(n, width)) = n
<1>1. n \in Int /\ Shifted(n, Base, width - 1) \in -128..127
  BY DEF InWidth, Base
<1>2. Last(Encoded(n, width)) = Shifted(n, Base, width - 1) % Base
  <2>1. Len(Encoded(n, width)) = width
    BY <1>1, EncodedType
  <2> QED
    BY <2>1 DEF Last, Encoded
<1>3. SignedByte(Last(Encoded(n, width))) = Shifted(n, Base, width - 1)
  BY <1>1, <1>2 DEF SignedByte, Base
<1> QED
  BY <1>1, <1>3, ComposedEncoded DEF Decoded

LEMMA DecodedSizeEncoded ==
    ASSUME NEW n, NEW width \in Nat \ {0}, IsSize(n, width)
    PROVE  DecodedSize(Encoded(n, width)) = n
<1>1. n \in Int /\ Shifted(n, Base, width - 1) \in 0..255
  BY DEF IsSize, Char, Base
<1>2. Last(Encoded(n, width)) = Shifted(n, Base, width - 1) % Base
  <2>1. Len(Encoded(n, width)) = width
    BY <1>1, EncodedType
  <2> QED
    BY <2>1 DEF Last, Encoded
<1>3. Last(Encoded(n, width)) = Shifted(n, Base, width - 1)
  BY <1>1, <1>2 DEF Base
<1> QED
  BY <1>1, <1>3, ComposedEncoded DEF DecodedSize

-----------------------------------------------------------------------------
(* Buffers *)

Cell == 0..Base
Buffers == [mem : Seq(Cell), at : Nat, size : Int, ok : BOOLEAN]
End(b) == b.at + b.size
IsBuffer(b) == b \in Buffers /\ End(b) <= Len(b.mem) /\ (b.ok => b.size \in Nat)
Bufs == {b \in Buffers : IsBuffer(b)}

\* c is b with n more bytes behind it, unless it failed.
Appends(b, c, n) ==
    /\ IsBuffer(c) /\ c.at = b.at /\ Len(c.mem) = Len(b.mem)
    /\ c.ok => /\ b.ok /\ c.size = b.size + n
               /\ \A i \in 1..End(b) : c.mem[i] = b.mem[i]
HasRoom(b, n) == b.ok /\ End(b) + n <= Len(b.mem)
Added(b, c) == SubSeq(c.mem, End(b) + 1, End(c))

\* c is b with n more bytes before it, unless it failed.
Prepends(b, c, n) ==
    /\ IsBuffer(c) /\ End(c) = End(b) /\ Len(c.mem) = Len(b.mem)
    /\ c.ok => /\ b.ok /\ c.at = b.at - n
               /\ \A i \in (b.at + 1)..Len(b.mem) : c.mem[i] = b.mem[i]
HasRoomAhead(b, n) == b.ok /\ n <= b.at
Ahead(b, c) == SubSeq(c.mem, c.at + 1, b.at)

LEMMA CellFacts == Char \subseteq Cell /\ Unwritten \in Cell /\ Seq(Char) \subseteq Seq(Cell)
                   /\ Cell \subseteq Nat /\ Char \subseteq Nat
<1>1. Char \subseteq Cell /\ Unwritten \in Cell /\ Cell \subseteq Nat /\ Char \subseteq Nat
  BY DEF Char, Cell, Base, Unwritten
<1> QED
  BY <1>1, SeqMonotonic

LEMMA BufferFacts ==
    ASSUME NEW b, IsBuffer(b)
    PROVE  /\ b \in Bufs /\ b.mem \in Seq(Cell) /\ b.at \in Nat /\ b.size \in Int /\ b.ok \in BOOLEAN
           /\ End(b) \in Int /\ End(b) = b.at + b.size /\ End(b) <= Len(b.mem) /\ Len(b.mem) \in Nat
           /\ b.ok => b.size \in Nat /\ End(b) \in Nat
BY DEF IsBuffer, Buffers, Bufs, End

LEMMA AllocatedIsBuffer ==
    ASSUME NEW n \in Int
    PROVE  IsBuffer(Allocated(n)) /\ Allocated(n).at = 0 /\ Allocated(n).size = 0 /\ Allocated(n).ok
           /\ Allocated(n).mem \in Seq(Cell)
           /\ Len(Allocated(n).mem) = IF n < 0 THEN 0 ELSE n
<1> DEFINE m == IF n < 0 THEN 0 ELSE n
           mem == [i \in 1..n |-> Unwritten]
<1>1. m \in Nat /\ 1..n = 1..m
  OBVIOUS
<1>2. mem = [i \in 1..m |-> Unwritten]
  BY <1>1
<1> HIDE DEF m
<1>3. mem \in Seq(Cell) /\ Len(mem) = m
  <2>1. \A i \in 1..m : mem[i] \in Cell
    BY <1>2, CellFacts
  <2>2. mem \in [1..m -> Cell]
    BY <1>2, <2>1
  <2> HIDE DEF mem
  <2> QED
    BY <1>1, <2>2
<1>4. Allocated(n) = [mem |-> mem, at |-> 0, size |-> 0, ok |-> TRUE]
  BY DEF Allocated
<1> HIDE DEF mem, m
<1>5. Allocated(n) \in Buffers /\ End(Allocated(n)) = 0 /\ Allocated(n).mem = mem
      /\ Allocated(n).at = 0 /\ Allocated(n).size = 0 /\ Allocated(n).ok
  BY <1>3, <1>4 DEF Buffers, End
<1> QED
  BY <1>1, <1>3, <1>5 DEF IsBuffer, m

LEMMA WrittenFacts ==
    ASSUME NEW mem \in Seq(Cell), NEW off \in Nat, NEW bytes \in Seq(Cell),
           off + Len(bytes) <= Len(mem)
    PROVE  /\ Written(mem, off, bytes) \in Seq(Cell)
           /\ Len(Written(mem, off, bytes)) = Len(mem)
           /\ \A i \in 1..Len(mem) : i \notin (off + 1)..(off + Len(bytes)) =>
                  Written(mem, off, bytes)[i] = mem[i]
           /\ SubSeq(Written(mem, off, bytes), off + 1, off + Len(bytes)) = bytes
<1> DEFINE n == Len(mem)
           k == Len(bytes)
           w == Written(mem, off, bytes)
<1>1. n \in Nat /\ DOMAIN mem = 1..n /\ k \in Nat /\ DOMAIN bytes = 1..k /\ off + k <= n
      /\ (\A i \in 1..n : mem[i] \in Cell) /\ \A i \in 1..k : bytes[i] \in Cell
  OBVIOUS
<1>2. w = [i \in 1..n |-> IF i - off \in 1..k THEN bytes[i - off] ELSE mem[i]]
  BY <1>1 DEF Written
<1> HIDE DEF w, n, k
<1>3. w \in Seq(Cell) /\ Len(w) = n
  BY <1>1, <1>2
<1>4. \A i \in 1..n : i \notin (off + 1)..(off + k) => w[i] = mem[i]
  BY <1>1, <1>2
<1>5. \A i \in 1..k : w[off + i] = bytes[i]
  BY <1>1, <1>2
<1>6. SubSeq(w, off + 1, off + k) = bytes
  <2>1. SubSeq(w, off + 1, off + k) \in Seq(Cell) /\ Len(SubSeq(w, off + 1, off + k)) = k
        /\ \A i \in 1..k : SubSeq(w, off + 1, off + k)[i] = w[off + i]
    BY <1>1, <1>3
  <2>2. bytes \in Seq(Cell) /\ Len(bytes) = k
    BY DEF k
  <2> QED
    BY <1>5, <2>1, <2>2, SeqEqual
<1> QED
  BY <1>3, <1>4, <1>6 DEF w, n, k

LEMMA SkipAppends ==
    ASSUME NEW b, IsBuffer(b), NEW n \in Nat
    PROVE  /\ Appends(b, AppendSkip(b, n), n)
           /\ HasRoom(b, n) => AppendSkip(b, n).ok
           /\ AppendSkip(b, n).mem = b.mem
<1>1. b \in Buffers /\ End(b) = b.at + b.size /\ End(b) <= Len(b.mem) /\ Len(b.mem) \in Nat
      /\ b.at \in Nat /\ b.size \in Int /\ b.ok \in BOOLEAN /\ (b.ok => b.size \in Nat)
  BY BufferFacts DEF IsBuffer
<1> DEFINE fits == b.ok /\ b.at + b.size + n <= Len(b.mem)
           r == Require(b, n)
           c == AppendSkip(b, n)
<1>2. r = [b EXCEPT !.ok = fits]
  BY DEF Require
<1>3. CASE fits
  <2>1. c = [mem |-> b.mem, at |-> b.at, size |-> b.size + n, ok |-> TRUE]
    BY <1>1, <1>2, <1>3 DEF AppendSkip, Buffers
  <2> HIDE DEF c, r
  <2>2. c \in Buffers /\ End(c) = End(b) + n /\ c.mem = b.mem /\ c.at = b.at /\ c.size = b.size + n /\ c.ok
    BY <1>1, <2>1 DEF Buffers, End
  <2> QED
    BY <1>1, <1>3, <2>2 DEF Appends, IsBuffer, HasRoom, c
<1>4. CASE ~fits
  <2>1. c = [mem |-> b.mem, at |-> b.at, size |-> b.size, ok |-> FALSE]
    BY <1>1, <1>2, <1>4 DEF AppendSkip, Buffers
  <2> HIDE DEF c, r
  <2>2. c \in Buffers /\ End(c) = End(b) /\ c.mem = b.mem /\ c.at = b.at /\ ~c.ok
    BY <1>1, <2>1 DEF Buffers, End
  <2> QED
    BY <1>1, <1>4, <2>2 DEF Appends, IsBuffer, HasRoom, c
<1> QED
  BY <1>3, <1>4

LEMMA BytesAppend ==
    ASSUME NEW b, IsBuffer(b), NEW bytes \in Seq(Cell)
    PROVE  /\ Appends(b, AppendBytes(b, bytes), Len(bytes))
           /\ HasRoom(b, Len(bytes)) => AppendBytes(b, bytes).ok
           /\ AppendBytes(b, bytes).ok => Added(b, AppendBytes(b, bytes)) = bytes
<1> DEFINE n == Len(bytes)
           r == AppendSkip(b, n)
           c == AppendBytes(b, bytes)
           w == Written(b.mem, b.at + b.size, bytes)
<1>1. n \in Nat
  OBVIOUS
<1>2. Appends(b, r, n) /\ (HasRoom(b, n) => r.ok) /\ r.mem = b.mem
  BY <1>1, SkipAppends
<1>3. CASE ~r.ok
  <2>1. c = r
    BY <1>3 DEF AppendBytes
  <2> QED
    BY <1>2, <1>3, <2>1
<1>4. CASE r.ok
  <2>1. /\ IsBuffer(r) /\ r \in Buffers /\ r.at = b.at /\ r.size = b.size + n /\ b.ok
        /\ End(r) = r.at + r.size /\ End(r) <= Len(r.mem)
    BY <1>2, <1>4 DEF Appends, IsBuffer, End
  <2>2. /\ b.mem \in Seq(Cell) /\ b.at \in Nat /\ b.size \in Nat /\ End(b) \in Nat /\ Len(b.mem) \in Nat
        /\ End(b) = b.at + b.size
    BY <2>1, BufferFacts
  <2>3. End(b) + n <= Len(b.mem) /\ b.at + b.size \in Nat
    BY <1>1, <1>2, <2>1, <2>2
  <2>4a. End(b) + Len(bytes) <= Len(b.mem) /\ w = Written(b.mem, End(b), bytes)
    BY <2>2, <2>3
  <2> HIDE DEF n, w
  <2>4. /\ w \in Seq(Cell) /\ Len(w) = Len(b.mem)
        /\ \A i \in 1..Len(b.mem) : i \notin (End(b) + 1)..(End(b) + n) => w[i] = b.mem[i]
        /\ SubSeq(w, End(b) + 1, End(b) + n) = bytes
    BY <2>2, <2>4a, WrittenFacts DEF n
  <2>5. c = [r EXCEPT !.mem = w]
    <3>1. c = [r EXCEPT !.mem = Written(r.mem, b.at + b.size, bytes)]
      BY <1>4 DEF AppendBytes, n
    <3> QED
      BY <1>2, <3>1 DEF w
  <2>5a. c = [mem |-> w, at |-> b.at, size |-> b.size + n, ok |-> TRUE]
    BY <1>4, <2>1, <2>5 DEF Buffers
  <2> HIDE DEF c
  <2>6. c \in Buffers /\ c.mem = w /\ c.at = b.at /\ c.size = b.size + n /\ c.ok /\ End(c) = End(b) + n
    <3>1. b.size + n \in Int /\ End(b) = b.at + b.size
      BY <1>1, <2>2
    <3>2. c.mem = w /\ c.at = b.at /\ c.size = b.size + n /\ c.ok
      BY <2>5a
    <3>3. c \in Buffers
      BY <2>2, <2>4, <2>5a, <3>1 DEF Buffers
    <3>4. End(c) = End(b) + n
      BY <1>1, <2>2, <3>1, <3>2 DEF End
    <3> QED
      BY <3>2, <3>3, <3>4
  <2>7. IsBuffer(c)
    <3>1. b.size + n \in Nat
      BY <1>1, <2>2
    <3>2. Len(c.mem) = Len(b.mem)
      BY <2>4, <2>6
    <3> QED
      BY <2>3, <2>6, <3>1, <3>2 DEF IsBuffer
  <2>8. \A i \in 1..End(b) : c.mem[i] = b.mem[i]
    <3>1. \A i \in 1..End(b) : i \in 1..Len(b.mem) /\ i \notin (End(b) + 1)..(End(b) + n)
      BY <1>1, <2>2, <2>3
    <3> QED
      BY <2>4, <2>6, <3>1
  <2>9. Appends(b, c, n)
    BY <2>1, <2>4, <2>6, <2>7, <2>8 DEF Appends
  <2>10. Added(b, c) = bytes
    BY <2>4, <2>6 DEF Added
  <2> QED
    BY <2>6, <2>9, <2>10 DEF n, c
<1> QED
  BY <1>3, <1>4

\* What is appended in two steps.
LEMMA AppendsTwice ==
    ASSUME NEW b, IsBuffer(b), NEW c, NEW d, NEW n \in Nat, NEW m \in Nat,
           Appends(b, c, n), Appends(c, d, m)
    PROVE  /\ Appends(b, d, n + m)
           /\ d.ok => Added(b, d) = Added(b, c) \o Added(c, d)
           /\ HasRoom(b, n + m) => HasRoom(b, n) /\ (c.ok => HasRoom(c, m))
<1>1. IsBuffer(c) /\ IsBuffer(d) /\ c.at = b.at /\ d.at = b.at /\ Len(c.mem) = Len(b.mem)
      /\ Len(d.mem) = Len(b.mem)
  BY DEF Appends
<1>2. /\ b.mem \in Seq(Cell) /\ End(b) = b.at + b.size /\ b.at \in Nat /\ b.size \in Int
      /\ Len(b.mem) \in Nat
      /\ c.mem \in Seq(Cell) /\ End(c) = c.at + c.size /\ c.size \in Int
      /\ d.mem \in Seq(Cell) /\ End(d) = d.at + d.size /\ d.size \in Int
      /\ End(b) <= Len(b.mem) /\ End(c) <= Len(b.mem) /\ End(d) <= Len(b.mem)
  BY <1>1, BufferFacts
<1>3. d.ok => /\ c.ok /\ d.size = c.size + m /\ c.size \in Nat
              /\ \A i \in 1..End(c) : d.mem[i] = c.mem[i]
  BY <1>1, BufferFacts DEF Appends
<1>4. c.ok => /\ b.ok /\ c.size = b.size + n /\ b.size \in Nat
              /\ \A i \in 1..End(b) : c.mem[i] = b.mem[i]
  BY BufferFacts DEF Appends
<1>5. Appends(b, d, n + m)
  <2>1. ASSUME d.ok
        PROVE  /\ b.ok /\ d.size = b.size + (n + m)
               /\ \A i \in 1..End(b) : d.mem[i] = b.mem[i]
    <3>1. b.ok /\ d.size = b.size + (n + m)
      BY <1>2, <1>3, <1>4, <2>1
    <3>2. \A i \in 1..End(b) : i \in 1..End(c)
      BY <1>1, <1>2, <1>3, <1>4, <2>1, SMTT(30)
    <3> QED
      BY <1>3, <1>4, <2>1, <3>1, <3>2
  <2> QED
    BY <1>1, <2>1 DEF Appends
<1>6. ASSUME d.ok
      PROVE  Added(b, d) = Added(b, c) \o Added(c, d)
  <2> DEFINE p == End(b)
             q == End(c)
             z == End(d)
  <2>1. p \in Nat /\ q \in Nat /\ z \in Nat /\ p <= q /\ q <= z /\ z <= Len(d.mem) /\ z <= Len(c.mem)
    <3>1. b.size \in Nat /\ c.size = b.size + n /\ d.size = c.size + m
      BY <1>3, <1>4, <1>6
    <3> HIDE DEF p, q, z
    <3>2. p = b.at + b.size /\ q = b.at + c.size /\ z = b.at + d.size /\ z <= Len(b.mem)
      BY <1>1, <1>2 DEF p, q, z
    <3>3. Len(d.mem) = Len(b.mem) /\ Len(c.mem) = Len(b.mem) /\ b.at \in Nat
      BY <1>1, <1>2
    <3>4. p \in Nat /\ q = p + n /\ z = q + m
      <4>1. p \in Nat /\ c.size \in Nat
        BY <3>1, <3>2, <3>3, SMTT(30)
      <4>2. q = p + n
        BY <3>1, <3>2, <3>3, <4>1, SMTT(30)
      <4>3. z = q + m
        BY <3>1, <3>2, <3>3, <4>1, SMTT(30)
      <4> QED
        BY <4>1, <4>2, <4>3
    <3> QED
      BY ONLY <3>2, <3>3, <3>4, n \in Nat, m \in Nat
  <2>2. \A i \in 1..q : d.mem[i] = c.mem[i]
    BY <1>3, <1>6
  <2> HIDE DEF p, q, z
  <2>3. SubSeq(d.mem, p + 1, z) = SubSeq(d.mem, p + 1, q) \o SubSeq(d.mem, q + 1, z)
    BY <1>2, <2>1, SMTT(30)
  <2>4. SubSeq(d.mem, p + 1, q) = SubSeq(c.mem, p + 1, q)
    <3>1. \A i \in (p + 1)..q : d.mem[i] = c.mem[i]
      BY <2>1, <2>2
    <3> QED
      BY <1>2, <2>1, <3>1
  <2> QED
    BY <2>3, <2>4 DEF Added, p, q, z
<1>7. HasRoom(b, n + m) => HasRoom(b, n) /\ (c.ok => HasRoom(c, m))
  BY <1>1, <1>2, <1>4 DEF HasRoom
<1> QED
  BY <1>5, <1>6, <1>7

LEMMA BytesPrepend ==
    ASSUME NEW b, IsBuffer(b), NEW bytes \in Seq(Cell)
    PROVE  /\ Prepends(b, PrependBytes(b, bytes), Len(bytes))
           /\ HasRoomAhead(b, Len(bytes)) => PrependBytes(b, bytes).ok
           /\ PrependBytes(b, bytes).ok => Ahead(b, PrependBytes(b, bytes)) = bytes
<1> DEFINE n == Len(bytes)
           c == PrependBytes(b, bytes)
           w == Written(b.mem, b.at - n, bytes)
<1>1. /\ n \in Nat /\ b \in Buffers /\ b.mem \in Seq(Cell) /\ b.at \in Nat /\ b.size \in Int
      /\ b.ok \in BOOLEAN /\ End(b) = b.at + b.size /\ End(b) <= Len(b.mem) /\ Len(b.mem) \in Nat
      /\ b.ok => b.size \in Nat
  BY BufferFacts DEF IsBuffer
<1>2. CASE ~b.ok \/ b.at < n
  <2>1. c = [mem |-> b.mem, at |-> b.at, size |-> b.size, ok |-> FALSE]
    BY <1>1, <1>2 DEF PrependBytes, Buffers
  <2> HIDE DEF c
  <2>2. c \in Buffers /\ End(c) = End(b) /\ c.mem = b.mem /\ ~c.ok
    BY <1>1, <2>1 DEF Buffers, End
  <2> QED
    BY <1>1, <1>2, <2>2 DEF Prepends, IsBuffer, HasRoomAhead, c
<1>3. CASE b.ok /\ n <= b.at
  <2>1. c = [mem |-> w, at |-> b.at - n, size |-> b.size + n, ok |-> TRUE]
    <3>1. ~(~b.ok \/ b.at < n)
      BY <1>1, <1>3
    <3> QED
      BY <1>1, <1>3, <3>1 DEF PrependBytes, Buffers
  <2>2. b.at - n \in Nat /\ (b.at - n) + n = b.at /\ b.size \in Nat /\ b.size + n \in Nat
        /\ b.at <= Len(b.mem)
    BY <1>1, <1>3
  <2>3. /\ w \in Seq(Cell) /\ Len(w) = Len(b.mem)
        /\ \A i \in 1..Len(b.mem) : i \notin ((b.at - n) + 1)..b.at => w[i] = b.mem[i]
        /\ SubSeq(w, (b.at - n) + 1, b.at) = bytes
    <3> DEFINE off == b.at - n
    <3>1. off \in Nat /\ off + Len(bytes) = b.at /\ off + Len(bytes) <= Len(b.mem)
      BY <2>2
    <3>2. w = Written(b.mem, off, bytes)
      OBVIOUS
    <3> HIDE DEF off, w, n
    <3>3. /\ w \in Seq(Cell) /\ Len(w) = Len(b.mem)
          /\ \A i \in 1..Len(b.mem) : i \notin (off + 1)..(off + Len(bytes)) => w[i] = b.mem[i]
          /\ SubSeq(w, off + 1, off + Len(bytes)) = bytes
      BY <1>1, <3>1, <3>2, WrittenFacts, SMTT(30)
    <3>4. SubSeq(w, off + 1, b.at) = bytes
      BY <3>1, <3>3
    <3>5. \A i \in 1..Len(b.mem) : i \notin (off + 1)..b.at => w[i] = b.mem[i]
      BY <3>1, <3>3
    <3> QED
      BY <3>3, <3>4, <3>5 DEF off
  <2> HIDE DEF w, c
  <2>4. c.mem = w /\ c.at = b.at - n /\ c.size = b.size + n /\ c.ok
    BY <2>1
  <2>5. c \in Buffers
    BY <2>1, <2>2, <2>3 DEF Buffers
  <2>6. End(c) = End(b)
    <3>1. End(c) = (b.at - n) + (b.size + n)
      BY <2>4 DEF End
    <3> QED
      BY <1>1, <2>2, <3>1
  <2>7. IsBuffer(c)
    <3>1. Len(c.mem) = Len(b.mem)
      BY <2>3, <2>4
    <3> QED
      BY <1>1, <2>2, <2>4, <2>5, <2>6, <3>1 DEF IsBuffer
  <2>8. \A i \in (b.at + 1)..Len(b.mem) : c.mem[i] = b.mem[i]
    <3>1. \A i \in (b.at + 1)..Len(b.mem) : i \in 1..Len(b.mem) /\ i \notin ((b.at - n) + 1)..b.at
      BY <1>1
    <3> QED
      BY <2>3, <2>4, <3>1
  <2>9. Prepends(b, c, n)
    BY <1>3, <2>3, <2>4, <2>6, <2>7, <2>8 DEF Prepends
  <2>10. Ahead(b, c) = bytes
    BY <2>3, <2>4 DEF Ahead
  <2> QED
    BY <2>4, <2>9, <2>10 DEF c
<1> QED
  BY <1>1, <1>2, <1>3

LEMMA PrependsTwice ==
    ASSUME NEW b, IsBuffer(b), NEW c, NEW d, NEW n \in Nat, NEW m \in Nat,
           Prepends(b, c, n), Prepends(c, d, m)
    PROVE  /\ Prepends(b, d, m + n)
           /\ d.ok => Ahead(b, d) = Ahead(c, d) \o Ahead(b, c)
           /\ HasRoomAhead(b, m + n) => HasRoomAhead(b, n) /\ (c.ok => HasRoomAhead(c, m))
<1>1. IsBuffer(c) /\ IsBuffer(d) /\ End(c) = End(b) /\ End(d) = End(b) /\ Len(c.mem) = Len(b.mem)
      /\ Len(d.mem) = Len(b.mem)
  BY DEF Prepends
<1>2. /\ b.mem \in Seq(Cell) /\ b.at \in Nat /\ Len(b.mem) \in Nat
      /\ c.mem \in Seq(Cell) /\ c.at \in Nat
      /\ d.mem \in Seq(Cell) /\ d.at \in Nat
      /\ (b.ok => b.size \in Nat) /\ End(b) = b.at + b.size /\ End(b) <= Len(b.mem) /\ b.size \in Int
  BY <1>1, BufferFacts
<1>3. d.ok => /\ c.ok /\ d.at = c.at - m
              /\ \A i \in (c.at + 1)..Len(c.mem) : d.mem[i] = c.mem[i]
  BY DEF Prepends
<1>4. c.ok => /\ b.ok /\ c.at = b.at - n
              /\ \A i \in (b.at + 1)..Len(b.mem) : c.mem[i] = b.mem[i]
  BY DEF Prepends
<1>5. Prepends(b, d, m + n)
  <2>1. ASSUME d.ok
        PROVE  /\ b.ok /\ d.at = b.at - (m + n)
               /\ \A i \in (b.at + 1)..Len(b.mem) : d.mem[i] = b.mem[i]
    <3>1. b.ok /\ c.at = b.at - n /\ d.at = c.at - m
      BY <1>3, <1>4, <2>1
    <3>2. d.at = b.at - (m + n)
      BY <1>2, <3>1
    <3>3. \A i \in (b.at + 1)..Len(b.mem) : i \in (c.at + 1)..Len(c.mem)
      BY <1>1, <1>2, <3>1
    <3> QED
      BY <1>3, <1>4, <2>1, <3>1, <3>2, <3>3
  <2> QED
    BY <1>1, <2>1 DEF Prepends
<1>6. ASSUME d.ok
      PROVE  Ahead(b, d) = Ahead(c, d) \o Ahead(b, c)
  <2> DEFINE p == d.at
             q == c.at
             z == b.at
  <2>1. p \in Nat /\ q \in Nat /\ z \in Nat /\ p <= q /\ q <= z /\ z <= Len(d.mem) /\ z <= Len(c.mem)
    <3>1. c.at = b.at - n /\ d.at = c.at - m /\ b.size \in Nat
      BY <1>2, <1>3, <1>4, <1>6
    <3>2. b.at <= Len(b.mem)
      BY <1>2, <3>1
    <3>3. d.at <= c.at /\ c.at <= b.at
      BY <1>2, <3>1
    <3> QED
      BY <1>1, <1>2, <3>2, <3>3
  <2>2. \A i \in (q + 1)..Len(c.mem) : d.mem[i] = c.mem[i]
    BY <1>3, <1>6
  <2> HIDE DEF p, q, z
  <2>3. SubSeq(d.mem, p + 1, z) = SubSeq(d.mem, p + 1, q) \o SubSeq(d.mem, q + 1, z)
    <3>1. d.mem \in Seq(Cell) /\ p + 1 \in 1..(Len(d.mem) + 1) /\ q \in ((p + 1) - 1)..Len(d.mem)
          /\ z \in q..Len(d.mem)
      BY <1>2, <2>1
    <3> QED
      BY ONLY <3>1, ConcatAdjacentSubSeq
  <2>4. SubSeq(d.mem, q + 1, z) = SubSeq(c.mem, q + 1, z)
    <3>1. \A i \in (q + 1)..z : d.mem[i] = c.mem[i]
      BY <2>1, <2>2
    <3> QED
      BY <1>2, <2>1, <3>1
  <2> QED
    BY <2>3, <2>4 DEF Ahead, p, q, z
<1>7. HasRoomAhead(b, m + n) => HasRoomAhead(b, n) /\ (c.ok => HasRoomAhead(c, m))
  <2>1. c.ok => c.at = b.at - n
    BY <1>4
  <2> QED
    BY <1>2, <2>1 DEF HasRoomAhead
<1> QED
  BY <1>5, <1>6, <1>7

-----------------------------------------------------------------------------
(* Totals, and a sequence that consists of parts *)

Sums(f, sizes) == f[0] = 0 /\ \A i \in 1..Len(sizes) : f[i] = f[i - 1] + sizes[i]

LEMMA TotalUnfolds ==
    ASSUME NEW sizes \in Seq(Nat)
    PROVE  \E f \in [0..Len(sizes) -> Nat] : Sums(f, sizes) /\ Total(sizes) = f[Len(sizes)]
<1> DEFINE n == Len(sizes)
<1>0. n \in Nat /\ \A i \in 1..n : sizes[i] \in Nat
  OBVIOUS
<1> HIDE DEF n
<1> DEFINE rule == [p \in (1..n) \X Nat |-> p[2] + sizes[p[1]]]
           F(h) == [i \in 0..n |-> IF i = 0 THEN 0 ELSE h[i - 1] + sizes[i]]
           f == CHOOSE h : h = F(h)
<1>1. \A i \in 1..n : \A x \in Nat : rule[<<i, x>>] = x + sizes[i] /\ x + sizes[i] \in Nat
  BY <1>0
<1> HIDE DEF rule
<1>2. PICK g \in [0..n -> Nat] : Recurs(g, 0, rule, n)
  <2>1. StepsWithin(rule, Nat, n)
    BY <1>1 DEF StepsWithin
  <2> QED
    BY <1>0, <2>1, RecursionExists
<1>3. g[0] = 0 /\ \A i \in 1..n : g[i] = g[i - 1] + sizes[i]
  <2>1. \A i \in 1..n : g[i - 1] \in Nat
    BY <1>0, <1>2
  <2> QED
    BY <1>1, <1>2, <2>1 DEF Recurs
<1>4. g = F(g)
  BY <1>3
<1>5. f = F(f)
  BY <1>4
<1>6. Total(sizes) = f[n]
  BY DEF Total, n
<1> HIDE DEF f
<1>7. f[0] = 0 /\ \A i \in 1..n : f[i] = f[i - 1] + sizes[i]
  BY <1>0, <1>5
<1>8. \A i \in 0..n : f[i] = g[i]
  <2>1. SameRule(f, g, n)
    BY <1>3, <1>7, Zenon DEF SameRule
  <2> QED
    BY <1>0, <2>1, RecursionUnique
<1>9. f = g
  BY <1>2, <1>5, <1>8
<1> QED
  BY <1>2, <1>3, <1>6, <1>9 DEF Sums, n

\* e consists of the parts, one after the other.
Joins(e, parts) ==
    \E o \in [0..Len(parts) -> Nat] :
        /\ o[0] = 0 /\ o[Len(parts)] = Len(e)
        /\ \A i \in 1..Len(parts) : /\ o[i - 1] <= o[i] /\ o[i] <= Len(e)
                                    /\ SubSeq(e, o[i - 1] + 1, o[i]) = parts[i]

LEMMA SliceOfSlice ==
    ASSUME NEW V, NEW s \in Seq(V), NEW p \in Nat, NEW q \in Nat, NEW a \in Nat, NEW z \in Nat,
           p + z <= q, q <= Len(s), a <= z
    PROVE  SubSeq(SubSeq(s, p + 1, q), a + 1, z) = SubSeq(s, p + a + 1, p + z)
<1> DEFINE t == SubSeq(s, p + 1, q)
<1>1. t \in Seq(V) /\ Len(t) = q - p /\ \A i \in 1..(q - p) : t[i] = s[p + i]
  OBVIOUS
<1> HIDE DEF t
<1>2. SubSeq(t, a + 1, z) \in Seq(V) /\ Len(SubSeq(t, a + 1, z)) = z - a
      /\ \A i \in 1..(z - a) : SubSeq(t, a + 1, z)[i] = t[a + i]
  BY <1>1
<1>3. SubSeq(s, p + a + 1, p + z) \in Seq(V) /\ Len(SubSeq(s, p + a + 1, p + z)) = z - a
      /\ \A i \in 1..(z - a) : SubSeq(s, p + a + 1, p + z)[i] = s[p + a + i]
  OBVIOUS
<1>4. \A i \in 1..(z - a) : SubSeq(t, a + 1, z)[i] = SubSeq(s, p + a + 1, p + z)[i]
  <2> SUFFICES ASSUME NEW i \in 1..(z - a)
               PROVE  SubSeq(t, a + 1, z)[i] = SubSeq(s, p + a + 1, p + z)[i]
    OBVIOUS
  <2>1. a + i \in 1..(q - p) /\ p + (a + i) = p + a + i
    OBVIOUS
  <2> QED
    BY <1>1, <1>2, <1>3, <2>1
<1> QED
  BY <1>2, <1>3, <1>4, SeqEqual DEF t

-----------------------------------------------------------------------------
(* Several things written one after the other *)

AppendsEach(g, sizes, n) == \A i \in 1..n : Appends(g[i - 1], g[i], sizes[i])
TakesRoom(g, sizes, n) == \A i \in 1..n : HasRoom(g[i - 1], sizes[i]) => g[i].ok
PartsAdded(g, n) == [i \in 1..n |-> Added(g[i - 1], g[i])]

AddsUp(t, sizes, n) == \A i \in 1..n : t[i] = t[i - 1] + sizes[i]

LEMMA AppendsNothing ==
    ASSUME NEW b, IsBuffer(b)
    PROVE  Appends(b, b, 0)
<1>1. b.size \in Int
  BY BufferFacts
<1>2. b.size = b.size + 0
  BY <1>1
<1> QED
  BY <1>2 DEF Appends

LEMMA SumsMonotone ==
    ASSUME NEW n \in Nat, NEW sizes \in [1..n -> Nat], NEW t \in [0..n -> Nat],
           AddsUp(t, sizes, n)
    PROVE  \A k \in 0..n : \A i \in 0..k : t[i] \in Nat /\ t[k] \in Nat /\ t[i] <= t[k]
<1> DEFINE S == {k \in 0..n : \A i \in 0..k : t[i] <= t[k]}
<1>1. 0 \in S
  OBVIOUS
<1>2. ASSUME NEW k \in 1..n, k - 1 \in S
      PROVE  k \in S
  <2>1. t[k] = t[k - 1] + sizes[k] /\ sizes[k] \in Nat /\ t[k - 1] \in Nat /\ t[k] \in Nat
    BY DEF AddsUp
  <2>2. \A i \in 0..(k - 1) : t[i] <= t[k - 1] /\ t[i] \in Nat
    BY <1>2
  <2>3. \A i \in 0..(k - 1) : t[i] <= t[k]
    BY <2>1, <2>2
  <2>4. ASSUME NEW i \in 0..k
        PROVE  t[i] <= t[k]
    <3>1. i = k \/ i \in 0..(k - 1)
      OBVIOUS
    <3> QED
      BY <2>1, <2>3, <3>1
  <2>5. k \in 0..n
    OBVIOUS
  <2> QED
    BY ONLY <2>4, <2>5
<1> HIDE DEF S
<1>3. \A k \in 0..n : k \in S
  BY <1>1, <1>2, UpTo
<1> SUFFICES ASSUME NEW k \in 0..n, NEW i \in 0..k
             PROVE  t[i] \in Nat /\ t[k] \in Nat /\ t[i] <= t[k]
  OBVIOUS
<1>4. t[i] <= t[k]
  BY <1>3 DEF S
<1>5. i \in 0..n
  OBVIOUS
<1> QED
  BY <1>4, <1>5

LEMMA AppendsBetween ==
    ASSUME NEW n \in Nat, NEW sizes \in [1..n -> Nat], NEW t \in [0..n -> Nat],
           AddsUp(t, sizes, n),
           NEW g, IsBuffer(g[0]), AppendsEach(g, sizes, n)
    PROVE  \A k \in 0..n : \A i \in 0..k : Appends(g[i], g[k], t[k] - t[i])
<1> DEFINE S == {k \in 0..n : IsBuffer(g[k]) /\ \A i \in 0..k : Appends(g[i], g[k], t[k] - t[i])}
<1>1. 0 \in S
  <2>1. Appends(g[0], g[0], 0) /\ t[0] - t[0] = 0
    BY AppendsNothing
  <2> QED
    BY <2>1
<1>2. ASSUME NEW k \in 1..n, k - 1 \in S
      PROVE  k \in S
  <2>1. t[k] = t[k - 1] + sizes[k] /\ sizes[k] \in Nat /\ t[k - 1] \in Nat /\ t[k] \in Nat
    BY DEF AddsUp
  <2>2. Appends(g[k - 1], g[k], sizes[k])
    BY DEF AppendsEach
  <2>3. IsBuffer(g[k])
    BY <2>2 DEF Appends
  <2>4. ASSUME NEW i \in 0..(k - 1)
        PROVE  Appends(g[i], g[k], t[k] - t[i])
    <3>1. Appends(g[i], g[k - 1], t[k - 1] - t[i])
      BY <1>2
    <3>2. IsBuffer(g[i])
      <4>1. i = 0 \/ i \in 1..n
        OBVIOUS
      <4>2. i \in 1..n => Appends(g[i - 1], g[i], sizes[i])
        BY DEF AppendsEach
      <4> QED
        BY <4>1, <4>2 DEF Appends
    <3>3. t[i] <= t[k - 1] /\ t[i] \in Nat
      <4>1. k - 1 \in 0..n /\ i \in 0..(k - 1)
        OBVIOUS
      <4>2. \A j \in 0..n : \A h \in 0..j : t[h] \in Nat /\ t[j] \in Nat /\ t[h] <= t[j]
        BY SumsMonotone
      <4> QED
        BY <4>1, <4>2
    <3>4. t[k - 1] - t[i] \in Nat /\ t[k] - t[i] = (t[k - 1] - t[i]) + sizes[k]
      BY <2>1, <3>3
    <3> HIDE DEF S
    <3> DEFINE m == t[k - 1] - t[i]
    <3>5. Appends(g[i], g[k], m + sizes[k])
      <4>1. m \in Nat /\ Appends(g[i], g[k - 1], m)
        BY <3>1, <3>4
      <4> HIDE DEF m
      <4> QED
        BY <2>1, <2>2, <3>2, <4>1, AppendsTwice
    <3> QED
      BY <3>4, <3>5
  <2>5. Appends(g[k], g[k], t[k] - t[k])
    BY <2>1, <2>3, AppendsNothing
  <2>6. ASSUME NEW i \in 0..k
        PROVE  Appends(g[i], g[k], t[k] - t[i])
    <3>1. i = k \/ i \in 0..(k - 1)
      OBVIOUS
    <3> QED
      BY <2>4, <2>5, <3>1
  <2>7. k \in 0..n
    OBVIOUS
  <2> QED
    BY ONLY <2>3, <2>6, <2>7
<1> HIDE DEF S
<1>3. \A k \in 0..n : k \in S
  BY <1>1, <1>2, UpTo
<1> QED
  BY <1>3 DEF S

LEMMA AppendsChain ==
    ASSUME NEW n \in Nat, NEW sizes \in [1..n -> Nat], NEW g, IsBuffer(g[0]), AppendsEach(g, sizes, n)
    PROVE  /\ Total(sizes) \in Nat /\ Appends(g[0], g[n], Total(sizes))
           /\ g[n].ok => /\ \A i \in 0..n : g[i].ok
                         /\ Joins(Added(g[0], g[n]), PartsAdded(g, n))
           /\ HasRoom(g[0], Total(sizes)) /\ TakesRoom(g, sizes, n) => g[n].ok
<1>1. sizes \in Seq(Nat) /\ Len(sizes) = n
  OBVIOUS
<1>2. PICK t \in [0..n -> Nat] : Sums(t, sizes) /\ Total(sizes) = t[n]
  BY <1>1, TotalUnfolds
<1>3. t[0] = 0 /\ AddsUp(t, sizes, n) /\ \A i \in 1..n : t[i] = t[i - 1] + sizes[i]
  BY <1>1, <1>2 DEF Sums, AddsUp
<1>4. \A k \in 0..n : \A i \in 0..k : Appends(g[i], g[k], t[k] - t[i])
  BY <1>3, AppendsBetween
<1>5. \A i \in 0..n : t[i] \in Nat /\ t[i] <= t[n]
  <2>1. \A j \in 0..n : \A h \in 0..j : t[h] \in Nat /\ t[j] \in Nat /\ t[h] <= t[j]
    BY <1>3, SumsMonotone
  <2>2. n \in 0..n
    OBVIOUS
  <2> QED
    BY <2>1, <2>2
<1>6. Total(sizes) \in Nat /\ Appends(g[0], g[n], Total(sizes))
  <2>1. 0 \in 0..n /\ n \in 0..n /\ t[n] - t[0] = t[n]
    BY <1>3, <1>5
  <2> QED
    BY <1>2, <1>4, <2>1
<1>7. ASSUME g[n].ok
      PROVE  /\ \A i \in 0..n : g[i].ok
             /\ Joins(Added(g[0], g[n]), PartsAdded(g, n))
  <2>1. ASSUME NEW i \in 0..n
        PROVE  /\ g[i].ok /\ IsBuffer(g[i]) /\ End(g[i]) = End(g[0]) + t[i] /\ End(g[i]) <= Len(g[n].mem)
               /\ Len(g[n].mem) = Len(g[i].mem)
               /\ \A j \in 1..End(g[i]) : g[n].mem[j] = g[i].mem[j]
    <3>1. Appends(g[i], g[n], t[n] - t[i]) /\ Appends(g[0], g[i], t[i] - t[0]) /\ t[i] - t[0] = t[i]
      <4>1. n \in 0..n /\ i \in 0..n /\ 0 \in 0..i /\ t[i] - t[0] = t[i]
        BY <1>3, <1>5
      <4> QED
        BY <1>4, <4>1
    <3>2. /\ g[i].ok /\ IsBuffer(g[i]) /\ Len(g[n].mem) = Len(g[i].mem)
          /\ \A j \in 1..End(g[i]) : g[n].mem[j] = g[i].mem[j]
      BY <1>7, <3>1 DEF Appends
    <3>3. g[i].at = g[0].at /\ g[i].size = g[0].size + t[i]
      BY <3>1, <3>2 DEF Appends
    <3>4. g[0].at \in Nat /\ g[0].size \in Int /\ t[i] \in Nat
      BY <1>5, BufferFacts
    <3>5. End(g[i]) = End(g[0]) + t[i]
      BY <3>3, <3>4 DEF End
    <3>6. End(g[i]) <= Len(g[n].mem)
      BY <3>2 DEF IsBuffer
    <3> QED
      BY <3>2, <3>5, <3>6
  <2> DEFINE e == Added(g[0], g[n])
             p == End(g[0])
             parts == PartsAdded(g, n)
  <2>2. p \in Nat /\ g[n].mem \in Seq(Cell) /\ p + t[n] <= Len(g[n].mem) /\ End(g[n]) = p + t[n]
    <3>1. 0 \in 0..n /\ n \in 0..n
      OBVIOUS
    <3> QED
      BY <2>1, <3>1, BufferFacts
  <2>3. e = SubSeq(g[n].mem, p + 1, p + t[n])
    BY <2>2 DEF Added
  <2>4. parts = [i \in 1..n |-> SubSeq(g[i].mem, End(g[i - 1]) + 1, End(g[i]))]
    BY DEF PartsAdded, Added
  <2>5. Len(parts) = n
    BY <2>4
  <2> HIDE DEF e, p, parts
  <2>6. Len(e) = t[n]
    BY <1>5, <2>2, <2>3
  <2>7. ASSUME NEW i \in 1..n
        PROVE  t[i - 1] <= t[i] /\ t[i] <= t[n] /\ SubSeq(e, t[i - 1] + 1, t[i]) = parts[i]
    <3>1. i \in 0..n /\ i - 1 \in 0..n /\ t[i] \in Nat /\ t[i - 1] \in Nat /\ t[n] \in Nat /\ t[i] <= t[n]
      BY <1>5
    <3>2. t[i - 1] <= t[i]
      BY <1>3, <3>1
    <3>3. SubSeq(e, t[i - 1] + 1, t[i]) = SubSeq(g[n].mem, p + t[i - 1] + 1, p + t[i])
      <4> DEFINE q == p + t[n]
                 s == g[n].mem
      <4>1. q \in Nat /\ p + t[i] <= q /\ q <= Len(s) /\ s \in Seq(Cell)
        BY <2>2, <3>1
      <4>2. e = SubSeq(s, p + 1, q)
        BY <2>3
      <4> HIDE DEF q, s
      <4>3. SubSeq(SubSeq(s, p + 1, q), t[i - 1] + 1, t[i]) = SubSeq(s, p + t[i - 1] + 1, p + t[i])
        <5> DEFINE u == t[i - 1]
                   z == t[i]
        <5>1. u \in Nat /\ z \in Nat /\ u <= z /\ p + z <= q /\ p \in Nat
          BY ONLY <2>2, <3>1, <3>2, <4>1
        <5> HIDE DEF u, z
        <5>2. SubSeq(SubSeq(s, p + 1, q), u + 1, z) = SubSeq(s, p + u + 1, p + z)
          BY ONLY <4>1, <5>1, SliceOfSlice
        <5> QED
          BY <5>2 DEF u, z
      <4> QED
        BY <4>2, <4>3 DEF s
    <3>4. parts[i] = SubSeq(g[i].mem, p + t[i - 1] + 1, p + t[i])
      <4>1. End(g[i - 1]) = p + t[i - 1] /\ End(g[i]) = p + t[i]
        BY <2>1, <3>1 DEF p
      <4> QED
        BY <2>4, <4>1
    <3>5. SubSeq(g[n].mem, p + t[i - 1] + 1, p + t[i]) = SubSeq(g[i].mem, p + t[i - 1] + 1, p + t[i])
      <4>1. g[i].mem \in Seq(Cell) /\ p + t[i] <= Len(g[i].mem)
            /\ \A j \in 1..(p + t[i]) : g[n].mem[j] = g[i].mem[j]
        <5>1. IsBuffer(g[i]) /\ End(g[i]) = p + t[i] /\ \A j \in 1..End(g[i]) : g[n].mem[j] = g[i].mem[j]
          BY <2>1, <3>1 DEF p
        <5> QED
          BY <5>1, BufferFacts
      <4> DEFINE x == p + t[i - 1] + 1
                 y == p + t[i]
      <4>2. x \in Nat \ {0} /\ y \in Nat
        BY <2>2, <3>1, SMTT(30)
      <4>2a. \A j \in x..y : j \in 1..y
        BY ONLY <4>2
      <4>3. g[n].mem \in Seq(Cell) /\ y <= Len(g[n].mem)
        BY <2>2, <3>1
      <4>4. y <= Len(g[i].mem) /\ \A j \in x..y : g[n].mem[j] = g[i].mem[j]
        BY <4>1, <4>2a
      <4> HIDE DEF x, y
      <4>5. SubSeq(g[n].mem, x, y) = SubSeq(g[i].mem, x, y)
        <5>1. Len(SubSeq(g[n].mem, x, y)) = Len(SubSeq(g[i].mem, x, y))
              /\ SubSeq(g[n].mem, x, y) \in Seq(Cell) /\ SubSeq(g[i].mem, x, y) \in Seq(Cell)
          BY <4>1, <4>2, <4>3, <4>4, SMTT(30)
        <5>2. \A j \in 1..Len(SubSeq(g[n].mem, x, y)) : SubSeq(g[n].mem, x, y)[j] = SubSeq(g[i].mem, x, y)[j]
          BY <4>1, <4>2, <4>3, <4>4
        <5> QED
          BY ONLY <5>1, <5>2, SeqEqual
      <4> QED
        BY <4>5 DEF x, y
    <3> QED
      BY <3>1, <3>2, <3>3, <3>4, <3>5
  <2>8. Joins(e, parts)
    BY <1>3, <2>5, <2>6, <2>7 DEF Joins
  <2> QED
    BY <2>1, <2>8 DEF e, parts
<1>8. ASSUME HasRoom(g[0], Total(sizes)), TakesRoom(g, sizes, n)
      PROVE  g[n].ok
  <2> DEFINE S == {i \in 0..n : g[i].ok}
  <2>1. 0 \in S
    BY <1>8 DEF HasRoom
  <2>2. ASSUME NEW i \in 1..n, i - 1 \in S
        PROVE  i \in S
    <3>1. Appends(g[0], g[i - 1], t[i - 1]) /\ g[i - 1].ok
      <4>1. i - 1 \in 0..n /\ 0 \in 0..(i - 1) /\ t[i - 1] - t[0] = t[i - 1]
        BY <1>3, <1>5
      <4> QED
        BY <1>4, <2>2, <4>1
    <3>2. End(g[i - 1]) + sizes[i] <= Len(g[i - 1].mem)
      <4>1. g[i - 1].at = g[0].at /\ g[i - 1].size = g[0].size + t[i - 1] /\ Len(g[i - 1].mem) = Len(g[0].mem)
        BY <3>1 DEF Appends
      <4>2. g[0].at \in Nat /\ g[0].size \in Int /\ Len(g[0].mem) \in Nat
        BY BufferFacts
      <4>3. t[i] = t[i - 1] + sizes[i] /\ t[i] <= t[n] /\ t[i] \in Nat /\ t[i - 1] \in Nat /\ sizes[i] \in Nat
            /\ t[n] \in Nat
        BY <1>3, <1>5
      <4>4. g[0].at + g[0].size + t[n] <= Len(g[0].mem)
        BY <1>2, <1>8 DEF HasRoom, End
      <4> QED
        BY <4>1, <4>2, <4>3, <4>4, SMTT(30) DEF End
    <3>3. HasRoom(g[i - 1], sizes[i])
      BY <3>1, <3>2 DEF HasRoom
    <3> QED
      BY <1>8, <3>3 DEF TakesRoom
  <2> HIDE DEF S
  <2>3. \A i \in 0..n : i \in S
    BY <2>1, <2>2, UpTo
  <2> QED
    BY <2>3 DEF S
<1> QED
  BY <1>6, <1>7, <1>8

LEMMA SlicesAgree ==
    ASSUME NEW V, NEW s \in Seq(V), NEW t \in Seq(V), NEW x \in Nat, NEW y \in Nat,
           y <= Len(s), y <= Len(t), \A j \in (x + 1)..y : s[j] = t[j]
    PROVE  SubSeq(s, x + 1, y) = SubSeq(t, x + 1, y)
<1>1. Len(SubSeq(s, x + 1, y)) = Len(SubSeq(t, x + 1, y))
      /\ SubSeq(s, x + 1, y) \in Seq(V) /\ SubSeq(t, x + 1, y) \in Seq(V)
  OBVIOUS
<1>2. \A j \in 1..Len(SubSeq(s, x + 1, y)) : SubSeq(s, x + 1, y)[j] = SubSeq(t, x + 1, y)[j]
  OBVIOUS
<1> QED
  BY ONLY <1>1, <1>2, SeqEqual

PrependsEach(g, sizes, n) == \A i \in 1..n : Prepends(g[i - 1], g[i], sizes[i])
TakesRoomAhead(g, sizes, n) == \A i \in 1..n : HasRoomAhead(g[i - 1], sizes[i]) => g[i].ok
PartsAhead(g, n) == [i \in 1..n |-> Ahead(g[n - i], g[n + 1 - i])]

LEMMA PrependsNothing ==
    ASSUME NEW b, IsBuffer(b)
    PROVE  Prepends(b, b, 0)
<1>1. b.at \in Int
  BY BufferFacts
<1>2. b.at = b.at - 0
  BY <1>1
<1> QED
  BY <1>2 DEF Prepends

LEMMA PrependsBetween ==
    ASSUME NEW n \in Nat, NEW sizes \in [1..n -> Nat], NEW t \in [0..n -> Nat],
           AddsUp(t, sizes, n), NEW g, IsBuffer(g[0]), PrependsEach(g, sizes, n)
    PROVE  \A k \in 0..n : \A i \in 0..k : Prepends(g[i], g[k], t[k] - t[i])
<1> DEFINE S == {k \in 0..n : IsBuffer(g[k]) /\ \A i \in 0..k : Prepends(g[i], g[k], t[k] - t[i])}
<1>1. 0 \in S
  <2>1. Prepends(g[0], g[0], 0) /\ t[0] - t[0] = 0
    BY PrependsNothing
  <2> QED
    BY <2>1
<1>2. ASSUME NEW k \in 1..n, k - 1 \in S
      PROVE  k \in S
  <2>1. t[k] = t[k - 1] + sizes[k] /\ sizes[k] \in Nat /\ t[k - 1] \in Nat /\ t[k] \in Nat
    BY DEF AddsUp
  <2>2. Prepends(g[k - 1], g[k], sizes[k])
    BY DEF PrependsEach
  <2>3. IsBuffer(g[k])
    BY <2>2 DEF Prepends
  <2>4. ASSUME NEW i \in 0..(k - 1)
        PROVE  Prepends(g[i], g[k], t[k] - t[i])
    <3>1. Prepends(g[i], g[k - 1], t[k - 1] - t[i])
      BY <1>2
    <3>2. IsBuffer(g[i])
      <4>1. i = 0 \/ i \in 1..n
        OBVIOUS
      <4>2. i \in 1..n => Prepends(g[i - 1], g[i], sizes[i])
        BY DEF PrependsEach
      <4> QED
        BY <4>1, <4>2 DEF Prepends
    <3>3. t[i] <= t[k - 1] /\ t[i] \in Nat
      <4>1. k - 1 \in 0..n /\ i \in 0..(k - 1)
        OBVIOUS
      <4>2. \A j \in 0..n : \A h \in 0..j : t[h] \in Nat /\ t[j] \in Nat /\ t[h] <= t[j]
        BY SumsMonotone
      <4> QED
        BY <4>1, <4>2
    <3>4. t[k - 1] - t[i] \in Nat /\ t[k] - t[i] = sizes[k] + (t[k - 1] - t[i])
      BY <2>1, <3>3
    <3> HIDE DEF S
    <3> DEFINE m == t[k - 1] - t[i]
    <3>5. Prepends(g[i], g[k], sizes[k] + m)
      <4>1. m \in Nat /\ Prepends(g[i], g[k - 1], m)
        BY <3>1, <3>4
      <4> HIDE DEF m
      <4> QED
        BY <2>1, <2>2, <3>2, <4>1, PrependsTwice
    <3> QED
      BY <3>4, <3>5
  <2>5. Prepends(g[k], g[k], t[k] - t[k])
    BY <2>1, <2>3, PrependsNothing
  <2>6. ASSUME NEW i \in 0..k
        PROVE  Prepends(g[i], g[k], t[k] - t[i])
    <3>1. i = k \/ i \in 0..(k - 1)
      OBVIOUS
    <3> QED
      BY <2>4, <2>5, <3>1
  <2>7. k \in 0..n
    OBVIOUS
  <2> QED
    BY ONLY <2>3, <2>6, <2>7
<1> HIDE DEF S
<1>3. \A k \in 0..n : k \in S
  BY <1>1, <1>2, UpTo
<1> QED
  BY <1>3 DEF S

LEMMA PrependsChain ==
    ASSUME NEW n \in Nat, NEW sizes \in [1..n -> Nat], NEW g, IsBuffer(g[0]), PrependsEach(g, sizes, n)
    PROVE  /\ Total(sizes) \in Nat /\ Prepends(g[0], g[n], Total(sizes))
           /\ g[n].ok => /\ \A i \in 0..n : g[i].ok
                         /\ Joins(Ahead(g[0], g[n]), PartsAhead(g, n))
           /\ HasRoomAhead(g[0], Total(sizes)) /\ TakesRoomAhead(g, sizes, n) => g[n].ok
<1>1. sizes \in Seq(Nat) /\ Len(sizes) = n
  OBVIOUS
<1>2. PICK t \in [0..n -> Nat] : Sums(t, sizes) /\ Total(sizes) = t[n]
  BY <1>1, TotalUnfolds
<1>3. t[0] = 0 /\ AddsUp(t, sizes, n) /\ \A i \in 1..n : t[i] = t[i - 1] + sizes[i]
  BY <1>1, <1>2 DEF Sums, AddsUp
<1>4. \A k \in 0..n : \A i \in 0..k : Prepends(g[i], g[k], t[k] - t[i])
  BY <1>3, PrependsBetween
<1>5. \A i \in 0..n : t[i] \in Nat /\ t[i] <= t[n]
  <2>1. \A j \in 0..n : \A h \in 0..j : t[h] \in Nat /\ t[j] \in Nat /\ t[h] <= t[j]
    BY <1>3, SumsMonotone
  <2>2. n \in 0..n
    OBVIOUS
  <2> QED
    BY <2>1, <2>2
<1>6. Total(sizes) \in Nat /\ Prepends(g[0], g[n], Total(sizes))
  <2>1. 0 \in 0..n /\ n \in 0..n /\ t[n] - t[0] = t[n]
    BY <1>3, <1>5
  <2> QED
    BY <1>2, <1>4, <2>1
<1>7. ASSUME g[n].ok
      PROVE  /\ \A i \in 0..n : g[i].ok
             /\ Joins(Ahead(g[0], g[n]), PartsAhead(g, n))
  <2>1. ASSUME NEW i \in 0..n
        PROVE  /\ g[i].ok /\ IsBuffer(g[i]) /\ g[i].at = g[0].at - t[i] /\ g[i].at \in Nat
               /\ g[i].at <= Len(g[n].mem) /\ Len(g[n].mem) = Len(g[i].mem)
               /\ \A j \in (g[i].at + 1)..Len(g[n].mem) : g[n].mem[j] = g[i].mem[j]
    <3>1. Prepends(g[i], g[n], t[n] - t[i]) /\ Prepends(g[0], g[i], t[i] - t[0]) /\ t[i] - t[0] = t[i]
      <4>1. n \in 0..n /\ i \in 0..n /\ 0 \in 0..i /\ t[i] - t[0] = t[i]
        BY <1>3, <1>5
      <4> QED
        BY <1>4, <4>1
    <3>2. /\ g[i].ok /\ IsBuffer(g[i]) /\ Len(g[n].mem) = Len(g[i].mem)
          /\ \A j \in (g[i].at + 1)..Len(g[i].mem) : g[n].mem[j] = g[i].mem[j]
      BY <1>7, <3>1 DEF Prepends
    <3>3. g[i].at = g[0].at - t[i]
      BY <3>1, <3>2 DEF Prepends
    <3>4. g[i].at \in Nat /\ g[i].at <= Len(g[i].mem)
      <4> DEFINE b == g[i]
      <4>1. IsBuffer(b) /\ b.ok
        BY <3>2
      <4> HIDE DEF b
      <4>2. b.at \in Nat /\ b.size \in Nat /\ b.at + b.size <= Len(b.mem) /\ Len(b.mem) \in Nat
        BY <4>1, BufferFacts
      <4>3. b.at <= Len(b.mem)
        BY ONLY <4>2
      <4> QED
        BY <4>2, <4>3 DEF b
    <3> QED
      BY <3>2, <3>3, <3>4
  <2> DEFINE e == Ahead(g[0], g[n])
             p == g[n].at
             parts == PartsAhead(g, n)
             o == [i \in 0..n |-> t[n] - t[n - i]]
  <2>2. p \in Nat /\ g[n].mem \in Seq(Cell) /\ p + t[n] <= Len(g[n].mem) /\ g[0].at = p + t[n]
        /\ g[0].at \in Nat
    <3>1. 0 \in 0..n /\ n \in 0..n /\ t[n] \in Nat
      BY <1>5
    <3>2. g[n].at = g[0].at - t[n] /\ g[n].at \in Nat /\ g[0].at \in Nat /\ g[0].at <= Len(g[n].mem)
          /\ IsBuffer(g[n])
      BY <2>1, <3>1
    <3>3. g[n].mem \in Seq(Cell)
      BY <3>2, BufferFacts
    <3> DEFINE x == g[n].at
               y == g[0].at
               z == t[n]
    <3>4. x = y - z /\ x \in Nat /\ y \in Nat /\ z \in Nat /\ y <= Len(g[n].mem)
      BY <3>1, <3>2
    <3> HIDE DEF x, y, z
    <3>5. y = x + z /\ x + z <= Len(g[n].mem)
      BY ONLY <3>4
    <3> QED
      BY <3>3, <3>4, <3>5 DEF x, y, z
  <2>3. e = SubSeq(g[n].mem, p + 1, p + t[n])
    BY <2>2 DEF Ahead
  <2>4. parts = [i \in 1..n |-> SubSeq(g[n + 1 - i].mem, g[n + 1 - i].at + 1, g[n - i].at)]
    BY DEF PartsAhead, Ahead
  <2>5. Len(parts) = n
    BY <2>4
  <2>6. \A i \in 0..n : o[i] \in Nat /\ o[i] <= t[n] /\ o[i] = t[n] - t[n - i]
    <3>1. \A i \in 0..n : n - i \in 0..n
      OBVIOUS
    <3> QED
      BY <1>5, <3>1
  <2>7. o \in [0..n -> Nat] /\ o[0] = 0 /\ o[n] = t[n]
    <3>1. 0 \in 0..n /\ n \in 0..n /\ n - 0 = n /\ n - n = 0 /\ t[n] \in Nat
      BY <1>5
    <3>2. o[0] = 0 /\ o[n] = t[n]
      BY <1>3, <3>1
    <3>3. \A i \in 0..n : o[i] \in Nat
      BY <2>6
    <3> QED
      BY ONLY <3>2, <3>3 DEF o
  <2> HIDE DEF e, p, parts, o
  <2>8. Len(e) = t[n]
    BY <1>5, <2>2, <2>3
  <2>9. ASSUME NEW i \in 1..n
        PROVE  o[i - 1] <= o[i] /\ o[i] <= t[n] /\ SubSeq(e, o[i - 1] + 1, o[i]) = parts[i]
    <3> DEFINE k == n + 1 - i
               u == o[i - 1]
               z == o[i]
               q == p + t[n]
               s == g[n].mem
    <3>1. i \in 0..n /\ i - 1 \in 0..n /\ k \in 1..n /\ k \in 0..n /\ k - 1 \in 0..n /\ n - i = k - 1
          /\ n - (i - 1) = k
      OBVIOUS
    <3>2. t[k] = t[k - 1] + sizes[k] /\ sizes[k] \in Nat /\ t[k] \in Nat /\ t[k - 1] \in Nat /\ t[n] \in Nat
          /\ t[k] <= t[n] /\ t[k - 1] <= t[n]
      BY <1>3, <1>5, <3>1
    <3>3. u = t[n] - t[k] /\ z = t[n] - t[k - 1] /\ u \in Nat /\ z \in Nat
      BY <2>6, <3>1
    <3> HIDE DEF u, z, k
    <3>4. u <= z /\ z <= t[n]
      BY <3>2, <3>3, SMTT(30)
    <3>5. q \in Nat /\ p + z <= q /\ q <= Len(s) /\ s \in Seq(Cell) /\ p \in Nat /\ e = SubSeq(s, p + 1, q)
      <4>1. p \in Nat /\ t[n] \in Nat /\ z \in Nat /\ z <= t[n]
        BY <2>2, <3>2, <3>3, <3>4
      <4>2. p + t[n] \in Nat /\ p + z <= p + t[n]
        BY ONLY <4>1
      <4> QED
        BY <2>2, <2>3, <4>1, <4>2
    <3>6. g[k].at = p + u /\ g[k - 1].at = p + z /\ p + u \in Nat /\ p + z \in Nat
      <4>1. g[k].at = g[0].at - t[k] /\ g[k - 1].at = g[0].at - t[k - 1]
        BY <2>1, <3>1
      <4> DEFINE a == t[k]
                 c == t[k - 1]
                 d == t[n]
      <4>2. g[0].at = p + d /\ p \in Nat /\ a \in Nat /\ c \in Nat /\ d \in Nat /\ u = d - a /\ z = d - c
            /\ u \in Nat /\ z \in Nat
        BY <2>2, <3>2, <3>3
      <4>3. g[k].at = (p + d) - a /\ g[k - 1].at = (p + d) - c
        BY <4>1, <4>2
      <4> HIDE DEF a, c, d
      <4>4. (p + d) - a = p + u /\ (p + d) - c = p + z /\ p + u \in Nat /\ p + z \in Nat
        BY ONLY <4>2
      <4> QED
        BY <4>3, <4>4
    <3>7. g[k].mem \in Seq(Cell) /\ Len(s) = Len(g[k].mem)
          /\ \A j \in (p + u + 1)..Len(s) : s[j] = g[k].mem[j]
      <4>1. IsBuffer(g[k]) /\ Len(s) = Len(g[k].mem)
            /\ \A j \in (g[k].at + 1)..Len(s) : s[j] = g[k].mem[j]
        BY <2>1, <3>1
      <4>2. g[k].mem \in Seq(Cell)
        BY <4>1, BufferFacts
      <4> QED
        BY <3>6, <4>1, <4>2
    <3>8. parts[i] = SubSeq(g[k].mem, p + u + 1, p + z)
      <4>1. parts[i] = SubSeq(g[k].mem, g[k].at + 1, g[k - 1].at)
        BY <2>4, <3>1 DEF k
      <4> QED
        BY <3>6, <4>1
    <3> HIDE DEF k, u, z, q, s
    <3>9. SubSeq(e, u + 1, z) = SubSeq(s, p + u + 1, p + z)
      <4>1. SubSeq(SubSeq(s, p + 1, q), u + 1, z) = SubSeq(s, p + u + 1, p + z)
        <5>1. u \in Nat /\ z \in Nat /\ u <= z /\ p + z <= q /\ p \in Nat /\ q \in Nat /\ q <= Len(s)
              /\ s \in Seq(Cell)
          BY ONLY <3>3, <3>4, <3>5
        <5> QED
          BY ONLY <5>1, SliceOfSlice
      <4> QED
        BY <3>5, <4>1
    <3>10. SubSeq(s, p + u + 1, p + z) = SubSeq(g[k].mem, p + u + 1, p + z)
      <4> DEFINE x == p + u
                 y == p + z
      <4>1. x \in Nat /\ y \in Nat /\ y <= Len(s) /\ y <= Len(g[k].mem) /\ Len(s) \in Nat
            /\ s \in Seq(Cell) /\ g[k].mem \in Seq(Cell)
        BY <3>5, <3>6, <3>7
      <4>2. \A j \in (x + 1)..Len(s) : s[j] = g[k].mem[j]
        BY <3>7
      <4> HIDE DEF x, y
      <4>3. \A j \in (x + 1)..y : s[j] = g[k].mem[j]
        BY <4>1, <4>2
      <4>4. SubSeq(s, x + 1, y) = SubSeq(g[k].mem, x + 1, y)
        BY <4>1, <4>3, SlicesAgree
      <4> QED
        BY <4>4 DEF x, y
    <3> QED
      BY <3>4, <3>8, <3>9, <3>10 DEF u, z
  <2>10. Joins(e, parts)
    BY <2>5, <2>7, <2>8, <2>9 DEF Joins
  <2> QED
    BY <2>1, <2>10 DEF e, parts
<1>8. ASSUME HasRoomAhead(g[0], Total(sizes)), TakesRoomAhead(g, sizes, n)
      PROVE  g[n].ok
  <2> DEFINE S == {i \in 0..n : g[i].ok}
  <2>1. 0 \in S
    BY <1>8 DEF HasRoomAhead
  <2>2. ASSUME NEW i \in 1..n, i - 1 \in S
        PROVE  i \in S
    <3>1. Prepends(g[0], g[i - 1], t[i - 1]) /\ g[i - 1].ok
      <4>1. i - 1 \in 0..n /\ 0 \in 0..(i - 1) /\ t[i - 1] - t[0] = t[i - 1]
        BY <1>3, <1>5
      <4> QED
        BY <1>4, <2>2, <4>1
    <3>2. sizes[i] <= g[i - 1].at
      <4>1. g[i - 1].at = g[0].at - t[i - 1]
        BY <3>1 DEF Prepends
      <4>2. g[0].at \in Nat
        BY BufferFacts
      <4>3. t[i] = t[i - 1] + sizes[i] /\ t[i] <= t[n] /\ t[i] \in Nat /\ t[i - 1] \in Nat /\ sizes[i] \in Nat
            /\ t[n] \in Nat
        BY <1>3, <1>5
      <4>4. t[n] <= g[0].at
        BY <1>2, <1>8 DEF HasRoomAhead
      <4> QED
        BY <4>1, <4>2, <4>3, <4>4
    <3>3. HasRoomAhead(g[i - 1], sizes[i])
      BY <3>1, <3>2 DEF HasRoomAhead
    <3> QED
      BY <1>8, <3>3 DEF TakesRoomAhead
  <2> HIDE DEF S
  <2>3. \A i \in 0..n : i \in S
    BY <2>1, <2>2, UpTo
  <2> QED
    BY <2>3 DEF S
<1> QED
  BY <1>6, <1>7, <1>8

-----------------------------------------------------------------------------
(* What is written *)

Writes(b, c, e) ==
    /\ Appends(b, c, Len(e))
    /\ HasRoom(b, Len(e)) => c.ok
    /\ c.ok => Added(b, c) = e
WritesAhead(b, c, e) ==
    /\ Prepends(b, c, Len(e))
    /\ HasRoomAhead(b, Len(e)) => c.ok
    /\ c.ok => Ahead(b, c) = e

LEMMA Widths == CountBytes \in Nat \ {0} /\ SizeBytes \in Nat \ {0} /\ WordBytes \in Nat \ {0}
BY WidthsAssumption

LEMMA CharsAreCells == ASSUME NEW e \in Seq(Char) PROVE e \in Seq(Cell) /\ e \in Seq(Int)
<1>1. Char \subseteq Cell /\ Char \subseteq Int
  BY CellFacts
<1> QED
  BY <1>1, SeqMonotonic

LEMMA BytesWritten ==
    ASSUME NEW b, IsBuffer(b), NEW bytes \in Seq(Cell)
    PROVE  Writes(b, AppendBytes(b, bytes), bytes)
BY BytesAppend DEF Writes

LEMMA BytesWrittenAhead ==
    ASSUME NEW b, IsBuffer(b), NEW bytes \in Seq(Cell)
    PROVE  WritesAhead(b, PrependBytes(b, bytes), bytes)
BY BytesPrepend DEF WritesAhead

\* One thing behind another.
LEMMA WritesTwice ==
    ASSUME NEW b, IsBuffer(b), NEW c, NEW d, NEW e \in Seq(Cell), NEW f \in Seq(Cell),
           Writes(b, c, e), Writes(c, d, f)
    PROVE  Writes(b, d, e \o f)
<1>1. Len(e) \in Nat /\ Len(f) \in Nat /\ Len(e \o f) = Len(e) + Len(f)
  OBVIOUS
<1>2. Appends(b, c, Len(e)) /\ Appends(c, d, Len(f))
  BY DEF Writes
<1>3. /\ Appends(b, d, Len(e) + Len(f))
      /\ d.ok => Added(b, d) = Added(b, c) \o Added(c, d)
      /\ HasRoom(b, Len(e) + Len(f)) => HasRoom(b, Len(e)) /\ (c.ok => HasRoom(c, Len(f)))
  BY <1>1, <1>2, AppendsTwice
<1>4. d.ok => c.ok
  BY <1>2 DEF Appends
<1> QED
  BY <1>1, <1>3, <1>4 DEF Writes

LEMMA WritesAheadTwice ==
    ASSUME NEW b, IsBuffer(b), NEW c, NEW d, NEW e \in Seq(Cell), NEW f \in Seq(Cell),
           WritesAhead(b, c, f), WritesAhead(c, d, e)
    PROVE  WritesAhead(b, d, e \o f)
<1>1. Len(e) \in Nat /\ Len(f) \in Nat /\ Len(e \o f) = Len(e) + Len(f)
  OBVIOUS
<1>2. Prepends(b, c, Len(f)) /\ Prepends(c, d, Len(e))
  BY DEF WritesAhead
<1>3. /\ Prepends(b, d, Len(e) + Len(f))
      /\ d.ok => Ahead(b, d) = Ahead(c, d) \o Ahead(b, c)
      /\ HasRoomAhead(b, Len(e) + Len(f)) => HasRoomAhead(b, Len(f)) /\ (c.ok => HasRoomAhead(c, Len(e)))
  BY <1>1, <1>2, PrependsTwice
<1>4. d.ok => c.ok
  BY <1>2 DEF Prepends
<1> QED
  BY <1>1, <1>3, <1>4 DEF WritesAhead

-----------------------------------------------------------------------------
(* Elements *)

StringBytes(chars) == Encoded(Len(chars) + 1, CountBytes) \o chars \o <<0>>
BufferBytes(bytes) == Encoded(Len(bytes), SizeBytes) \o bytes
ElementBytes(of, item) ==
    CASE of = "number" -> Encoded(item[1], WordBytes)
      [] of \in {"string", "view"} -> StringBytes(item)
      [] of = "buffer" -> BufferBytes(item)

LEMMA StringBytesFacts ==
    ASSUME NEW chars \in Seq(Char)
    PROVE  /\ StringBytes(chars) \in Seq(Char) /\ Len(StringBytes(chars)) = SizeOfString(chars)
           /\ SizeOfString(chars) \in Nat
<1>1. Len(chars) + 1 \in Int /\ Len(chars) \in Nat /\ CountBytes \in Nat
  BY Widths
<1>2. Encoded(Len(chars) + 1, CountBytes) \in Seq(Char) /\ Len(Encoded(Len(chars) + 1, CountBytes)) = CountBytes
  BY <1>1, EncodedType
<1>3. 0 \in Char
  BY DEF Char, Base
<1>4. <<0>> \in Seq(Char) /\ Len(<<0>>) = 1
  BY <1>3
<1> DEFINE e == Encoded(Len(chars) + 1, CountBytes)
<1> HIDE DEF e
<1>5. (e \o chars) \o <<0>> \in Seq(Char) /\ Len((e \o chars) \o <<0>>) = CountBytes + Len(chars) + 1
  BY <1>1, <1>2, <1>4 DEF e
<1> QED
  BY <1>1, <1>5 DEF StringBytes, SizeOfString, e

LEMMA BufferBytesFacts ==
    ASSUME NEW bytes \in Seq(Char)
    PROVE  /\ BufferBytes(bytes) \in Seq(Char) /\ Len(BufferBytes(bytes)) = SizeOfBuffer(bytes)
           /\ SizeOfBuffer(bytes) \in Nat
<1>1. Len(bytes) \in Nat /\ SizeBytes \in Nat
  BY Widths
<1>2. Encoded(Len(bytes), SizeBytes) \in Seq(Char) /\ Len(Encoded(Len(bytes), SizeBytes)) = SizeBytes
  BY <1>1, EncodedType
<1> QED
  BY <1>1, <1>2 DEF BufferBytes, SizeOfBuffer

LEMMA ElementBytesFacts ==
    ASSUME NEW of, NEW item, IsElement(of, item)
    PROVE  /\ ElementBytes(of, item) \in Seq(Char)
           /\ Len(ElementBytes(of, item)) = SizeOfElement(of, item)
           /\ SizeOfElement(of, item) \in Nat
<1>1. CASE of = "number" /\ IsNumber(item, WordBytes)
  <2>1. item[1] \in Int
    BY <1>1 DEF IsNumber, InWidth
  <2>2. ElementBytes(of, item) = Encoded(item[1], WordBytes) /\ SizeOfElement(of, item) = WordBytes
    BY <1>1 DEF ElementBytes, SizeOfElement
  <2> QED
    BY <2>1, <2>2, EncodedType, Widths
<1>2. CASE of \in {"string", "view"} /\ IsCounted(item)
  <2>1. item \in Seq(Char)
    BY <1>2 DEF IsCounted
  <2>2. ElementBytes(of, item) = StringBytes(item) /\ SizeOfElement(of, item) = SizeOfString(item)
    BY <1>2 DEF ElementBytes, SizeOfElement
  <2> QED
    BY <2>1, <2>2, StringBytesFacts
<1>3. CASE of = "buffer" /\ IsSized(item)
  <2>1. item \in Seq(Char)
    BY <1>3 DEF IsSized
  <2>2. ElementBytes(of, item) = BufferBytes(item) /\ SizeOfElement(of, item) = SizeOfBuffer(item)
    BY <1>3 DEF ElementBytes, SizeOfElement
  <2> QED
    BY <2>1, <2>2, BufferBytesFacts
<1> QED
  BY <1>1, <1>2, <1>3 DEF IsElement

LEMMA ElementWritten ==
    ASSUME NEW b, IsBuffer(b), NEW of, NEW item, IsElement(of, item)
    PROVE  Writes(b, AppendElement(b, of, item), ElementBytes(of, item))
<1>1. AppendElement(b, of, item) = AppendBytes(b, ElementBytes(of, item))
  <2>1. of \in {"number", "string", "view", "buffer"}
    BY DEF IsElement
  <2> QED
    BY <2>1 DEF AppendElement, ElementBytes, AppendGeneral, AppendString, AppendBuffer,
                StringBytes, BufferBytes
<1>2. ElementBytes(of, item) \in Seq(Cell)
  BY ElementBytesFacts, CharsAreCells
<1> QED
  BY <1>1, <1>2, BytesWritten

LEMMA EncodedZero == Encoded(0, 1) = <<0>>
<1>1. Base \in Nat \ {0} /\ 0 % Base = 0
  BY DEF Base
<1>2. Shifted(0, Base, 0) = 0
  BY <1>1, ShiftedSteps
<1>3. Encoded(0, 1) = [i \in 1..1 |-> 0]
  <2>1. \A i \in 1..1 : i - 1 = 0
    OBVIOUS
  <2> QED
    BY <1>1, <1>2, <2>1 DEF Encoded
<1>4. [i \in 1..1 |-> 0] = <<0>>
  OBVIOUS
<1> QED
  BY <1>3, <1>4, Zenon

LEMMA StringWrittenAhead ==
    ASSUME NEW b, IsBuffer(b), NEW chars \in Seq(Char)
    PROVE  WritesAhead(b, PrependString(b, chars), StringBytes(chars))
<1>1. Len(chars) \in Nat /\ CountBytes \in Nat /\ b \in Buffers /\ b.at \in Nat /\ b.size \in Int
      /\ b.mem \in Seq(Cell) /\ End(b) = b.at + b.size /\ End(b) <= Len(b.mem)
  BY Widths, BufferFacts DEF IsBuffer
<1> DEFINE count == Encoded(Len(chars) + 1, CountBytes)
           b1 == PrependGeneral(b, 0, 1)
           b2 == PrependBytes(b1, chars)
           b3 == PrependCount(b2, Len(chars) + 1)
<1>2. chars \in Seq(Cell) /\ <<0>> \in Seq(Cell) /\ count \in Seq(Cell) /\ Len(count) = CountBytes
      /\ StringBytes(chars) \in Seq(Cell) /\ Len(StringBytes(chars)) = CountBytes + Len(chars) + 1
  <2>1. chars \in Seq(Cell) /\ StringBytes(chars) \in Seq(Cell)
    BY CharsAreCells, StringBytesFacts
  <2>2. 0 \in Cell
    BY DEF Cell, Base
  <2>3. Len(chars) + 1 \in Int
    BY <1>1
  <2>4. count \in Seq(Char) /\ Len(count) = CountBytes
    BY <1>1, <2>3, EncodedType
  <2>5. count \in Seq(Cell)
    BY <2>4, CharsAreCells
  <2> QED
    BY <2>1, <2>2, <2>4, <2>5, StringBytesFacts DEF SizeOfString
<1>3. CASE b.at < Len(chars) + CountBytes
  <2> DEFINE c == PrependString(b, chars)
  <2>1. c = [mem |-> b.mem, at |-> b.at, size |-> b.size, ok |-> FALSE]
    BY <1>1, <1>3 DEF PrependString, Buffers
  <2> HIDE DEF c
  <2>2. c \in Buffers /\ End(c) = End(b) /\ c.mem = b.mem /\ ~c.ok
    BY <1>1, <2>1 DEF Buffers, End
  <2>3. Prepends(b, c, Len(StringBytes(chars)))
    BY <1>1, <2>2 DEF Prepends, IsBuffer
  <2>4. ~HasRoomAhead(b, Len(StringBytes(chars)))
    BY <1>1, <1>2, <1>3 DEF HasRoomAhead
  <2> QED
    BY <2>2, <2>3, <2>4 DEF WritesAhead, c
<1>4. CASE ~(b.at < Len(chars) + CountBytes)
  <2>1. WritesAhead(b, b1, <<0>>)
    BY <1>2, BytesWrittenAhead, EncodedZero DEF PrependGeneral
  <2>2. IsBuffer(b1)
    BY <2>1 DEF WritesAhead, Prepends
  <2> HIDE DEF b1
  <2>3. WritesAhead(b1, b2, chars)
    BY <1>2, <2>2, BytesWrittenAhead
  <2>4. IsBuffer(b2)
    BY <2>3 DEF WritesAhead, Prepends
  <2> HIDE DEF b2
  <2>5. WritesAhead(b2, b3, count)
    BY <1>2, <2>4, BytesWrittenAhead DEF PrependCount, PrependGeneral
  <2> HIDE DEF b3, count
  <2> DEFINE zero == <<0>>
  <2>5a. zero \in Seq(Cell) /\ WritesAhead(b, b1, zero) /\ chars \in Seq(Cell)
    BY <1>2, <2>1
  <2> HIDE DEF zero
  <2>5b. WritesAhead(b, b2, chars \o zero)
    BY <2>3, <2>5a, WritesAheadTwice
  <2>5c. chars \o zero \in Seq(Cell)
    BY <2>5a
  <2>6. WritesAhead(b, b2, chars \o <<0>>) /\ chars \o <<0>> \in Seq(Cell)
    BY <2>5b, <2>5c DEF zero
  <2>7. WritesAhead(b, b3, count \o (chars \o <<0>>))
    BY <1>2, <2>5, <2>6, WritesAheadTwice
  <2>8. count \o (chars \o <<0>>) = StringBytes(chars)
    BY <1>2, ConcatAssociative DEF StringBytes, count
  <2>9. PrependString(b, chars) = b3
    BY <1>4 DEF PrependString, b1, b2, b3
  <2> QED
    BY <2>7, <2>8, <2>9
<1> QED
  BY <1>3, <1>4

LEMMA ElementWrittenAhead ==
    ASSUME NEW b, IsBuffer(b), NEW of, NEW item, IsElement(of, item), of # "buffer"
    PROVE  WritesAhead(b, PrependElement(b, of, item), ElementBytes(of, item))
<1>1. CASE of = "number"
  <2>1. PrependElement(b, of, item) = PrependBytes(b, ElementBytes(of, item))
    BY <1>1 DEF PrependElement, ElementBytes, PrependGeneral
  <2>2. ElementBytes(of, item) \in Seq(Cell)
    BY ElementBytesFacts, CharsAreCells
  <2> QED
    BY <2>1, <2>2, BytesWrittenAhead
<1>2. CASE of \in {"string", "view"}
  <2>1. item \in Seq(Char)
    BY <1>2 DEF IsElement, IsCounted
  <2>2. PrependElement(b, of, item) = PrependString(b, item) /\ ElementBytes(of, item) = StringBytes(item)
    BY <1>2 DEF PrependElement, ElementBytes
  <2> QED
    BY <2>1, <2>2, StringWrittenAhead
<1> QED
  BY <1>1, <1>2 DEF IsElement

-----------------------------------------------------------------------------
(* Containers *)

WritesParts(b, c, n, parts) ==
    /\ Appends(b, c, n)
    /\ HasRoom(b, n) => c.ok
    /\ c.ok => Joins(Added(b, c), parts)
WritesPartsAhead(b, c, n, parts) ==
    /\ Prepends(b, c, n)
    /\ HasRoomAhead(b, n) => c.ok
    /\ c.ok => Joins(Ahead(b, c), parts)

Lengths(parts) == [i \in DOMAIN parts |-> Len(parts[i])]
EachWrites(g, parts) == \A i \in 1..Len(parts) : Writes(g[i - 1], g[i], parts[i])
EachWritesAhead(g, parts) == \A i \in 1..Len(parts) : WritesAhead(g[i - 1], g[i], parts[i])

LEMMA PartsWritten ==
    ASSUME NEW parts \in Seq(Seq(Cell)), NEW g, IsBuffer(g[0]), EachWrites(g, parts)
    PROVE  /\ Total(Lengths(parts)) \in Nat
           /\ WritesParts(g[0], g[Len(parts)], Total(Lengths(parts)), parts)
<1> DEFINE n == Len(parts)
           sizes == Lengths(parts)
<1>1. n \in Nat /\ DOMAIN parts = 1..n /\ \A i \in 1..n : parts[i] \in Seq(Cell) /\ Len(parts[i]) \in Nat
  OBVIOUS
<1>2. sizes \in [1..n -> Nat] /\ \A i \in 1..n : sizes[i] = Len(parts[i])
  BY <1>1 DEF Lengths
<1>3. \A i \in 1..n : Writes(g[i - 1], g[i], parts[i])
  BY DEF EachWrites
<1> HIDE DEF n, sizes
<1>4. AppendsEach(g, sizes, n) /\ TakesRoom(g, sizes, n)
  BY <1>1, <1>2, <1>3 DEF AppendsEach, TakesRoom, Writes
<1>5. /\ Total(sizes) \in Nat /\ Appends(g[0], g[n], Total(sizes))
      /\ g[n].ok => /\ \A i \in 0..n : g[i].ok
                    /\ Joins(Added(g[0], g[n]), PartsAdded(g, n))
      /\ HasRoom(g[0], Total(sizes)) => g[n].ok
  BY <1>1, <1>2, <1>4, AppendsChain
<1>6. ASSUME g[n].ok PROVE PartsAdded(g, n) = parts
  <2>1. \A i \in 1..n : g[i].ok
    BY <1>5, <1>6
  <2>2. \A i \in 1..n : Added(g[i - 1], g[i]) = parts[i]
    BY <1>3, <2>1 DEF Writes
  <2>3. parts = [i \in 1..n |-> parts[i]]
    BY <1>1
  <2> QED
    BY <2>2, <2>3 DEF PartsAdded
<1> QED
  BY <1>5, <1>6 DEF WritesParts, n, sizes

\* Prepended, the first part is written last.
LEMMA PartsWrittenAhead ==
    ASSUME NEW parts \in Seq(Seq(Cell)), NEW g, IsBuffer(g[0]), EachWritesAhead(g, parts)
    PROVE  /\ Total(Lengths(parts)) \in Nat
           /\ WritesPartsAhead(g[0], g[Len(parts)], Total(Lengths(parts)), Reverse(parts))
<1> DEFINE n == Len(parts)
           sizes == Lengths(parts)
<1>1. n \in Nat /\ DOMAIN parts = 1..n /\ \A i \in 1..n : parts[i] \in Seq(Cell) /\ Len(parts[i]) \in Nat
  OBVIOUS
<1>2. sizes \in [1..n -> Nat] /\ \A i \in 1..n : sizes[i] = Len(parts[i])
  BY <1>1 DEF Lengths
<1>3. \A i \in 1..n : WritesAhead(g[i - 1], g[i], parts[i])
  BY DEF EachWritesAhead
<1>3a. Reverse(parts) = [i \in 1..n |-> parts[n + 1 - i]]
  <2>1. \A i \in 1..n : (n - i) + 1 = n + 1 - i
    BY <1>1
  <2> QED
    BY <2>1 DEF Reverse
<1> HIDE DEF n, sizes
<1>4. PrependsEach(g, sizes, n) /\ TakesRoomAhead(g, sizes, n)
  BY <1>1, <1>2, <1>3 DEF PrependsEach, TakesRoomAhead, WritesAhead
<1>5. /\ Total(sizes) \in Nat /\ Prepends(g[0], g[n], Total(sizes))
      /\ g[n].ok => /\ \A i \in 0..n : g[i].ok
                    /\ Joins(Ahead(g[0], g[n]), PartsAhead(g, n))
      /\ HasRoomAhead(g[0], Total(sizes)) => g[n].ok
  BY <1>1, <1>2, <1>4, PrependsChain
<1>6. ASSUME g[n].ok PROVE PartsAhead(g, n) = Reverse(parts)
  <2>1. \A i \in 1..n : g[i].ok
    BY <1>5, <1>6
  <2>2. \A i \in 1..n : Ahead(g[i - 1], g[i]) = parts[i]
    BY <1>3, <2>1 DEF WritesAhead
  <2>3. \A i \in 1..n : n + 1 - i \in 1..n /\ (n + 1 - i) - 1 = n - i
    BY <1>1
  <2>4. \A i \in 1..n : Ahead(g[n - i], g[n + 1 - i]) = parts[n + 1 - i]
    BY <2>2, <2>3
  <2> QED
    BY <1>3a, <2>4 DEF PartsAhead
<1> QED
  BY <1>5, <1>6 DEF WritesPartsAhead, n, sizes

ElementParts(of, items) == [i \in DOMAIN items |-> ElementBytes(of, items[i])]
AreElements(of, items) == IsSeq(items) /\ \A i \in DOMAIN items : IsElement(of, items[i])

LEMMA SeqFacts ==
    ASSUME NEW s, IsSeq(s)
    PROVE  Len(s) \in Nat /\ DOMAIN s = 1..Len(s) /\ s \in Seq(ToSet(s))
BY LenProperties DEF IsSeq

LEMMA ElementPartsFacts ==
    ASSUME NEW of, NEW items, AreElements(of, items)
    PROVE  /\ ElementParts(of, items) \in Seq(Seq(Cell)) /\ Len(ElementParts(of, items)) = Len(items)
           /\ Len(items) \in Nat /\ DOMAIN items = 1..Len(items)
           /\ \A i \in 1..Len(items) : /\ IsElement(of, items[i])
                                       /\ ElementParts(of, items)[i] = ElementBytes(of, items[i])
           /\ Lengths(ElementParts(of, items)) = [i \in DOMAIN items |-> SizeOfElement(of, items[i])]
<1> DEFINE n == Len(items)
           parts == ElementParts(of, items)
<1>1. n \in Nat /\ DOMAIN items = 1..n
  BY SeqFacts DEF AreElements
<1>2. \A i \in 1..n : IsElement(of, items[i])
  BY <1>1 DEF AreElements
<1>3. \A i \in 1..n : /\ SizeOfElement(of, items[i]) = Len(ElementBytes(of, items[i]))
                      /\ ElementBytes(of, items[i]) \in Seq(Cell)
  <2> SUFFICES ASSUME NEW i \in 1..n
               PROVE  /\ SizeOfElement(of, items[i]) = Len(ElementBytes(of, items[i]))
                      /\ ElementBytes(of, items[i]) \in Seq(Cell)
    OBVIOUS
  <2> QED
    BY <1>2, ElementBytesFacts, CharsAreCells
<1>4. parts = [i \in 1..n |-> ElementBytes(of, items[i])]
  BY <1>1 DEF ElementParts
<1>5. parts \in Seq(Seq(Cell)) /\ Len(parts) = n /\ DOMAIN parts = 1..n
  <2>1. parts \in [1..n -> Seq(Cell)]
    BY <1>3, <1>4
  <2> QED
    BY <1>1, <1>4, <2>1
<1>6. Lengths(parts) = [i \in 1..n |-> SizeOfElement(of, items[i])]
  BY <1>3, <1>4, <1>5 DEF Lengths
<1> QED
  BY <1>1, <1>2, <1>4, <1>5, <1>6

ElementsAppended(g, of, items) == \A i \in 1..Len(items) : g[i] = AppendElement(g[i - 1], of, items[i])

LEMMA AppendElementsUnfolds ==
    ASSUME NEW b, IsBuffer(b), NEW of, NEW items, AreElements(of, items)
    PROVE  \E g \in [0..Len(items) -> Bufs] :
               /\ g[0] = b /\ ElementsAppended(g, of, items)
               /\ AppendElements(b, of, items) = g[Len(items)]
<1> DEFINE n == Len(items)
           rule == [p \in (1..n) \X Bufs |-> AppendElement(p[2], of, items[p[1]])]
           F(h) == [i \in 0..n |-> IF i = 0 THEN b ELSE AppendElement(h[i - 1], of, items[i])]
           f == CHOOSE h : h = F(h)
<1>0. n \in Nat /\ \A i \in 1..n : IsElement(of, items[i])
  BY ElementPartsFacts
<1> HIDE DEF n
<1>1. \A i \in 1..n : \A x \in Bufs : /\ rule[<<i, x>>] = AppendElement(x, of, items[i])
                                      /\ AppendElement(x, of, items[i]) \in Bufs
  <2> SUFFICES ASSUME NEW i \in 1..n, NEW x \in Bufs
               PROVE  /\ rule[<<i, x>>] = AppendElement(x, of, items[i])
                      /\ AppendElement(x, of, items[i]) \in Bufs
    OBVIOUS
  <2>1. IsBuffer(x)
    BY DEF Bufs
  <2>2. Writes(x, AppendElement(x, of, items[i]), ElementBytes(of, items[i]))
    BY <1>0, <2>1, ElementWritten
  <2>3. IsBuffer(AppendElement(x, of, items[i]))
    BY <2>2 DEF Writes, Appends
  <2> QED
    BY <2>3, BufferFacts
<1> HIDE DEF rule
<1>2. PICK g \in [0..n -> Bufs] : Recurs(g, b, rule, n)
  <2>1. StepsWithin(rule, Bufs, n)
    BY <1>1 DEF StepsWithin
  <2>2. b \in Bufs
    BY BufferFacts
  <2> QED
    BY <1>0, <2>1, <2>2, RecursionExists
<1>3. g[0] = b /\ \A i \in 1..n : g[i] = AppendElement(g[i - 1], of, items[i])
  <2>1. \A i \in 1..n : g[i - 1] \in Bufs
    BY <1>0, <1>2
  <2> QED
    BY <1>1, <1>2, <2>1 DEF Recurs
<1>4. g = F(g)
  BY <1>2, <1>3
<1>5. f = F(f)
  BY <1>4
<1>6. AppendElements(b, of, items) = f[n]
  BY DEF AppendElements, n
<1> HIDE DEF f
<1>7. f[0] = b /\ \A i \in 1..n : f[i] = AppendElement(f[i - 1], of, items[i])
  BY <1>0, <1>5
<1>8. \A i \in 0..n : f[i] = g[i]
  <2>1. SameRule(f, g, n)
    BY <1>3, <1>7, Zenon DEF SameRule
  <2> QED
    BY <1>0, <2>1, RecursionUnique
<1>9. f[n] = g[n]
  BY <1>0, <1>8
<1> QED
  BY <1>2, <1>3, <1>6, <1>9 DEF ElementsAppended, n

LEMMA ElementsWritten ==
    ASSUME NEW b, IsBuffer(b), NEW of, NEW items, AreElements(of, items)
    PROVE  /\ Total(Lengths(ElementParts(of, items))) \in Nat
           /\ WritesParts(b, AppendElements(b, of, items), Total(Lengths(ElementParts(of, items))),
                          ElementParts(of, items))
<1> DEFINE n == Len(items)
           parts == ElementParts(of, items)
<1>1. /\ n \in Nat /\ parts \in Seq(Seq(Cell)) /\ Len(parts) = n
      /\ \A i \in 1..n : IsElement(of, items[i]) /\ parts[i] = ElementBytes(of, items[i])
  BY ElementPartsFacts
<1> HIDE DEF n, parts
<1>2. PICK g \in [0..n -> Bufs] : g[0] = b /\ ElementsAppended(g, of, items)
                                  /\ AppendElements(b, of, items) = g[n]
  BY AppendElementsUnfolds DEF n
<1>3. ASSUME NEW i \in 1..n
      PROVE  Writes(g[i - 1], g[i], parts[i])
  <2>1. g[i - 1] \in Bufs
    BY <1>1
  <2>2. IsBuffer(g[i - 1])
    BY <2>1 DEF Bufs
  <2>3. g[i] = AppendElement(g[i - 1], of, items[i])
    BY <1>2 DEF ElementsAppended, n
  <2> QED
    BY <1>1, <2>2, <2>3, ElementWritten
<1>4. EachWrites(g, parts)
  BY <1>1, <1>3 DEF EachWrites
<1> QED
  BY <1>1, <1>2, <1>4, PartsWritten DEF n, parts

ElementsPrepended(g, of, items) == \A i \in 1..Len(items) : g[i] = PrependElement(g[i - 1], of, items[i])

LEMMA PrependElementsUnfolds ==
    ASSUME NEW b, IsBuffer(b), NEW of, NEW items, AreElements(of, items), of # "buffer"
    PROVE  \E g \in [0..Len(items) -> Bufs] :
               /\ g[0] = b /\ ElementsPrepended(g, of, items)
               /\ PrependElements(b, of, items) = g[Len(items)]
<1> DEFINE n == Len(items)
           rule == [p \in (1..n) \X Bufs |-> PrependElement(p[2], of, items[p[1]])]
           F(h) == [i \in 0..n |-> IF i = 0 THEN b ELSE PrependElement(h[i - 1], of, items[i])]
           f == CHOOSE h : h = F(h)
<1>0. n \in Nat /\ \A i \in 1..n : IsElement(of, items[i])
  BY ElementPartsFacts
<1> HIDE DEF n
<1>1. \A i \in 1..n : \A x \in Bufs : /\ rule[<<i, x>>] = PrependElement(x, of, items[i])
                                      /\ PrependElement(x, of, items[i]) \in Bufs
  <2> SUFFICES ASSUME NEW i \in 1..n, NEW x \in Bufs
               PROVE  /\ rule[<<i, x>>] = PrependElement(x, of, items[i])
                      /\ PrependElement(x, of, items[i]) \in Bufs
    OBVIOUS
  <2>1. IsBuffer(x)
    BY DEF Bufs
  <2>2. IsBuffer(PrependElement(x, of, items[i]))
    BY <1>0, <2>1, ElementWrittenAhead DEF WritesAhead, Prepends
  <2> QED
    BY <2>2, BufferFacts
<1> HIDE DEF rule
<1>2. PICK g \in [0..n -> Bufs] : Recurs(g, b, rule, n)
  <2>1. StepsWithin(rule, Bufs, n)
    BY <1>1 DEF StepsWithin
  <2>2. b \in Bufs
    BY BufferFacts
  <2> QED
    BY <1>0, <2>1, <2>2, RecursionExists
<1>3. g[0] = b /\ \A i \in 1..n : g[i] = PrependElement(g[i - 1], of, items[i])
  <2>1. \A i \in 1..n : g[i - 1] \in Bufs
    BY <1>0, <1>2
  <2> QED
    BY <1>1, <1>2, <2>1 DEF Recurs
<1>4. g = F(g)
  BY <1>2, <1>3
<1>5. f = F(f)
  BY <1>4
<1>6. PrependElements(b, of, items) = f[n]
  BY DEF PrependElements, n
<1> HIDE DEF f
<1>7. f[0] = b /\ \A i \in 1..n : f[i] = PrependElement(f[i - 1], of, items[i])
  BY <1>0, <1>5
<1>8. \A i \in 0..n : f[i] = g[i]
  <2>1. SameRule(f, g, n)
    BY <1>3, <1>7, Zenon DEF SameRule
  <2> QED
    BY <1>0, <2>1, RecursionUnique
<1>9. f[n] = g[n]
  BY <1>0, <1>8
<1> QED
  BY <1>2, <1>3, <1>6, <1>9 DEF ElementsPrepended, n

\* They are found in the opposite order.
LEMMA ElementsWrittenAhead ==
    ASSUME NEW b, IsBuffer(b), NEW of, NEW items, AreElements(of, items), of # "buffer"
    PROVE  /\ Total(Lengths(ElementParts(of, items))) \in Nat
           /\ WritesPartsAhead(b, PrependElements(b, of, items), Total(Lengths(ElementParts(of, items))),
                               Reverse(ElementParts(of, items)))
<1> DEFINE n == Len(items)
           parts == ElementParts(of, items)
<1>1. /\ n \in Nat /\ parts \in Seq(Seq(Cell)) /\ Len(parts) = n
      /\ \A i \in 1..n : IsElement(of, items[i]) /\ parts[i] = ElementBytes(of, items[i])
  BY ElementPartsFacts
<1> HIDE DEF n, parts
<1>2. PICK g \in [0..n -> Bufs] : g[0] = b /\ ElementsPrepended(g, of, items)
                                  /\ PrependElements(b, of, items) = g[n]
  BY PrependElementsUnfolds DEF n
<1>3. ASSUME NEW i \in 1..n
      PROVE  WritesAhead(g[i - 1], g[i], parts[i])
  <2>1. g[i - 1] \in Bufs
    BY <1>1
  <2>2. IsBuffer(g[i - 1])
    BY <2>1 DEF Bufs
  <2>3. g[i] = PrependElement(g[i - 1], of, items[i])
    BY <1>2 DEF ElementsPrepended, n
  <2> QED
    BY <1>1, <2>2, <2>3, ElementWrittenAhead
<1>4. EachWritesAhead(g, parts)
  BY <1>1, <1>3 DEF EachWritesAhead
<1> QED
  BY <1>1, <1>2, <1>4, PartsWrittenAhead DEF n, parts

-----------------------------------------------------------------------------
(* Numbers that are copied at once *)

LEMMA DivideProduct ==
    ASSUME NEW w \in Nat \ {0}, NEW q \in Nat, NEW k \in 0..(w - 1)
    PROVE  w * q \in Nat /\ (w * q + k) \div w = q /\ (w * q + k) % w = k
<1> DEFINE a == w * q + k
<1>1. w * q \in Nat
  OBVIOUS
<1>2. a \in Nat
  BY <1>1
<1>3. a \div w \in Int /\ a % w \in 0..(w - 1) /\ a = w * (a \div w) + (a % w)
  BY <1>2
<1> DEFINE d == a \div w
           m == (a % w)
<1>4. w * q + k = w * d + m /\ d \in Int /\ m \in 0..(w - 1)
  BY <1>3
<1> HIDE DEF a, d, m
<1>5. q = d
  <2>1. w * (q - d) = m - k
    BY ONLY <1>4, w \in Nat, q \in Nat, k \in 0..(w - 1)
  <2>2. ~(q - d >= 1)
    <3> SUFFICES ASSUME q - d >= 1 PROVE FALSE
      OBVIOUS
    <3>1. w * (q - d) >= w
      BY <1>4
    <3> QED
      BY <1>4, <2>1, <3>1
  <2>3. ~(q - d <= -1)
    <3> SUFFICES ASSUME q - d <= -1 PROVE FALSE
      OBVIOUS
    <3>1. w * (q - d) <= -w
      BY <1>4
    <3> QED
      BY <1>4, <2>1, <3>1
  <2> QED
    BY <1>4, <2>2, <2>3
<1>6. k = m
  BY <1>4, <1>5
<1> QED
  BY <1>1, <1>5, <1>6 DEF a, d, m

LEMMA TotalConstant ==
    ASSUME NEW sizes, NEW n \in Nat, NEW w \in Nat, sizes = [i \in 1..n |-> w]
    PROVE  Total(sizes) = w * n
<1>1. sizes \in Seq(Nat) /\ Len(sizes) = n
  OBVIOUS
<1>2. PICK t \in [0..n -> Nat] : Sums(t, sizes) /\ Total(sizes) = t[n]
  BY <1>1, TotalUnfolds
<1> DEFINE S == {i \in 0..n : t[i] = w * i}
<1>3. 0 \in S
  BY <1>2 DEF Sums
<1>4. ASSUME NEW i \in 1..n, i - 1 \in S
      PROVE  i \in S
  <2>1. t[i] = t[i - 1] + w
    BY <1>1, <1>2 DEF Sums
  <2>2. t[i - 1] = w * (i - 1)
    BY <1>4
  <2>3. w * (i - 1) + w = w * i
    OBVIOUS
  <2> QED
    BY <2>1, <2>2, <2>3
<1> HIDE DEF S
<1>5. n \in S
  <2>1. \A i \in 0..n : i \in S
    BY <1>3, <1>4, UpTo
  <2> QED
    BY <2>1
<1> QED
  BY <1>2, <1>5 DEF S

LEMMA NumberBytesFacts ==
    ASSUME NEW items, AreElements("number", items)
    PROVE  /\ NumberBytes(items) \in Seq(Cell) /\ Len(NumberBytes(items)) = WordBytes * Len(items)
           /\ Total(Lengths(ElementParts("number", items))) = WordBytes * Len(items)
           /\ Joins(NumberBytes(items), ElementParts("number", items))
<1> DEFINE n == Len(items)
           w == WordBytes
           e == NumberBytes(items)
           parts == ElementParts("number", items)
           o == [i \in 0..n |-> w * i]
<1>1. /\ n \in Nat /\ w \in Nat \ {0} /\ parts \in Seq(Seq(Cell)) /\ Len(parts) = n
      /\ \A i \in 1..n : IsElement("number", items[i]) /\ parts[i] = Encoded(items[i][1], w)
      /\ Lengths(parts) = [i \in 1..n |-> w]
  <2>1. \A i \in 1..n : SizeOfElement("number", items[i]) = w
    BY DEF SizeOfElement
  <2>2. \A i \in 1..n : ElementBytes("number", items[i]) = Encoded(items[i][1], w)
    BY DEF ElementBytes
  <2>3. /\ n \in Nat /\ DOMAIN items = 1..n /\ parts \in Seq(Seq(Cell)) /\ Len(parts) = n
        /\ \A i \in 1..n : IsElement("number", items[i]) /\ parts[i] = ElementBytes("number", items[i])
        /\ Lengths(parts) = [i \in DOMAIN items |-> SizeOfElement("number", items[i])]
    BY ElementPartsFacts
  <2> HIDE DEF n, parts, w
  <2>4. Lengths(parts) = [i \in 1..n |-> w]
    BY <2>1, <2>3
  <2>5. w \in Nat \ {0}
    BY Widths DEF w
  <2> QED
    BY <2>2, <2>3, <2>4, <2>5
<1>2. \A i \in 1..n : items[i][1] \in Int
  BY <1>1 DEF IsElement, IsNumber, InWidth
<1>3. \A i \in 1..n : Encoded(items[i][1], w) \in Seq(Cell) /\ Len(Encoded(items[i][1], w)) = w
  <2> SUFFICES ASSUME NEW i \in 1..n
               PROVE  Encoded(items[i][1], w) \in Seq(Cell) /\ Len(Encoded(items[i][1], w)) = w
    OBVIOUS
  <2> QED
    BY <1>1, <1>2, EncodedType, CharsAreCells
<1>4. e = [j \in 1..(w * n) |-> Encoded(items[((j - 1) \div w) + 1][1], w)[((j - 1) % w) + 1]]
  BY DEF NumberBytes
<1>5. Total(Lengths(parts)) = w * n
  BY <1>1, TotalConstant
<1> HIDE DEF n, w, e, parts
<1>6. w * n \in Nat
  BY <1>1
<1>7. ASSUME NEW i \in 1..n, NEW k \in 1..w
      PROVE  /\ w * (i - 1) + k \in 1..(w * n) /\ w * (i - 1) \in Nat /\ w * i = w * (i - 1) + w
             /\ w * i <= w * n
             /\ e[w * (i - 1) + k] = Encoded(items[i][1], w)[k]
  <2>1. i - 1 \in Nat /\ k - 1 \in 0..(w - 1)
    BY <1>1
  <2>2. w * (i - 1) \in Nat /\ (w * (i - 1) + (k - 1)) \div w = i - 1 /\ (w * (i - 1) + (k - 1)) % w = k - 1
    BY <1>1, <2>1, DivideProduct
  <2>3. w * i = w * (i - 1) + w
    BY <1>1
  <2>4. w * i <= w * n
    <3>1. n = i + (n - i) /\ n - i \in Nat /\ i \in Nat
      BY <1>1
    <3>2. w * n = w * i + w * (n - i) /\ w * (n - i) \in Nat /\ w * i \in Nat
      BY <1>1, <3>1
    <3> QED
      BY ONLY <3>2, <1>6
  <2> DEFINE p == w * (i - 1)
             j == p + k
  <2>5. p \in Nat /\ p + w <= w * n /\ (p + (k - 1)) \div w = i - 1 /\ (p + (k - 1)) % w = k - 1
    BY <1>6, <2>2, <2>3, <2>4
  <2> HIDE DEF p
  <2>6. j \in 1..(w * n) /\ j - 1 = p + (k - 1)
    <3> DEFINE m == w * n
    <3>1. m \in Nat /\ p + w <= m /\ p \in Nat /\ w \in Nat
      BY <1>1, <1>6, <2>5
    <3> HIDE DEF m
    <3>2. j \in 1..m /\ j - 1 = p + (k - 1)
      BY <3>1
    <3> QED
      BY <3>2 DEF m
  <2>7. e[j] = Encoded(items[((j - 1) \div w) + 1][1], w)[((j - 1) % w) + 1]
    BY <1>4, <2>6
  <2>8. ((j - 1) \div w) + 1 = i /\ ((j - 1) % w) + 1 = k
    BY <2>5, <2>6
  <2> HIDE DEF j
  <2>9. e[j] = Encoded(items[i][1], w)[k]
    BY <2>7, <2>8
  <2> QED
    BY <2>2, <2>3, <2>4, <2>6, <2>9 DEF j, p
<1>8. e \in Seq(Cell) /\ Len(e) = w * n
  <2> DEFINE m == w * n
  <2>1. \A j \in 1..m : e[j] \in Cell
    <3> SUFFICES ASSUME NEW j \in 1..m PROVE e[j] \in Cell
      OBVIOUS
    <3> DEFINE q == (j - 1) \div w
               r == (j - 1) % w
    <3>1. q \in Int /\ r \in 0..(w - 1) /\ j - 1 = w * q + r /\ m \in Nat
      <4> DEFINE a == j - 1
      <4>1. a \in Int /\ w \in Nat \ {0}
        BY <1>1, <1>6
      <4> HIDE DEF a, m
      <4>2. (a \div w) \in Int /\ (a % w) \in 0..(w - 1) /\ a = w * (a \div w) + (a % w)
        BY <4>1
      <4> QED
        BY <1>6, <4>2 DEF a, m
    <3> HIDE DEF q, r, m
    <3>2. q >= 0
      <4> SUFFICES ASSUME q <= -1 PROVE FALSE
        BY <3>1
      <4>1. w * q <= -w
        BY <1>1, <3>1
      <4> DEFINE z == w * q
      <4>2. z <= -w /\ j - 1 = z + r /\ z \in Int
        BY <1>1, <3>1, <4>1
      <4>3. j >= 1 /\ j \in Int /\ w \in Int /\ r \in Int /\ r <= w - 1
        BY <1>1, <3>1 DEF m
      <4> HIDE DEF z
      <4> QED
        BY ONLY <4>2, <4>3
    <3>3. q <= n - 1
      <4> SUFFICES ASSUME q >= n PROVE FALSE
        BY <1>1, <3>1
      <4>1. w * q >= w * n
        <5>1. q = n + (q - n) /\ q - n \in Nat
          BY <1>1, <3>1
        <5>2. w * q = w * n + w * (q - n) /\ w * (q - n) \in Nat
          BY <1>1, <5>1
        <5> QED
          BY ONLY <1>6, <5>2
      <4> DEFINE z == w * q
      <4>2. z >= m /\ j - 1 = z + r /\ z \in Int /\ m \in Nat
        BY <1>1, <3>1, <4>1 DEF m
      <4>3. j <= m /\ j \in Int /\ r \in Int /\ r >= 0
        BY <3>1
      <4> HIDE DEF z
      <4> QED
        BY ONLY <4>2, <4>3
    <3>4. q + 1 \in 1..n /\ r + 1 \in 1..w
      BY <1>1, <3>1, <3>2, <3>3
    <3>5. e[j] = Encoded(items[q + 1][1], w)[r + 1]
      BY <1>4 DEF q, r, m
    <3>6. Encoded(items[q + 1][1], w) \in Seq(Cell) /\ Len(Encoded(items[q + 1][1], w)) = w
      BY <1>3, <3>4
    <3> QED
      BY <3>4, <3>5, <3>6
  <2>2. e = [j \in 1..m |-> e[j]] /\ m \in Nat
    BY <1>4, <1>6
  <2> HIDE DEF m
  <2>3. e \in [1..m -> Cell]
    BY <2>1, <2>2
  <2>4. e \in Seq(Cell) /\ Len(e) = m
    BY <2>2, <2>3
  <2> QED
    BY <2>4 DEF m
<1>9. ASSUME NEW i \in 1..n
      PROVE  o[i - 1] <= o[i] /\ o[i] <= Len(e) /\ SubSeq(e, o[i - 1] + 1, o[i]) = parts[i]
  <2> DEFINE p == w * (i - 1)
             m == w * n
             c == Encoded(items[i][1], w)
  <2>0. 1 \in 1..w
    BY <1>1
  <2>1. p \in Nat /\ w * i = p + w /\ p + w <= m /\ m \in Nat
    BY <1>6, <1>7, <2>0
  <2>2. o[i - 1] = p /\ o[i] = p + w
    <3>1. i - 1 \in 0..n /\ i \in 0..n
      BY <1>1
    <3> QED
      BY <2>1, <3>1
  <2>3. \A k \in 1..w : e[p + k] = c[k]
    BY <1>7
  <2>4. c \in Seq(Cell) /\ Len(c) = w /\ parts[i] = c
    BY <1>1, <1>3
  <2>5. e \in Seq(Cell) /\ Len(e) = m
    BY <1>8
  <2> HIDE DEF p, m, c, o
  <2>6. SubSeq(e, p + 1, p + w) \in Seq(Cell) /\ Len(SubSeq(e, p + 1, p + w)) = w
        /\ \A k \in 1..w : SubSeq(e, p + 1, p + w)[k] = e[p + k]
    BY <1>1, <2>1, <2>5
  <2>7. \A k \in 1..w : SubSeq(e, p + 1, p + w)[k] = c[k]
    BY <2>3, <2>6
  <2>8. SubSeq(e, p + 1, p + w) = c
    BY <2>4, <2>6, <2>7, SeqEqual
  <2>9. p <= p + w
    BY <1>1, <2>1
  <2> QED
    BY <2>1, <2>2, <2>4, <2>5, <2>8, <2>9
<1>10. Joins(e, parts)
  <2>1. \A i \in 0..n : w * i \in Nat
    BY <1>1
  <2>2. o \in [0..n -> Nat] /\ o[0] = 0 /\ o[n] = w * n
    BY <1>1, <2>1
  <2> HIDE DEF o
  <2> QED
    BY <1>1, <1>8, <1>9, <2>2 DEF Joins
<1> QED
  BY <1>5, <1>8, <1>10 DEF n, w, e, parts

-----------------------------------------------------------------------------
(* A count and what it counts *)

Counted(e, n, parts) == \E f \in Seq(Cell) : e = Encoded(n, CountBytes) \o f /\ Joins(f, parts)
WritesCounted(b, c, m, n, parts) ==
    /\ Appends(b, c, CountBytes + m)
    /\ HasRoom(b, CountBytes + m) => c.ok
    /\ c.ok => Counted(Added(b, c), n, parts)
WritesCountedAhead(b, c, m, n, parts) ==
    /\ Prepends(b, c, CountBytes + m)
    /\ HasRoomAhead(b, CountBytes + m) => c.ok
    /\ c.ok => Counted(Ahead(b, c), n, parts)

LEMMA CountWrites ==
    ASSUME NEW b, IsBuffer(b), NEW n \in Int
    PROVE  /\ Encoded(n, CountBytes) \in Seq(Cell) /\ Len(Encoded(n, CountBytes)) = CountBytes
           /\ Writes(b, AppendCount(b, n), Encoded(n, CountBytes))
           /\ WritesAhead(b, PrependCount(b, n), Encoded(n, CountBytes))
<1>1. Encoded(n, CountBytes) \in Seq(Char) /\ Len(Encoded(n, CountBytes)) = CountBytes
  BY Widths, EncodedType
<1>2. Encoded(n, CountBytes) \in Seq(Cell)
  BY <1>1, CharsAreCells
<1> QED
  BY <1>1, <1>2, BytesWritten, BytesWrittenAhead DEF AppendCount, AppendGeneral, PrependCount, PrependGeneral

LEMMA SlicesAreSeqs ==
    ASSUME NEW b, IsBuffer(b), NEW c, IsBuffer(c)
    PROVE  /\ Added(b, c) \in Seq(Cell) \/ ~(b.ok /\ c.ok /\ c.at = b.at)
           /\ Ahead(b, c) \in Seq(Cell) \/ ~(b.ok /\ c.ok /\ End(c) = End(b))
<1>1. /\ b.at \in Nat /\ c.at \in Nat /\ b.mem \in Seq(Cell) /\ c.mem \in Seq(Cell)
      /\ End(b) \in Int /\ End(c) \in Int /\ End(c) <= Len(c.mem) /\ Len(c.mem) \in Nat
      /\ (b.ok => b.size \in Nat /\ End(b) \in Nat) /\ End(b) = b.at + b.size
  BY BufferFacts
<1>2. ASSUME b.ok PROVE Added(b, c) \in Seq(Cell)
  BY <1>1, <1>2 DEF Added
<1>3. ASSUME b.ok, End(c) = End(b) PROVE Ahead(b, c) \in Seq(Cell)
  <2>1. b.at <= End(b)
    BY <1>1, <1>3
  <2>2. b.at <= Len(c.mem)
    BY <1>1, <1>3, <2>1
  <2> QED
    BY <1>1, <2>2 DEF Ahead
<1> QED
  BY <1>2, <1>3

\* The count goes first.
LEMMA CountedWritten ==
    ASSUME NEW b, IsBuffer(b), NEW n \in Int, NEW m \in Nat, NEW parts, NEW d,
           WritesParts(AppendCount(b, n), d, m, parts)
    PROVE  WritesCounted(b, d, m, n, parts)
<1> DEFINE c == AppendCount(b, n)
           e == Encoded(n, CountBytes)
<1>1. Writes(b, c, e) /\ Len(e) = CountBytes /\ CountBytes \in Nat
  BY CountWrites, Widths
<1>2. Appends(b, c, CountBytes) /\ (HasRoom(b, CountBytes) => c.ok) /\ (c.ok => Added(b, c) = e)
  BY <1>1 DEF Writes
<1>3. Appends(c, d, m) /\ (HasRoom(c, m) => d.ok) /\ (d.ok => Joins(Added(c, d), parts))
  BY DEF WritesParts
<1> HIDE DEF c
<1>4. /\ Appends(b, d, CountBytes + m)
      /\ d.ok => Added(b, d) = Added(b, c) \o Added(c, d)
      /\ HasRoom(b, CountBytes + m) => HasRoom(b, CountBytes) /\ (c.ok => HasRoom(c, m))
  BY <1>1, <1>2, <1>3, AppendsTwice
<1>5. ASSUME d.ok PROVE c.ok /\ Added(c, d) \in Seq(Cell)
  <2>1. c.ok /\ IsBuffer(c) /\ IsBuffer(d) /\ d.at = c.at
    BY <1>2, <1>3, <1>5 DEF Appends
  <2> QED
    BY <1>5, <2>1, SlicesAreSeqs
<1> QED
  BY <1>2, <1>3, <1>4, <1>5 DEF WritesCounted, Counted

LEMMA CountedWrittenAhead ==
    ASSUME NEW b, IsBuffer(b), NEW n \in Int, NEW m \in Nat, NEW parts, NEW c,
           WritesPartsAhead(b, c, m, parts)
    PROVE  WritesCountedAhead(b, PrependCount(c, n), m, n, parts)
<1> DEFINE d == PrependCount(c, n)
           e == Encoded(n, CountBytes)
<1>1. Prepends(b, c, m) /\ (HasRoomAhead(b, m) => c.ok) /\ (c.ok => Joins(Ahead(b, c), parts))
  BY DEF WritesPartsAhead
<1>2. IsBuffer(c)
  BY <1>1 DEF Prepends
<1>3. WritesAhead(c, d, e) /\ Len(e) = CountBytes /\ CountBytes \in Nat
  BY <1>2, CountWrites, Widths
<1>4. Prepends(c, d, CountBytes) /\ (HasRoomAhead(c, CountBytes) => d.ok) /\ (d.ok => Ahead(c, d) = e)
  BY <1>3 DEF WritesAhead
<1> HIDE DEF d
<1>5. /\ Prepends(b, d, CountBytes + m)
      /\ d.ok => Ahead(b, d) = Ahead(c, d) \o Ahead(b, c)
      /\ HasRoomAhead(b, CountBytes + m) => HasRoomAhead(b, m) /\ (c.ok => HasRoomAhead(c, CountBytes))
  BY <1>1, <1>3, <1>4, PrependsTwice
<1>6. ASSUME d.ok PROVE c.ok /\ Ahead(b, c) \in Seq(Cell)
  <2>1. c.ok /\ b.ok /\ End(c) = End(b)
    BY <1>1, <1>4, <1>6 DEF Prepends
  <2> QED
    BY <1>2, <2>1, SlicesAreSeqs
<1> QED
  BY <1>1, <1>4, <1>5, <1>6 DEF WritesCountedAhead, Counted, d

\* The count goes to where room was left for it.
LEMMA CountedAfterwards ==
    ASSUME NEW b, IsBuffer(b), NEW n \in Int, NEW m \in Nat, NEW parts, NEW d,
           WritesParts(AppendSkip(b, CountBytes), d, m, parts)
    PROVE  WritesCounted(b, CountWritten(d, b.at + b.size, n), m, n, parts)
<1> DEFINE c == AppendSkip(b, CountBytes)
           e == Encoded(n, CountBytes)
           p == b.at + b.size
           d2 == CountWritten(d, p, n)
           w == Written(d.mem, p, e)
<1>1. CountBytes \in Nat /\ e \in Seq(Cell) /\ Len(e) = CountBytes
  BY CountWrites, Widths
<1>2. Appends(b, c, CountBytes) /\ (HasRoom(b, CountBytes) => c.ok)
  BY <1>1, SkipAppends
<1>3. Appends(c, d, m) /\ (HasRoom(c, m) => d.ok) /\ (d.ok => Joins(Added(c, d), parts))
  BY DEF WritesParts
<1> HIDE DEF c
<1>4. /\ Appends(b, d, CountBytes + m)
      /\ HasRoom(b, CountBytes + m) => HasRoom(b, CountBytes) /\ (c.ok => HasRoom(c, m))
  BY <1>1, <1>2, <1>3, AppendsTwice
<1>5. CASE ~d.ok
  <2>1. d2 = d
    BY <1>5 DEF CountWritten
  <2> QED
    BY <1>2, <1>3, <1>4, <1>5, <2>1 DEF WritesCounted
<1>6. CASE d.ok
  <2>1. /\ c.ok /\ b.ok /\ IsBuffer(c) /\ IsBuffer(d) /\ c.at = b.at /\ d.at = b.at
        /\ Len(d.mem) = Len(b.mem) /\ c.size = b.size + CountBytes /\ d.size = c.size + m
        /\ d.size = b.size + (CountBytes + m)
        /\ \A i \in 1..End(b) : d.mem[i] = b.mem[i]
    BY <1>2, <1>3, <1>4, <1>6 DEF Appends
  <2>2. /\ b.at \in Nat /\ b.size \in Nat /\ d.mem \in Seq(Cell) /\ d.size \in Int /\ Len(d.mem) \in Nat
        /\ End(d) = d.at + d.size /\ End(d) <= Len(d.mem) /\ d \in Buffers
    BY <2>1, BufferFacts DEF IsBuffer
  <2>3. p \in Nat /\ p = End(b) /\ End(c) = p + CountBytes /\ End(d) = p + CountBytes + m
        /\ p + CountBytes <= Len(d.mem)
    <3> DEFINE x == b.at
               y == b.size
               z == CountBytes
    <3>1. x \in Nat /\ y \in Nat /\ z \in Nat /\ m \in Nat /\ c.size = y + z /\ d.size = y + (z + m)
          /\ End(c) = x + c.size /\ End(d) = x + d.size /\ p = x + y /\ End(b) = x + y
      BY <1>1, <2>1, <2>2 DEF End
    <3>2. End(c) = x + (y + z) /\ End(d) = x + (y + (z + m)) /\ End(d) <= Len(d.mem) /\ Len(d.mem) \in Nat
      BY <2>2, <3>1
    <3> HIDE DEF x, y, z
    <3>3. x + (y + z) = (x + y) + z /\ x + (y + (z + m)) = (x + y) + z + m /\ x + y \in Nat
      BY <3>1
    <3>4. (x + y) + z <= (x + y) + z + m
      BY ONLY <3>1, <3>3
    <3>5. (x + y) + z \in Nat /\ (x + y) + z + m \in Nat
      BY ONLY <3>1, <3>3
    <3>6. (x + y) + z <= Len(d.mem)
      <4>1. (x + y) + z + m <= Len(d.mem)
        BY <3>2, <3>3
      <4> QED
        BY ONLY <3>4, <3>5, <4>1, <3>2
    <3> QED
      BY <3>1, <3>2, <3>3, <3>6 DEF z
  <2> HIDE DEF e, p
  <2>4. /\ w \in Seq(Cell) /\ Len(w) = Len(d.mem)
        /\ \A i \in 1..Len(d.mem) : i \notin (p + 1)..(p + Len(e)) => w[i] = d.mem[i]
        /\ SubSeq(w, p + 1, p + Len(e)) = e
    <3>1. p + Len(e) <= Len(d.mem)
      BY <1>1, <2>3 DEF e
    <3>2. e \in Seq(Cell)
      BY <1>1 DEF e
    <3> HIDE DEF d2
    <3> QED
      BY <2>2, <2>3, <3>1, <3>2, WrittenFacts, SMTT(30)
  <2> HIDE DEF w
  <2>5. d2 = [mem |-> w, at |-> d.at, size |-> d.size, ok |-> TRUE]
    BY <1>6, <2>2 DEF CountWritten, Buffers, w, e
  <2> HIDE DEF d2
  <2>6. d2.mem = w /\ d2.at = d.at /\ d2.size = d.size /\ d2.ok /\ End(d2) = End(d) /\ d2 \in Buffers
    <3>1. d.at \in Nat
      BY <2>1, <2>2
    <3> QED
      BY <2>2, <2>4, <2>5, <3>1 DEF Buffers, End
  <2>7. IsBuffer(d2)
    <3>1. d.size \in Nat
      BY <1>6, <2>1, BufferFacts
    <3> QED
      BY <2>2, <2>4, <2>6, <3>1 DEF IsBuffer
  <2>8. Appends(b, d2, CountBytes + m)
    <3>1. \A i \in 1..End(b) : i \in 1..Len(d.mem) /\ i \notin (p + 1)..(p + Len(e))
      BY <1>1, <2>2, <2>3
    <3>2. \A i \in 1..End(b) : d2.mem[i] = b.mem[i]
      BY <2>1, <2>4, <2>6, <3>1
    <3> QED
      BY <2>1, <2>4, <2>6, <2>7, <3>2 DEF Appends
  <2>9. Added(b, d2) = e \o Added(c, d)
    <3> DEFINE q == p + CountBytes
               z == q + m
    <3>1. p \in Nat /\ q \in Nat /\ z \in Nat /\ p <= q /\ q <= z /\ z <= Len(w)
      <4>1. z = End(d) /\ z <= Len(w)
        BY <2>2, <2>3, <2>4
      <4> QED
        BY <1>1, <2>3, <4>1
    <3>2. End(b) = p /\ End(c) = q /\ End(d) = z /\ SubSeq(w, p + 1, q) = e
      BY <1>1, <2>3, <2>4
    <3>3. \A i \in 1..Len(d.mem) : i \notin (p + 1)..q => w[i] = d.mem[i]
      BY <1>1, <2>4
    <3> HIDE DEF q, z
    <3>4. SubSeq(w, p + 1, z) = SubSeq(w, p + 1, q) \o SubSeq(w, q + 1, z)
      <4>1. p + 1 \in 1..(Len(w) + 1) /\ q \in ((p + 1) - 1)..Len(w) /\ z \in q..Len(w) /\ w \in Seq(Cell)
        BY <2>4, <3>1
      <4> QED
        BY ONLY <4>1, ConcatAdjacentSubSeq
    <3>5. SubSeq(w, q + 1, z) = SubSeq(d.mem, q + 1, z)
      <4>1. \A j \in (q + 1)..z : w[j] = d.mem[j]
        BY <2>4, <3>1, <3>3
      <4>2. w \in Seq(Cell) /\ d.mem \in Seq(Cell) /\ z <= Len(d.mem)
        BY <2>2, <2>4, <3>1
      <4> QED
        BY <3>1, <4>1, <4>2, SlicesAgree
    <3> QED
      BY <2>6, <3>2, <3>4, <3>5 DEF Added
  <2>10. Added(c, d) \in Seq(Cell)
    BY <1>6, <2>1, SlicesAreSeqs
  <2>11. Counted(Added(b, d2), n, parts)
    BY <1>3, <1>6, <2>9, <2>10 DEF Counted, e
  <2>12. d2 = CountWritten(d, b.at + b.size, n)
    BY DEF d2, p
  <2> QED
    BY <2>6, <2>8, <2>11, <2>12 DEF WritesCounted
<1> QED
  BY <1>5, <1>6

-----------------------------------------------------------------------------
(* Pairs *)

PairBytes(key, of, pair) == ElementBytes(key, pair[1]) \o ElementBytes(of, pair[2])
PairParts(key, of, items) == [i \in DOMAIN items |-> PairBytes(key, of, items[i])]
IsPair(key, of, pair) == IsElement(key, pair[1]) /\ IsElement(of, pair[2])
ArePairs(key, of, items) == IsSeq(items) /\ \A i \in DOMAIN items : IsPair(key, of, items[i])

LEMMA PairBytesFacts ==
    ASSUME NEW key, NEW of, NEW pair, IsPair(key, of, pair)
    PROVE  /\ PairBytes(key, of, pair) \in Seq(Char) /\ PairBytes(key, of, pair) \in Seq(Cell)
           /\ ElementBytes(key, pair[1]) \in Seq(Cell) /\ ElementBytes(of, pair[2]) \in Seq(Cell)
           /\ Len(PairBytes(key, of, pair)) = SizeOfElement(key, pair[1]) + SizeOfElement(of, pair[2])
<1>1. /\ ElementBytes(key, pair[1]) \in Seq(Char)
      /\ Len(ElementBytes(key, pair[1])) = SizeOfElement(key, pair[1])
  BY ElementBytesFacts DEF IsPair
<1>2. /\ ElementBytes(of, pair[2]) \in Seq(Char)
      /\ Len(ElementBytes(of, pair[2])) = SizeOfElement(of, pair[2])
  BY ElementBytesFacts DEF IsPair
<1>3. /\ PairBytes(key, of, pair) \in Seq(Char)
      /\ Len(PairBytes(key, of, pair)) = SizeOfElement(key, pair[1]) + SizeOfElement(of, pair[2])
  BY <1>1, <1>2 DEF PairBytes
<1> QED
  BY <1>1, <1>2, <1>3, CharsAreCells

LEMMA PairWritten ==
    ASSUME NEW b, IsBuffer(b), NEW key, NEW of, NEW pair, IsPair(key, of, pair)
    PROVE  Writes(b, AppendElement(AppendElement(b, key, pair[1]), of, pair[2]), PairBytes(key, of, pair))
<1> DEFINE c == AppendElement(b, key, pair[1])
           d == AppendElement(c, of, pair[2])
           e == ElementBytes(key, pair[1])
           f == ElementBytes(of, pair[2])
<1>1. Writes(b, c, e)
  BY ElementWritten DEF IsPair
<1>2. IsBuffer(c)
  BY <1>1 DEF Writes, Appends
<1> HIDE DEF c
<1>3. Writes(c, d, f)
  BY <1>2, ElementWritten DEF IsPair
<1>4. e \in Seq(Cell) /\ f \in Seq(Cell)
  BY PairBytesFacts
<1> HIDE DEF d, e, f
<1>5. Writes(b, d, e \o f)
  BY <1>1, <1>3, <1>4, WritesTwice
<1> QED
  BY <1>5 DEF PairBytes, c, d, e, f

LEMMA PairWrittenAhead ==
    ASSUME NEW b, IsBuffer(b), NEW key, NEW of, NEW pair, IsPair(key, of, pair), of # "buffer", key # "buffer"
    PROVE  WritesAhead(b, PrependElement(PrependElement(b, of, pair[2]), key, pair[1]),
                       PairBytes(key, of, pair))
<1> DEFINE c == PrependElement(b, of, pair[2])
           d == PrependElement(c, key, pair[1])
           e == ElementBytes(key, pair[1])
           f == ElementBytes(of, pair[2])
<1>1. WritesAhead(b, c, f)
  BY ElementWrittenAhead DEF IsPair
<1>2. IsBuffer(c)
  BY <1>1 DEF WritesAhead, Prepends
<1> HIDE DEF c
<1>3. WritesAhead(c, d, e)
  BY <1>2, ElementWrittenAhead DEF IsPair
<1>4. e \in Seq(Cell) /\ f \in Seq(Cell)
  BY PairBytesFacts
<1> HIDE DEF d, e, f
<1>5. WritesAhead(b, d, e \o f)
  BY <1>1, <1>3, <1>4, WritesAheadTwice
<1> QED
  BY <1>5 DEF PairBytes, c, d, e, f

LEMMA PairPartsFacts ==
    ASSUME NEW key, NEW of, NEW items, ArePairs(key, of, items)
    PROVE  /\ PairParts(key, of, items) \in Seq(Seq(Cell)) /\ Len(PairParts(key, of, items)) = Len(items)
           /\ Len(items) \in Nat /\ DOMAIN items = 1..Len(items)
           /\ \A i \in 1..Len(items) : /\ IsPair(key, of, items[i])
                                       /\ PairParts(key, of, items)[i] = PairBytes(key, of, items[i])
           /\ Lengths(PairParts(key, of, items)) =
                [i \in DOMAIN items |-> SizeOfElement(key, items[i][1]) + SizeOfElement(of, items[i][2])]
<1> DEFINE n == Len(items)
           parts == PairParts(key, of, items)
<1>1. n \in Nat /\ DOMAIN items = 1..n
  BY SeqFacts DEF ArePairs
<1>2. \A i \in 1..n : IsPair(key, of, items[i])
  BY <1>1 DEF ArePairs
<1>3. \A i \in 1..n : /\ SizeOfElement(key, items[i][1]) + SizeOfElement(of, items[i][2])
                           = Len(PairBytes(key, of, items[i]))
                      /\ PairBytes(key, of, items[i]) \in Seq(Cell)
  BY <1>2, PairBytesFacts
<1>4. parts = [i \in 1..n |-> PairBytes(key, of, items[i])]
  BY <1>1 DEF PairParts
<1>5. parts \in Seq(Seq(Cell)) /\ Len(parts) = n /\ DOMAIN parts = 1..n
  <2>1. parts \in [1..n -> Seq(Cell)]
    BY <1>3, <1>4
  <2> QED
    BY <1>1, <1>4, <2>1
<1>6. Lengths(parts) = [i \in 1..n |-> SizeOfElement(key, items[i][1]) + SizeOfElement(of, items[i][2])]
  BY <1>3, <1>4, <1>5 DEF Lengths
<1> QED
  BY <1>1, <1>2, <1>4, <1>5, <1>6

PairsAppended(g, key, of, items) ==
    \A i \in 1..Len(items) :
        g[i] = AppendElement(AppendElement(g[i - 1], key, items[i][1]), of, items[i][2])
PairsPrepended(g, key, of, items) ==
    \A i \in 1..Len(items) :
        g[i] = PrependElement(PrependElement(g[i - 1], of, items[i][2]), key, items[i][1])

LEMMA AppendPairsUnfolds ==
    ASSUME NEW b, IsBuffer(b), NEW key, NEW of, NEW items, ArePairs(key, of, items)
    PROVE  \E g \in [0..Len(items) -> Bufs] :
               /\ g[0] = AppendCount(b, Len(items)) /\ PairsAppended(g, key, of, items)
               /\ AppendContainerAssociative(b, key, of, items) = g[Len(items)]
<1> DEFINE n == Len(items)
           rule == [p \in (1..n) \X Bufs |-> AppendElement(AppendElement(p[2], key, items[p[1]][1]), of, items[p[1]][2])]
           F(h) == [i \in 0..n |-> IF i = 0 THEN AppendCount(b, Len(items)) ELSE AppendElement(AppendElement(h[i - 1], key, items[i][1]), of, items[i][2])]
           f == CHOOSE h : h = F(h)
<1>0. n \in Nat /\ \A i \in 1..n : IsPair(key, of, items[i])
  BY PairPartsFacts
<1> HIDE DEF n
<1>1. \A i \in 1..n : \A x \in Bufs : /\ rule[<<i, x>>] = AppendElement(AppendElement(x, key, items[i][1]), of, items[i][2])
                                      /\ AppendElement(AppendElement(x, key, items[i][1]), of, items[i][2]) \in Bufs
  <2> SUFFICES ASSUME NEW i \in 1..n, NEW x \in Bufs
               PROVE  /\ rule[<<i, x>>] = AppendElement(AppendElement(x, key, items[i][1]), of, items[i][2])
                      /\ AppendElement(AppendElement(x, key, items[i][1]), of, items[i][2]) \in Bufs
    OBVIOUS
  <2>1. IsBuffer(x)
    BY DEF Bufs
  <2>2. IsBuffer(AppendElement(AppendElement(x, key, items[i][1]), of, items[i][2]))
    BY <1>0, <2>1, PairWritten DEF Writes, Appends
  <2> QED
    BY <2>2, BufferFacts
<1> HIDE DEF rule
<1>2. PICK g \in [0..n -> Bufs] : Recurs(g, AppendCount(b, Len(items)), rule, n)
  <2>1. StepsWithin(rule, Bufs, n)
    BY <1>1 DEF StepsWithin
  <2>2. AppendCount(b, Len(items)) \in Bufs
    <3>1. Writes(b, AppendCount(b, Len(items)), Encoded(Len(items), CountBytes))
      BY <1>0, CountWrites DEF n
    <3>2. IsBuffer(AppendCount(b, Len(items)))
      BY <3>1 DEF Writes, Appends
    <3> QED
      BY <3>2, BufferFacts
  <2> QED
    BY <1>0, <2>1, <2>2, RecursionExists
<1>3. g[0] = AppendCount(b, Len(items)) /\ \A i \in 1..n : g[i] = AppendElement(AppendElement(g[i - 1], key, items[i][1]), of, items[i][2])
  <2>1. \A i \in 1..n : g[i - 1] \in Bufs
    BY <1>0, <1>2
  <2> QED
    BY <1>1, <1>2, <2>1 DEF Recurs
<1>4. g = F(g)
  BY <1>2, <1>3
<1>5. f = F(f)
  BY <1>4
<1>6. AppendContainerAssociative(b, key, of, items) = f[n]
  BY DEF AppendContainerAssociative, n
<1> HIDE DEF f
<1>7. f[0] = AppendCount(b, Len(items)) /\ \A i \in 1..n : f[i] = AppendElement(AppendElement(f[i - 1], key, items[i][1]), of, items[i][2])
  BY <1>0, <1>5
<1>8. \A i \in 0..n : f[i] = g[i]
  <2>1. SameRule(f, g, n)
    BY <1>3, <1>7, Zenon DEF SameRule
  <2> QED
    BY <1>0, <2>1, RecursionUnique
<1>9. f[n] = g[n]
  BY <1>0, <1>8
<1> QED
  BY <1>2, <1>3, <1>6, <1>9 DEF PairsAppended, n

LEMMA PairsWritten ==
    ASSUME NEW b, IsBuffer(b), NEW key, NEW of, NEW items, ArePairs(key, of, items)
    PROVE  /\ Total(Lengths(PairParts(key, of, items))) \in Nat
           /\ WritesCounted(b, AppendContainerAssociative(b, key, of, items),
                            Total(Lengths(PairParts(key, of, items))), Len(items), PairParts(key, of, items))
<1> DEFINE n == Len(items)
           parts == PairParts(key, of, items)
           start == AppendCount(b, n)
<1>1. /\ n \in Nat /\ parts \in Seq(Seq(Cell)) /\ Len(parts) = n
      /\ \A i \in 1..n : IsPair(key, of, items[i]) /\ parts[i] = PairBytes(key, of, items[i])
  BY PairPartsFacts
<1>2. PICK g \in [0..Len(items) -> Bufs] :
          g[0] = AppendCount(b, Len(items)) /\ PairsAppended(g, key, of, items)
          /\ AppendContainerAssociative(b, key, of, items) = g[Len(items)]
  BY AppendPairsUnfolds
<1>2a. g[0] = start /\ g[n] = AppendContainerAssociative(b, key, of, items) /\ g \in [0..n -> Bufs]
  BY <1>2
<1> HIDE DEF n, parts
<1>2b. IsBuffer(start)
  <2>1. Writes(b, start, Encoded(n, CountBytes))
    BY <1>1, CountWrites
  <2> QED
    BY <2>1 DEF Writes, Appends
<1> HIDE DEF start
<1>3. ASSUME NEW i \in 1..n
      PROVE  Writes(g[i - 1], g[i], parts[i])
  <2>1. g[i - 1] \in Bufs
    BY <1>1, <1>2a
  <2>2. IsBuffer(g[i - 1])
    BY <2>1 DEF Bufs
  <2>3. g[i] = AppendElement(AppendElement(g[i - 1], key, items[i][1]), of, items[i][2])
    BY <1>2 DEF PairsAppended, n
  <2> QED
    BY <1>1, <2>2, <2>3, PairWritten
<1>4. EachWrites(g, parts)
  BY <1>1, <1>3 DEF EachWrites
<1>5. Total(Lengths(parts)) \in Nat /\ WritesParts(g[0], g[Len(parts)], Total(Lengths(parts)), parts)
  BY <1>1, <1>2a, <1>2b, <1>4, PartsWritten
<1>6. WritesCounted(b, g[n], Total(Lengths(parts)), n, parts)
  BY <1>1, <1>2a, <1>5, CountedWritten DEF start
<1> QED
  BY <1>2a, <1>5, <1>6 DEF n, parts

LEMMA PrependPairsUnfolds ==
    ASSUME NEW b, IsBuffer(b), NEW key, NEW of, NEW items, ArePairs(key, of, items),
           of # "buffer", key # "buffer"
    PROVE  \E g \in [0..Len(items) -> Bufs] :
               /\ g[0] = b /\ PairsPrepended(g, key, of, items)
               /\ PrependContainerAssociative(b, key, of, items) = PrependCount(g[Len(items)], Len(items))
<1> DEFINE n == Len(items)
           rule == [p \in (1..n) \X Bufs |-> PrependElement(PrependElement(p[2], of, items[p[1]][2]), key, items[p[1]][1])]
           F(h) == [i \in 0..n |-> IF i = 0 THEN b ELSE PrependElement(PrependElement(h[i - 1], of, items[i][2]), key, items[i][1])]
           f == CHOOSE h : h = F(h)
<1>0. n \in Nat /\ \A i \in 1..n : IsPair(key, of, items[i])
  BY PairPartsFacts
<1> HIDE DEF n
<1>1. \A i \in 1..n : \A x \in Bufs : /\ rule[<<i, x>>] = PrependElement(PrependElement(x, of, items[i][2]), key, items[i][1])
                                      /\ PrependElement(PrependElement(x, of, items[i][2]), key, items[i][1]) \in Bufs
  <2> SUFFICES ASSUME NEW i \in 1..n, NEW x \in Bufs
               PROVE  /\ rule[<<i, x>>] = PrependElement(PrependElement(x, of, items[i][2]), key, items[i][1])
                      /\ PrependElement(PrependElement(x, of, items[i][2]), key, items[i][1]) \in Bufs
    OBVIOUS
  <2>1. IsBuffer(x)
    BY DEF Bufs
  <2>2. IsBuffer(PrependElement(PrependElement(x, of, items[i][2]), key, items[i][1]))
    BY <1>0, <2>1, PairWrittenAhead DEF WritesAhead, Prepends
  <2> QED
    BY <2>2, BufferFacts
<1> HIDE DEF rule
<1>2. PICK g \in [0..n -> Bufs] : Recurs(g, b, rule, n)
  <2>1. StepsWithin(rule, Bufs, n)
    BY <1>1 DEF StepsWithin
  <2>2. b \in Bufs
    BY BufferFacts
  <2> QED
    BY <1>0, <2>1, <2>2, RecursionExists
<1>3. g[0] = b /\ \A i \in 1..n : g[i] = PrependElement(PrependElement(g[i - 1], of, items[i][2]), key, items[i][1])
  <2>1. \A i \in 1..n : g[i - 1] \in Bufs
    BY <1>0, <1>2
  <2> QED
    BY <1>1, <1>2, <2>1 DEF Recurs
<1>4. g = F(g)
  BY <1>2, <1>3
<1>5. f = F(f)
  BY <1>4
<1>6. PrependContainerAssociative(b, key, of, items) = PrependCount(f[n], n)
  BY DEF PrependContainerAssociative, n
<1> HIDE DEF f
<1>7. f[0] = b /\ \A i \in 1..n : f[i] = PrependElement(PrependElement(f[i - 1], of, items[i][2]), key, items[i][1])
  BY <1>0, <1>5
<1>8. \A i \in 0..n : f[i] = g[i]
  <2>1. SameRule(f, g, n)
    BY <1>3, <1>7, Zenon DEF SameRule
  <2> QED
    BY <1>0, <2>1, RecursionUnique
<1>9. f[n] = g[n]
  BY <1>0, <1>8
<1> QED
  BY <1>2, <1>3, <1>6, <1>9 DEF PairsPrepended, n

LEMMA PairsWrittenAhead ==
    ASSUME NEW b, IsBuffer(b), NEW key, NEW of, NEW items, ArePairs(key, of, items),
           of # "buffer", key # "buffer"
    PROVE  /\ Total(Lengths(PairParts(key, of, items))) \in Nat
           /\ WritesCountedAhead(b, PrependContainerAssociative(b, key, of, items),
                                 Total(Lengths(PairParts(key, of, items))), Len(items),
                                 Reverse(PairParts(key, of, items)))
<1> DEFINE n == Len(items)
           parts == PairParts(key, of, items)
<1>1. /\ n \in Nat /\ parts \in Seq(Seq(Cell)) /\ Len(parts) = n
      /\ \A i \in 1..n : IsPair(key, of, items[i]) /\ parts[i] = PairBytes(key, of, items[i])
  <2>1. /\ PairParts(key, of, items) \in Seq(Seq(Cell)) /\ Len(PairParts(key, of, items)) = Len(items)
        /\ Len(items) \in Nat
        /\ \A i \in 1..Len(items) : /\ IsPair(key, of, items[i])
                                    /\ PairParts(key, of, items)[i] = PairBytes(key, of, items[i])
    BY ONLY ArePairs(key, of, items), PairPartsFacts
  <2> QED
    BY <2>1
<1>2. PICK g \in [0..Len(items) -> Bufs] :
          g[0] = b /\ PairsPrepended(g, key, of, items)
          /\ PrependContainerAssociative(b, key, of, items) = PrependCount(g[Len(items)], Len(items))
  BY PrependPairsUnfolds
<1>2a. g[0] = b /\ PrependContainerAssociative(b, key, of, items) = PrependCount(g[n], n) /\ g \in [0..n -> Bufs]
  BY <1>2
<1> HIDE DEF n, parts
<1>3. ASSUME NEW i \in 1..n
      PROVE  WritesAhead(g[i - 1], g[i], parts[i])
  <2>1. g[i - 1] \in Bufs
    BY <1>1, <1>2a
  <2>2. IsBuffer(g[i - 1])
    BY <2>1 DEF Bufs
  <2>3. g[i] = PrependElement(PrependElement(g[i - 1], of, items[i][2]), key, items[i][1])
    BY <1>2 DEF PairsPrepended, n
  <2> QED
    BY <1>1, <2>2, <2>3, PairWrittenAhead
<1>4. EachWritesAhead(g, parts)
  BY <1>1, <1>3 DEF EachWritesAhead
<1>5. /\ Total(Lengths(parts)) \in Nat
      /\ WritesPartsAhead(g[0], g[Len(parts)], Total(Lengths(parts)), Reverse(parts))
  BY <1>1, <1>2a, <1>4, PartsWrittenAhead
<1>6. WritesCountedAhead(b, PrependCount(g[n], n), Total(Lengths(parts)), n, Reverse(parts))
  BY <1>1, <1>2a, <1>5, CountedWrittenAhead
<1> QED
  BY <1>2a, <1>5, <1>6 DEF n, parts

-----------------------------------------------------------------------------
(* Text *)

LEMMA MaxFacts ==
    ASSUME NEW S, S \subseteq Nat, S # {}, NEW u \in Nat, \A s \in S : s <= u
    PROVE  Max(S) \in S /\ \A s \in S : s <= Max(S)
<1> DEFINE T == {u - s : s \in S}
<1>1. T \subseteq Nat /\ T # {}
  <2>1. \A s \in S : u - s \in Nat
    OBVIOUS
  <2> QED
    BY <2>1
<1>2. PICK t \in T : \A k \in T : t <= k
  BY <1>1, LeastNatural
<1>3. PICK m \in S : t = u - m
  OBVIOUS
<1>4. \A s \in S : m >= s
  <2> SUFFICES ASSUME NEW s \in S PROVE m >= s
    OBVIOUS
  <2>1. u - m <= u - s
    BY <1>2, <1>3
  <2>2. m \in Nat /\ s \in Nat
    OBVIOUS
  <2> QED
    BY <2>1, <2>2
<1>5. Max(S) \in S /\ \A s \in S : Max(S) >= s
  <2>1. \E x \in S : \A y \in S : x >= y
    BY <1>4
  <2> QED
    BY <2>1, Zenon DEF Max
<1> QED
  BY <1>5

LEMMA MinFacts ==
    ASSUME NEW S, S \subseteq Nat, S # {}
    PROVE  Min(S) \in S /\ \A s \in S : Min(S) <= s
<1>1. \E x \in S : \A y \in S : x <= y
  BY LeastNatural
<1> QED
  BY <1>1, Zenon DEF Min

LEMMA SeqElements ==
    ASSUME NEW S, NEW s \in Seq(S)
    PROVE  Len(s) \in Nat /\ DOMAIN s = 1..Len(s) /\ \A i \in 1..Len(s) : s[i] \in S
OBVIOUS

LEMMA SeqJoined ==
    ASSUME NEW S, NEW s \in Seq(S), NEW e \in Seq(S)
    PROVE  s \o e \in Seq(S) /\ Len(s \o e) = Len(s) + Len(e) /\ Len(s) \in Nat /\ Len(e) \in Nat
OBVIOUS

Places(n) == {k \in 1..10 : Shifted(n, 10, k - 1) > 0} \union {1}

LEMMA DigitsFacts ==
    ASSUME NEW n \in Int
    PROVE  /\ Max(Places(n)) \in 1..10 /\ Max(Places(n)) \in Places(n)
           /\ \A k \in Places(n) : k <= Max(Places(n))
           /\ Digits(n) = [i \in 1..Max(Places(n)) |-> 48 + (Shifted(n, 10, Max(Places(n)) - i) % 10)]
           /\ Digits(n) \in Seq(48..57) /\ Len(Digits(n)) = Max(Places(n))
<1> DEFINE m == Max(Places(n))
<1>1. Places(n) \subseteq 1..10 /\ Places(n) # {} /\ Places(n) \subseteq Nat /\ \A k \in Places(n) : k <= 10
  BY DEF Places
<1>2. m \in Places(n) /\ \A k \in Places(n) : k <= m
  BY <1>1, MaxFacts
<1>3. m \in 1..10
  BY <1>1, <1>2
<1>4. Digits(n) = [i \in 1..m |-> 48 + (Shifted(n, 10, m - i) % 10)]
  BY DEF Digits, Places
<1> HIDE DEF m
<1>5. \A i \in 1..m : (Shifted(n, 10, m - i) % 10) \in 0..9
  <2> SUFFICES ASSUME NEW i \in 1..m PROVE (Shifted(n, 10, m - i) % 10) \in 0..9
    OBVIOUS
  <2>1. m - i \in Nat /\ 10 \in Nat \ {0}
    BY <1>3
  <2>2. Shifted(n, 10, m - i) \in Int
    BY <2>1, ShiftedSteps
  <2> QED
    BY <2>2
<1>6. \A i \in 1..m : 48 + (Shifted(n, 10, m - i) % 10) \in 48..57
  BY <1>5
<1> QED
  BY <1>2, <1>3, <1>4, <1>6, SMTT(30) DEF m

Text == {"text", "bytes", "raw", "tail", "hex", "signed", "unsigned", "line", "line_modify", "line_copy"}
Magnitude(n) == IF n < 0 THEN -n ELSE n
SignedBytes(n) ==
    LET lowest == n = -(Base^WordBytes \div 2)
    IN  (IF n < 0 THEN <<45>> ELSE <<>>) \o
        [i \in DOMAIN Digits(Magnitude(n)) |->
            IF lowest THEN 96 - Digits(Magnitude(n))[i] ELSE Digits(Magnitude(n))[i]]
HexBytes(bytes) ==
    [i \in 1..(2 * Len(bytes)) |->
        HexDigit(IF i % 2 = 1 THEN bytes[(i + 1) \div 2] \div 16 ELSE bytes[(i + 1) \div 2] % 16)]
TextBytes(x) ==
    CASE x.kind \in {"text", "bytes", "raw", "tail"} -> x.items
      [] x.kind = "hex" -> HexBytes(x.items)
      [] x.kind = "signed" -> SignedBytes(x.items[1])
      [] x.kind = "unsigned" -> Digits(x.items[1])
      [] x.kind \in {"line", "line_modify", "line_copy"} -> x.items \o LineEnd

LEMMA SignedBytesFacts ==
    ASSUME NEW n \in Int
    PROVE  SignedBytes(n) \in Seq(Char) /\ Len(SignedBytes(n)) \in 0..11
<1> DEFINE digits == Digits(Magnitude(n))
           lowest == n = -(Base^WordBytes \div 2)
           shown == [i \in DOMAIN digits |-> IF lowest THEN 96 - digits[i] ELSE digits[i]]
           sign == IF n < 0 THEN <<45>> ELSE <<>>
<1>1. Magnitude(n) \in Int
  BY DEF Magnitude
<1>2. digits \in Seq(48..57) /\ Len(digits) \in 1..10
  BY <1>1, DigitsFacts
<1>3. SignedBytes(n) = sign \o shown
  BY DEF SignedBytes
<1> HIDE DEF digits, lowest
<1>4. DOMAIN digits = 1..Len(digits) /\ \A i \in DOMAIN digits : digits[i] \in 48..57
  BY <1>2
<1>5. \A i \in DOMAIN digits : (IF lowest THEN 96 - digits[i] ELSE digits[i]) \in Char
  <2>1. \A d \in 48..57 : (IF lowest THEN 96 - d ELSE d) \in 0..255
    <3>1. CASE lowest
      BY <3>1
    <3>2. CASE ~lowest
      BY <3>2
    <3> QED
      BY <3>1, <3>2
  <2>2. Char = 0..255
    BY DEF Char, Base
  <2> SUFFICES ASSUME NEW i \in DOMAIN digits
               PROVE  (IF lowest THEN 96 - digits[i] ELSE digits[i]) \in Char
    OBVIOUS
  <2>3. digits[i] \in 48..57
    BY <1>4
  <2> QED
    BY ONLY <2>1, <2>2, <2>3
<1>6. shown \in Seq(Char) /\ Len(shown) = Len(digits)
  BY <1>2, <1>4, <1>5
<1>7. sign \in Seq(Char) /\ Len(sign) \in 0..1
  <2>1. 45 \in Char
    BY DEF Char, Base
  <2>2. CASE n < 0
    <3>1. sign = <<45>>
      BY <2>2
    <3> HIDE DEF sign
    <3> QED
      BY <2>1, <3>1
  <2>3. CASE ~(n < 0)
    <3>1. sign = <<>>
      BY <2>3
    <3> HIDE DEF sign
    <3> QED
      BY <3>1
  <2> QED
    BY <2>2, <2>3
<1> HIDE DEF shown, sign
<1>8. sign \o shown \in Seq(Char) /\ Len(sign \o shown) = Len(sign) + Len(shown)
  BY <1>6, <1>7
<1>9. \A k \in 1..10, j \in 0..1 : j + k \in 0..11
  OBVIOUS
<1>10. Len(sign \o shown) \in 0..11
  BY <1>2, <1>6, <1>7, <1>8, <1>9
<1> QED
  BY <1>3, <1>8, <1>10

LEMMA HexBytesFacts ==
    ASSUME NEW bytes \in Seq(Char)
    PROVE  HexBytes(bytes) \in Seq(Char) /\ Len(HexBytes(bytes)) = 2 * Len(bytes)
<1> DEFINE n == Len(bytes)
<1>1. n \in Nat /\ 2 * n \in Nat /\ \A i \in 1..n : bytes[i] \in 0..255
  <2>1. Char = 0..255
    BY DEF Char, Base
  <2>2. bytes \in Seq(0..255)
    BY ONLY <2>1, bytes \in Seq(Char)
  <2>3. n \in Nat /\ \A i \in 1..n : bytes[i] \in 0..255
    BY ONLY <2>2, SeqElements DEF n
  <2> QED
    BY ONLY <2>3
<1> HIDE DEF n
<1>2. ASSUME NEW i \in 1..(2 * n)
      PROVE  HexDigit(IF i % 2 = 1 THEN bytes[(i + 1) \div 2] \div 16 ELSE bytes[(i + 1) \div 2] % 16) \in Char
  <2> DEFINE b == bytes[(i + 1) \div 2]
  <2>1. (i + 1) \div 2 \in 1..n
    BY <1>1
  <2>2. b \in 0..255
    BY <1>1, <2>1
  <2> HIDE DEF b
  <2>3. b \div 16 \in 0..15 /\ (b % 16) \in 0..15
    BY <2>2
  <2>4. (IF i % 2 = 1 THEN b \div 16 ELSE b % 16) \in 0..15
    BY <2>3
  <2>5. ASSUME NEW k \in 0..15 PROVE HexDigit(k) \in Char
    <3>1. CASE k < 10
      <4>1. HexDigit(k) = 48 + k /\ 48 + k \in 0..255
        BY <3>1 DEF HexDigit
      <4> QED
        BY <4>1 DEF Char, Base
    <3>2. CASE ~(k < 10)
      <4>1. HexDigit(k) = 87 + k /\ 87 + k \in 0..255
        BY <3>2 DEF HexDigit
      <4> QED
        BY <4>1 DEF Char, Base
    <3> QED
      BY <3>1, <3>2
  <2> QED
    BY <2>4, <2>5 DEF b
<1>3. HexBytes(bytes) = [i \in 1..(2 * n) |->
          HexDigit(IF i % 2 = 1 THEN bytes[(i + 1) \div 2] \div 16 ELSE bytes[(i + 1) \div 2] % 16)]
  BY DEF HexBytes, n
<1>4. HexBytes(bytes) \in [1..(2 * n) -> Char]
  BY <1>2, <1>3
<1> QED
  BY <1>1, <1>3, <1>4 DEF n

LEMMA TextBytesFacts ==
    ASSUME NEW x, IsSimple(x), x.kind \in Text
    PROVE  /\ TextBytes(x) \in Seq(Char) /\ Len(x.items) \in Nat
           /\ Len(TextBytes(x)) <= 2 * Len(x.items) + 10
<1>1. CASE x.kind \in {"text", "bytes", "raw", "tail"}
  <2>1. x.items \in Seq(Char) /\ TextBytes(x) = x.items
    BY <1>1 DEF IsSimple, TextBytes, Container
  <2> QED
    BY <2>1
<1>2. CASE x.kind = "hex"
  <2>1. x.items \in Seq(Char) /\ TextBytes(x) = HexBytes(x.items)
    BY <1>2 DEF IsSimple, TextBytes, Container
  <2>2. Len(x.items) \in Nat
    BY <2>1
  <2> QED
    BY <2>1, <2>2, HexBytesFacts
<1>3. CASE x.kind = "signed"
  <2>1. IsNumber(x.items, WordBytes) /\ TextBytes(x) = SignedBytes(x.items[1])
    BY <1>3 DEF IsSimple, TextBytes, Container
  <2>2. x.items[1] \in Int /\ Len(x.items) = 1
    BY <2>1 DEF IsNumber, InWidth
  <2>3. TextBytes(x) \in Seq(Char) /\ Len(TextBytes(x)) \in 0..11
    BY <2>1, <2>2, SignedBytesFacts
  <2>5. \A k \in 0..11 : k <= 2 * 1 + 10
    OBVIOUS
  <2>4. Len(TextBytes(x)) <= 2 * 1 + 10
    BY <2>3, <2>5
  <2> QED
    BY ONLY <2>2, <2>3, <2>4
<1>4. CASE x.kind = "unsigned"
  <2>1. IsNumber(x.items, WordBytes) /\ TextBytes(x) = Digits(x.items[1])
    BY <1>4 DEF IsSimple, TextBytes, Container
  <2>2. x.items[1] \in Int /\ Len(x.items) = 1
    BY <2>1 DEF IsNumber, InWidth
  <2>3. Digits(x.items[1]) \in Seq(48..57) /\ Len(Digits(x.items[1])) \in 1..10
    BY <2>2, DigitsFacts
  <2>4. 48..57 \subseteq Char
    BY DEF Char, Base
  <2>5. Digits(x.items[1]) \in Seq(Char)
    BY <2>3, <2>4, SeqMonotonic
  <2>6. Len(TextBytes(x)) \in 1..10
    BY ONLY <2>1, <2>3
  <2>9. \A k \in 1..10 : k <= 2 * 1 + 10
    OBVIOUS
  <2>7. Len(TextBytes(x)) <= 2 * 1 + 10
    BY <2>6, <2>9
  <2>8. TextBytes(x) \in Seq(Char)
    BY <2>1, <2>5
  <2> QED
    BY ONLY <2>2, <2>7, <2>8
<1>5. CASE x.kind \in {"line", "line_modify", "line_copy"}
  <2>1. x.items \in Seq(Char) /\ TextBytes(x) = x.items \o LineEnd
    BY <1>5 DEF IsSimple, TextBytes, Container
  <2>2. LineEnd \in Seq(Char) /\ Len(LineEnd) = 2
    <3>1. 13 \in Char /\ 10 \in Char
      BY DEF Char, Base
    <3> QED
      BY <3>1 DEF LineEnd
  <2> DEFINE s == x.items
             e == LineEnd
  <2>3. s \in Seq(Char) /\ e \in Seq(Char) /\ Len(e) = 2 /\ TextBytes(x) = s \o e /\ x.items = s
    BY <2>1, <2>2
  <2> HIDE DEF s, e
  <2>6. s \in Seq(Char) /\ e \in Seq(Char) /\ Len(e) = 2
    BY <2>3
  <2>7. s \o e \in Seq(Char) /\ Len(s \o e) = Len(s) + Len(e) /\ Len(s) \in Nat
    BY ONLY <2>6, SeqJoined
  <2>4. s \o e \in Seq(Char) /\ Len(s \o e) = Len(s) + 2 /\ Len(s) \in Nat
    BY ONLY <2>6, <2>7
  <2>5. Len(s) + 2 <= 2 * Len(s) + 10
    BY ONLY <2>4
  <2> QED
    BY ONLY <2>3, <2>4, <2>5
<1> QED
  BY <1>1, <1>2, <1>3, <1>4, <1>5 DEF Text

LEMMA TextWritten ==
    ASSUME NEW b, IsBuffer(b), NEW x, IsSimple(x), x.kind \in Text
    PROVE  /\ Writes(b, AppendSimple(b, x), TextBytes(x))
           /\ x.kind # "text" => AppendSimple(b, x) = AppendAsText(b, x)
<1>1. TextBytes(x) \in Seq(Cell)
  BY TextBytesFacts, CharsAreCells
<1>2. x.kind = "text" => AppendSimple(b, x) = AppendBytes(b, TextBytes(x))
  BY DEF AppendSimple, DoAppendString, AppendText, TextBytes
<1>3. x.kind # "text" => AppendSimple(b, x) = AppendAsText(b, x)
  BY DEF AppendSimple, Text
<1>4. x.kind # "text" => AppendAsText(b, x) = AppendBytes(b, TextBytes(x))
  <2>1. CASE x.kind \in {"bytes", "raw", "tail"}
    BY <2>1 DEF AppendAsText, TextBytes
  <2>2. CASE x.kind = "hex"
    BY <2>2 DEF AppendAsText, TextBytes, AppendTextBinary, HexBytes
  <2>3. CASE x.kind = "signed"
    BY <2>3 DEF AppendAsText, TextBytes, AppendSignedInteger, SignedBytes, Magnitude
  <2>4. CASE x.kind = "unsigned"
    BY <2>4 DEF AppendAsText, TextBytes, AppendUnsignedInteger
  <2>5. CASE x.kind \in {"line", "line_modify", "line_copy"}
    BY <2>5 DEF AppendAsText, TextBytes, AppendText
  <2> QED
    BY <2>1, <2>2, <2>3, <2>4, <2>5 DEF Text
<1> QED
  BY <1>1, <1>2, <1>3, <1>4, BytesWritten

\* It is measured by writing it to a buffer that is long enough.
LEMMA LengthOfText ==
    ASSUME NEW x, IsSimple(x), x.kind \in Text \ {"text"}
    PROVE  LengthAsText(x) = Len(TextBytes(x)) /\ LengthAsText(x) \in Nat
<1> DEFINE n == 2 * Len(x.items) + 10
           b == Allocated(n)
           c == AppendAsText(b, x)
<1>1. Len(TextBytes(x)) \in Nat /\ n \in Nat /\ Len(TextBytes(x)) <= n
  BY TextBytesFacts
<1> HIDE DEF n
<1>2. IsBuffer(b) /\ b.at = 0 /\ b.size = 0 /\ b.ok /\ Len(b.mem) = n
  BY <1>1, AllocatedIsBuffer
<1> HIDE DEF b
<1>3. Writes(b, c, TextBytes(x))
  BY <1>2, TextWritten
<1>4. HasRoom(b, Len(TextBytes(x)))
  BY <1>1, <1>2 DEF HasRoom, End
<1>5. c.ok /\ c.size = 0 + Len(TextBytes(x))
  BY <1>2, <1>3, <1>4 DEF Writes, Appends
<1>6. LengthAsText(x) = c.size
  BY DEF LengthAsText, n, b, c
<1> QED
  BY <1>1, <1>5, <1>6

-----------------------------------------------------------------------------
(* What is written for a value without members *)

SimpleBytes(e, x, ahead) ==
    /\ x.kind \in {"byte", "number", "trailer"} => e = Encoded(x.items[1], Width(x))
    /\ x.kind \in {"string", "view", "copy", "literal"} => e = StringBytes(x.items)
    /\ x.kind = "buffer" => e = BufferBytes(x.items)
    /\ x.kind = "skip" => Len(e) = x.items[1]
    /\ x.kind \in Text => e = TextBytes(x)
    /\ x.kind = "initializer" =>
          Joins(e, IF ahead THEN Reverse(ElementParts(x.of, x.items)) ELSE ElementParts(x.of, x.items))
    /\ x.kind \in Container => Counted(e, Len(x.items), ElementParts(x.of, x.items))
    /\ x.kind = "map" =>
          Counted(e, Len(x.items), IF ahead THEN Reverse(PairParts(x.key, x.of, x.items))
                                   ELSE PairParts(x.key, x.of, x.items))
WritesSimple(b, c, x) ==
    /\ SizeOfSimple(x) \in Nat
    /\ Appends(b, c, SizeOfSimple(x))
    /\ HasRoom(b, SizeOfSimple(x)) /\ ~RefusableSimple(x) => c.ok
    /\ c.ok => SimpleBytes(Added(b, c), x, FALSE)
WritesSimpleAhead(b, c, x) ==
    /\ Prepends(b, c, SizeOfSimple(x))
    /\ HasRoomAhead(b, SizeOfSimple(x)) => c.ok
    /\ c.ok => SimpleBytes(Ahead(b, c), x, TRUE)

LEMMA BytesOfSimple ==
    ASSUME NEW b, NEW c, NEW x, NEW e \in Seq(Cell), Writes(b, c, e), Len(e) = SizeOfSimple(x),
           SimpleBytes(e, x, FALSE)
    PROVE  WritesSimple(b, c, x)
<1>1. Len(e) \in Nat
  OBVIOUS
<1> QED
  BY <1>1 DEF Writes, WritesSimple

LEMMA BytesOfSimpleAhead ==
    ASSUME NEW b, NEW c, NEW x, NEW e, WritesAhead(b, c, e), Len(e) = SizeOfSimple(x),
           SimpleBytes(e, x, TRUE)
    PROVE  WritesSimpleAhead(b, c, x)
BY DEF WritesAhead, WritesSimpleAhead

LEMMA NumberValue ==
    ASSUME NEW x, IsSimple(x), x.kind \in {"byte", "number", "trailer"}
    PROVE  /\ x.items[1] \in Int /\ Width(x) \in Nat \ {0} /\ SizeOfSimple(x) = Width(x)
           /\ InWidth(x.items[1], Width(x))
           /\ Encoded(x.items[1], Width(x)) \in Seq(Cell)
           /\ Len(Encoded(x.items[1], Width(x))) = Width(x)
<1>1. InWidth(x.items[1], Width(x))
  BY DEF IsSimple, IsNumber, Width, Container
<1>2. x.items[1] \in Int /\ Width(x) \in Nat \ {0}
  BY <1>1, Widths DEF InWidth, Width
<1>3. SizeOfSimple(x) = Width(x)
  BY DEF SizeOfSimple, SizeOfGeneral, SizeWithout, Width
<1>4. Encoded(x.items[1], Width(x)) \in Seq(Cell) /\ Len(Encoded(x.items[1], Width(x))) = Width(x)
  BY <1>2, EncodedType, CharsAreCells
<1> QED
  BY <1>1, <1>2, <1>3, <1>4

LEMMA NumberValueWritten ==
    ASSUME NEW b, IsBuffer(b), NEW x, IsSimple(x), x.kind \in {"byte", "number", "trailer"}
    PROVE  WritesSimple(b, AppendSimple(b, x), x)
<1>1. AppendSimple(b, x) = AppendBytes(b, Encoded(x.items[1], Width(x)))
  BY DEF AppendSimple, DoAppendGeneral, AppendGeneral
<1>2. SimpleBytes(Encoded(x.items[1], Width(x)), x, FALSE)
  BY DEF SimpleBytes, Text, Container
<1> QED
  BY <1>1, <1>2, NumberValue, BytesWritten, BytesOfSimple

LEMMA StringValue ==
    ASSUME NEW x, IsSimple(x), x.kind \in {"string", "view", "copy", "literal"}
    PROVE  /\ x.items \in Seq(Char) /\ StringBytes(x.items) \in Seq(Cell)
           /\ Len(StringBytes(x.items)) = SizeOfSimple(x)
           /\ InWidth(Len(x.items) + 1, CountBytes)
<1>1. x.items \in Seq(Char) /\ InWidth(Len(x.items) + 1, CountBytes)
  BY DEF IsSimple, IsCounted, Container
<1>2. StringBytes(x.items) \in Seq(Cell) /\ Len(StringBytes(x.items)) = SizeOfString(x.items)
  BY <1>1, StringBytesFacts, CharsAreCells
<1>3. SizeOfSimple(x) = SizeOfString(x.items)
  <2>1. CASE x.kind = "literal"
    <3>1. 0 \in Char /\ <<0>> \in Seq(Char) /\ Len(<<0>>) = 1
      BY DEF Char, Base
    <3>2. Len(Chars(x)) = Len(x.items) + 1
      BY <1>1, <3>1, SeqJoined DEF Chars
    <3>3. SizeOfSimple(x) = CountBytes + Len(Chars(x))
      BY <2>1 DEF SizeOfSimple, SizeOfLiteral
    <3>4. Len(x.items) \in Nat /\ CountBytes \in Nat
      BY <1>1, Widths
    <3> QED
      BY <3>2, <3>3, <3>4 DEF SizeOfString
  <2>2. CASE x.kind \in {"string", "view"}
    BY <2>2 DEF SizeOfSimple, SizeOfStringType
  <2>3. CASE x.kind = "copy"
    BY <2>3 DEF SizeOfSimple, SizeWithout
  <2> QED
    BY <2>1, <2>2, <2>3
<1> QED
  BY <1>1, <1>2, <1>3

LEMMA LiteralFacts ==
    ASSUME NEW x, x.items \in Seq(Char)
    PROVE  /\ Chars(x) \in Seq(Cell) /\ Len(Chars(x)) = Len(x.items) + 1 /\ Len(x.items) + 1 \in Int
           /\ Encoded(Len(x.items) + 1, CountBytes) \o Chars(x) = StringBytes(x.items)
<1> DEFINE s == x.items
           z == <<0>>
           e == Encoded(Len(s) + 1, CountBytes)
<1>1. s \in Seq(Char) /\ Len(s) + 1 \in Int
  OBVIOUS
<1>2. z \in Seq(Char) /\ Len(z) = 1
  <2>1. 0 \in Char
    BY DEF Char, Base
  <2> QED
    BY <2>1
<1>3. e \in Seq(Char)
  BY <1>1, Widths, EncodedType
<1>4. Chars(x) = s \o z /\ StringBytes(s) = (e \o s) \o z
  BY DEF Chars, StringBytes
<1> HIDE DEF s, z, e
<1>5. s \o z \in Seq(Char) /\ Len(s \o z) = Len(s) + 1
  BY <1>1, <1>2, SeqJoined
<1>6. e \o (s \o z) = (e \o s) \o z
  <2>1. e \in Seq(Char)
    BY <1>3
  <2>2. s \in Seq(Char)
    BY <1>1
  <2>3. z \in Seq(Char)
    BY <1>2
  <2>4. (e \o s) \o z = e \o (s \o z)
    BY <2>1, <2>2, <2>3, ConcatAssociative
  <2> QED
    BY <2>4
<1>7. Chars(x) \in Seq(Cell)
  BY <1>4, <1>5, CharsAreCells
<1> QED
  BY <1>1, <1>4, <1>5, <1>6, <1>7 DEF s, e

LEMMA StringValueWritten ==
    ASSUME NEW b, IsBuffer(b), NEW x, IsSimple(x), x.kind \in {"string", "view", "copy", "literal"}
    PROVE  WritesSimple(b, AppendSimple(b, x), x)
<1>1. SimpleBytes(StringBytes(x.items), x, FALSE)
  BY DEF SimpleBytes, Text, Container
<1>2. Writes(b, AppendSimple(b, x), StringBytes(x.items))
  <2>1. CASE x.kind \in {"string", "view", "copy"}
    <3>1. AppendSimple(b, x) = AppendBytes(b, StringBytes(x.items))
      BY <2>1 DEF AppendSimple, DoAppendString, AppendString, StringBytes
    <3> QED
      BY <3>1, StringValue, BytesWritten
  <2>2. CASE x.kind = "literal"
    <3>1. x.items \in Seq(Char)
      BY StringValue
    <3>2. /\ Chars(x) \in Seq(Cell) /\ Len(Chars(x)) = Len(x.items) + 1 /\ Len(x.items) + 1 \in Int
          /\ Encoded(Len(x.items) + 1, CountBytes) \o Chars(x) = StringBytes(x.items)
      BY <3>1, LiteralFacts
    <3> DEFINE c == AppendCount(b, Len(x.items) + 1)
               e == Encoded(Len(x.items) + 1, CountBytes)
               d == AppendBytes(c, Chars(x))
    <3>3. Writes(b, c, e) /\ e \in Seq(Cell)
      BY <3>2, CountWrites
    <3>4. AppendSimple(b, x) = d
      BY <2>2, <3>2 DEF AppendSimple, DoAppendArray
    <3>5. IsBuffer(c)
      BY <3>3 DEF Writes, Appends
    <3> HIDE DEF c, e
    <3>6. Writes(c, d, Chars(x))
      BY <3>2, <3>5, BytesWritten
    <3> HIDE DEF d
    <3>7. Writes(b, d, e \o Chars(x))
      BY <3>2, <3>3, <3>6, WritesTwice
    <3> QED
      BY <3>2, <3>4, <3>7 DEF e
  <2> QED
    BY <2>1, <2>2
<1> QED
  BY <1>1, <1>2, StringValue, BytesOfSimple

LEMMA BufferValueWritten ==
    ASSUME NEW b, IsBuffer(b), NEW x, IsSimple(x), x.kind = "buffer"
    PROVE  WritesSimple(b, AppendSimple(b, x), x)
<1>1. x.items \in Seq(Char)
  BY DEF IsSimple, IsSized, Container
<1>2. BufferBytes(x.items) \in Seq(Cell) /\ Len(BufferBytes(x.items)) = SizeOfBuffer(x.items)
  BY <1>1, BufferBytesFacts, CharsAreCells
<1>3. SizeOfSimple(x) = SizeOfBuffer(x.items)
  BY DEF SizeOfSimple, SizeOfBufferType
<1>4. AppendSimple(b, x) = AppendBytes(b, BufferBytes(x.items))
  BY DEF AppendSimple, DoAppendBuffer, AppendBuffer, BufferBytes
<1>5. SimpleBytes(BufferBytes(x.items), x, FALSE)
  BY DEF SimpleBytes, Text, Container
<1> QED
  BY <1>2, <1>3, <1>4, <1>5, BytesWritten, BytesOfSimple

LEMMA SkipWritten ==
    ASSUME NEW b, IsBuffer(b), NEW x, IsSimple(x), x.kind = "skip"
    PROVE  WritesSimple(b, AppendSimple(b, x), x)
<1> DEFINE n == x.items[1]
           c == AppendSkip(b, n)
<1>1. n \in Nat
  <2>1. x.items \in Seq(Nat) /\ Len(x.items) = 1
    BY DEF IsSimple, Container
  <2> QED
    BY <2>1
<1>2. AppendSimple(b, x) = c /\ SizeOfSimple(x) = n /\ ~RefusableSimple(x)
  BY DEF AppendSimple, DoAppendSkip, SizeOfSimple, SizeOfSkip, RefusableSimple
<1> HIDE DEF n
<1>3. Appends(b, c, n) /\ (HasRoom(b, n) => c.ok)
  BY <1>1, SkipAppends
<1> HIDE DEF c
<1>4. c.ok => Len(Added(b, c)) = n
  <2> SUFFICES ASSUME c.ok PROVE Len(Added(b, c)) = n
    OBVIOUS
  <2> DEFINE p == End(b)
             q == End(c)
  <2>1. b.ok /\ IsBuffer(c) /\ c.size = b.size + n /\ c.at = b.at
    BY <1>3 DEF Appends
  <2>2. p \in Nat /\ q = p + n /\ q <= Len(c.mem) /\ c.mem \in Seq(Cell) /\ Len(c.mem) \in Nat
    <3>1. b.at \in Nat /\ b.size \in Nat
      BY <2>1, BufferFacts
    <3>2. q \in Int /\ q <= Len(c.mem) /\ c.mem \in Seq(Cell) /\ Len(c.mem) \in Nat
      BY <2>1, BufferFacts
    <3>3. p = b.at + b.size /\ q = b.at + (b.size + n)
      BY <2>1 DEF End
    <3> HIDE DEF p, q
    <3> QED
      BY <1>1, <3>1, <3>2, <3>3
  <2>3. Added(b, c) = SubSeq(c.mem, p + 1, q)
    BY DEF Added
  <2> HIDE DEF p, q
  <2> QED
    BY <1>1, <2>2, <2>3, SubSeqProperties
<1>5. c.ok => SimpleBytes(Added(b, c), x, FALSE)
  BY <1>4 DEF SimpleBytes, n, Text, Container
<1> QED
  BY <1>1, <1>2, <1>3, <1>5 DEF WritesSimple

LEMMA TextValueWritten ==
    ASSUME NEW b, IsBuffer(b), NEW x, IsSimple(x), x.kind \in Text
    PROVE  WritesSimple(b, AppendSimple(b, x), x)
<1>1. TextBytes(x) \in Seq(Cell)
  BY TextBytesFacts, CharsAreCells
<1>2. Len(TextBytes(x)) = SizeOfSimple(x)
  <2>1. CASE x.kind = "text"
    BY <2>1 DEF SizeOfSimple, SizeOfStringType, TextBytes
  <2>2. CASE x.kind # "text"
    <3>1. SizeOfSimple(x) = LengthAsText(x)
      BY <2>2 DEF SizeOfSimple, SizeWithout, Text
    <3> QED
      BY <2>2, <3>1, LengthOfText
  <2> QED
    BY <2>1, <2>2
<1>3. SimpleBytes(TextBytes(x), x, FALSE)
  BY DEF SimpleBytes, Text, Container
<1> QED
  BY <1>1, <1>2, <1>3, TextWritten, BytesOfSimple

LEMMA ElementsOfSimple ==
    ASSUME NEW x, IsSimple(x), x.kind \in Container \union {"initializer"}
    PROVE  /\ AreElements(x.of, x.items) /\ Len(x.items) \in Int
           /\ x.kind = "span" => x.of = "number"
           /\ x.kind \in Container => InWidth(Len(x.items), CountBytes)
           /\ Total(Lengths(ElementParts(x.of, x.items))) \in Nat
           /\ x.kind \in Container => SizeOfSimple(x) = CountBytes + Total(Lengths(ElementParts(x.of, x.items)))
           /\ x.kind = "initializer" => SizeOfSimple(x) = Total(Lengths(ElementParts(x.of, x.items)))
<1>1. /\ IsSeq(x.items) /\ \A i \in DOMAIN x.items : IsElement(x.of, x.items[i])
      /\ x.kind = "span" => x.of = "number"
      /\ x.kind \in Container => InWidth(Len(x.items), CountBytes)
  BY DEF IsSimple, Container
<1>2. AreElements(x.of, x.items)
  BY <1>1 DEF AreElements
<1> DEFINE t == Total(Lengths(ElementParts(x.of, x.items)))
<1>3. t \in Nat
  BY <1>2, AllocatedIsBuffer, ElementsWritten
<1>4. Len(x.items) \in Int
  BY <1>1, SeqFacts
<1>5. SizeOfElements(x) = CountBytes + t
  BY <1>2, ElementPartsFacts DEF SizeOfElements
<1>6. x.kind \in Container => SizeOfSimple(x) = CountBytes + t
  <2>1. CASE x.kind = "span"
    <3>1. SizeOfSimple(x) = CountBytes + WordBytes * Len(x.items)
      BY <2>1 DEF SizeOfSimple, SizeOfSpan
    <3>2. t = WordBytes * Len(x.items)
      BY <1>1, <1>2, <2>1, NumberBytesFacts
    <3> QED
      BY <3>1, <3>2
  <2>2. CASE x.kind \in {"iterator", "list", "vector", "set", "array"}
    <3>1. SizeOfSimple(x) = SizeOfElements(x)
      BY <2>2 DEF SizeOfSimple, SizeWithout, SizeOfArray, SizeOfLinear, SizeOfReserve, SizeOfSet
    <3> QED
      BY <1>5, <3>1
  <2> QED
    BY <2>1, <2>2 DEF Container
<1>7. x.kind = "initializer" => SizeOfSimple(x) = t
  <2> SUFFICES ASSUME x.kind = "initializer" PROVE SizeOfSimple(x) = t
    OBVIOUS
  <2>1. SizeOfSimple(x) = SizeOfElements(x) - CountBytes
    BY DEF SizeOfSimple, SizeWithout
  <2> HIDE DEF t
  <2>2. CountBytes \in Nat
    BY Widths
  <2> QED
    BY <1>3, <1>5, <2>1, <2>2
<1> QED
  BY <1>1, <1>2, <1>3, <1>4, <1>6, <1>7

LEMMA CountedOfSimple ==
    ASSUME NEW x, IsSimple(x), x.kind \in Container, NEW b, NEW c,
           WritesCounted(b, c, Total(Lengths(ElementParts(x.of, x.items))), Len(x.items),
                         ElementParts(x.of, x.items))
    PROVE  WritesSimple(b, c, x)
<1> DEFINE t == Total(Lengths(ElementParts(x.of, x.items)))
<1>1. SizeOfSimple(x) = CountBytes + t /\ t \in Nat /\ CountBytes \in Nat
  BY ElementsOfSimple, Widths
<1>2. c.ok => SimpleBytes(Added(b, c), x, FALSE)
  BY DEF WritesCounted, SimpleBytes, Container, Text
<1> HIDE DEF t
<1>3. CountBytes + t \in Nat
  BY <1>1
<1>4. WritesCounted(b, c, t, Len(x.items), ElementParts(x.of, x.items))
  BY DEF t
<1> QED
  BY <1>1, <1>2, <1>3, <1>4 DEF WritesCounted, WritesSimple

LEMMA ElementsCounted ==
    ASSUME NEW b, IsBuffer(b), NEW of, NEW items, AreElements(of, items)
    PROVE  /\ WritesCounted(b, AppendElements(AppendCount(b, Len(items)), of, items),
                            Total(Lengths(ElementParts(of, items))), Len(items), ElementParts(of, items))
           /\ WritesCounted(b, AppendIterator(b, of, items),
                            Total(Lengths(ElementParts(of, items))), Len(items), ElementParts(of, items))
<1> DEFINE n == Len(items)
           parts == ElementParts(of, items)
           t == Total(Lengths(parts))
           c == AppendCount(b, n)
           s == AppendSkip(b, CountBytes)
<1>1. n \in Int
  BY ElementPartsFacts
<1>2. IsBuffer(c)
  BY <1>1, CountWrites DEF Writes, Appends
<1>3. IsBuffer(s)
  BY Widths, SkipAppends DEF Appends
<1>4. t \in Nat
  BY ElementsWritten
<1>5. WritesParts(c, AppendElements(c, of, items), t, parts)
  BY <1>2, ElementsWritten
<1>6. WritesParts(s, AppendElements(s, of, items), t, parts)
  BY <1>3, ElementsWritten
<1>7. WritesCounted(b, AppendElements(c, of, items), t, n, parts)
  BY <1>1, <1>4, <1>5, CountedWritten
<1>8. WritesCounted(b, CountWritten(AppendElements(s, of, items), b.at + b.size, n), t, n, parts)
  BY <1>1, <1>4, <1>6, CountedAfterwards
<1> QED
  BY <1>7, <1>8 DEF AppendIterator

LEMMA NumbersCounted ==
    ASSUME NEW b, IsBuffer(b), NEW items, AreElements("number", items)
    PROVE  /\ WritesCounted(b, AppendArrayCopy(b, items), Total(Lengths(ElementParts("number", items))),
                            Len(items), ElementParts("number", items))
           /\ WritesCounted(b, AppendContainerArrayCopy(b, items),
                            Total(Lengths(ElementParts("number", items))),
                            Len(items), ElementParts("number", items))
<1> DEFINE n == Len(items)
           parts == ElementParts("number", items)
           t == Total(Lengths(parts))
           c == AppendCount(b, n)
           e == NumberBytes(items)
           d == AppendBytes(c, e)
<1>1. n \in Int
  BY ElementPartsFacts
<1>2. IsBuffer(c)
  BY <1>1, CountWrites DEF Writes, Appends
<1>3. e \in Seq(Cell) /\ Len(e) = t /\ Joins(e, parts)
  BY NumberBytesFacts
<1>3a. t \in Nat
  BY ElementsWritten
<1>4. Writes(c, d, e)
  BY <1>2, <1>3, BytesWritten
<1>5. WritesParts(c, d, t, parts)
  BY <1>3, <1>4 DEF Writes, WritesParts
<1>6. WritesCounted(b, d, t, n, parts)
  BY <1>1, <1>3a, <1>5, CountedWritten
<1>7. AppendArrayCopy(b, items) = d
  BY DEF AppendArrayCopy
<1>8. WritesCounted(b, AppendContainerArrayCopy(b, items), t, n, parts)
  <2>1. CASE items # <<>>
    <3>1. AppendContainerArrayCopy(b, items) = d
      BY <2>1 DEF AppendContainerArrayCopy
    <3> QED
      BY <1>6, <3>1
  <2>2. CASE items = <<>>
    <3>1. AppendContainerArrayCopy(b, items) = c
      BY <2>2 DEF AppendContainerArrayCopy
    <3>2. n = 0
      BY <2>2
    <3>2a. Len(e) = WordBytes * n /\ WordBytes \in Nat
      BY NumberBytesFacts, Widths
    <3>3. Len(e) = 0
      BY <3>2, <3>2a
    <3>4. e = <<>>
      BY <1>3, <3>3
    <3>5. Appends(c, c, 0)
      BY <1>2, AppendsNothing
    <3>6. t = 0
      BY <1>3, <3>3
    <3>7. c.ok => Added(c, c) = <<>>
      <4> SUFFICES ASSUME c.ok PROVE Added(c, c) = <<>>
        OBVIOUS
      <4> DEFINE p == End(c)
      <4>1. p \in Nat /\ c.mem \in Seq(Cell)
        BY <1>2, BufferFacts
      <4>2. Added(c, c) = SubSeq(c.mem, p + 1, p)
        BY DEF Added
      <4> HIDE DEF p
      <4> QED
        BY <4>1, <4>2
    <3> HIDE DEF t, c, e, parts
    <3>8. WritesParts(c, c, t, parts)
      BY <1>3, <3>4, <3>5, <3>6, <3>7 DEF WritesParts, HasRoom
    <3> QED
      BY <1>1, <1>3a, <3>1, <3>8, CountedWritten DEF c
  <2> QED
    BY <2>1, <2>2
<1> QED
  BY <1>6, <1>7, <1>8

\* The room that is required and not used.
LEMMA RequireFacts ==
    ASSUME NEW b, IsBuffer(b), NEW n
    PROVE  /\ IsBuffer(Require(b, n))
           /\ \A c, k : Appends(Require(b, n), c, k) => Appends(b, c, k)
           /\ \A c : Added(Require(b, n), c) = Added(b, c)
<1> DEFINE r == Require(b, n)
<1>1. b.mem \in Seq(Cell) /\ b.at \in Nat /\ b.size \in Int /\ b.ok \in BOOLEAN /\ b \in Buffers
  BY BufferFacts DEF Bufs
<1>2. r.mem = b.mem /\ r.at = b.at /\ r.size = b.size /\ (r.ok => b.ok) /\ r \in Buffers
  <2>1. r = [mem |-> b.mem, at |-> b.at, size |-> b.size, ok |-> b.ok /\ b.at + b.size + n <= Len(b.mem)]
    BY <1>1 DEF Require, Buffers
  <2> HIDE DEF r
  <2>2. r.mem = b.mem /\ r.at = b.at /\ r.size = b.size /\ r.ok = (b.ok /\ b.at + b.size + n <= Len(b.mem))
    BY <2>1
  <2>3. (b.ok /\ b.at + b.size + n <= Len(b.mem)) \in BOOLEAN
    OBVIOUS
  <2> QED
    BY <1>1, <2>1, <2>2, <2>3 DEF Buffers
<1> HIDE DEF r
<1>3. IsBuffer(r)
  BY <1>2 DEF IsBuffer, End
<1>4. End(r) = End(b)
  BY <1>2 DEF End
<1>5. \A c, k : Appends(r, c, k) => Appends(b, c, k)
  BY <1>2, <1>4 DEF Appends
<1>6. \A c : Added(r, c) = Added(b, c)
  BY <1>4 DEF Added
<1> QED
  BY <1>3, <1>5, <1>6 DEF r

LEMMA ContainerWritten ==
    ASSUME NEW b, IsBuffer(b), NEW x, IsSimple(x), x.kind \in Container
    PROVE  WritesSimple(b, AppendSimple(b, x), x)
<1>1. AreElements(x.of, x.items) /\ (x.kind = "span" => x.of = "number")
  BY ElementsOfSimple DEF Container
<1>2. CASE x.kind \in {"list", "span", "set"} \/ (x.kind = "vector" /\ ~Copied(x))
  <2>1. AppendSimple(b, x) = AppendElements(AppendCount(b, Len(x.items)), x.of, x.items)
    BY <1>2 DEF AppendSimple, DoAppendLinear, DoAppendSpan, DoAppendSet, DoAppendReserve,
                AppendContainerList, AppendContainerArray
  <2> QED
    BY <1>1, <2>1, ElementsCounted, CountedOfSimple
<1>3. CASE x.kind = "iterator"
  <2>1. AppendSimple(b, x) = AppendIterator(b, x.of, x.items)
    BY <1>3 DEF AppendSimple, DoAppendIterator
  <2> QED
    BY <1>1, <2>1, ElementsCounted, CountedOfSimple
<1>4. CASE x.kind \in {"vector", "array"} /\ Copied(x)
  <2>1. x.of = "number"
    BY <1>4 DEF Copied
  <2>2. AppendSimple(b, x) = AppendArrayCopy(b, x.items) \/ AppendSimple(b, x) = AppendContainerArrayCopy(b, x.items)
    BY <1>4 DEF AppendSimple, DoAppendReserve, DoAppendArray
  <2> QED
    BY <1>1, <2>1, <2>2, NumbersCounted, CountedOfSimple
<1>5. CASE x.kind = "array" /\ ~Copied(x)
  <2> DEFINE r == Require(b, ObjectBytes * Len(x.items))
             c == AppendElements(AppendCount(r, Len(x.items)), x.of, x.items)
  <2>1. AppendSimple(b, x) = c
    BY <1>5 DEF AppendSimple, DoAppendArray, AppendArray
  <2>2. IsBuffer(r)
    BY RequireFacts
  <2>2a. \A d, k : Appends(r, d, k) => Appends(b, d, k)
    BY RequireFacts
  <2>2b. \A d : Added(r, d) = Added(b, d)
    BY RequireFacts
  <2>3. WritesSimple(r, c, x)
    BY <1>1, <2>2, ElementsCounted, CountedOfSimple
  <2>4. RefusableSimple(x)
    BY <1>5 DEF RefusableSimple, Copied
  <2> HIDE DEF r, c
  <2>5. Appends(b, c, SizeOfSimple(x))
    BY <2>2a, <2>3 DEF WritesSimple
  <2>6. Added(r, c) = Added(b, c)
    BY <2>2b
  <2> QED
    BY <2>1, <2>3, <2>4, <2>5, <2>6 DEF WritesSimple
<1> QED
  BY <1>2, <1>3, <1>4, <1>5 DEF Container

LEMMA InitializerWritten ==
    ASSUME NEW b, IsBuffer(b), NEW x, IsSimple(x), x.kind = "initializer"
    PROVE  WritesSimple(b, AppendSimple(b, x), x)
<1> DEFINE parts == ElementParts(x.of, x.items)
           t == Total(Lengths(parts))
           c == AppendElements(b, x.of, x.items)
<1>1. AppendSimple(b, x) = c
  BY DEF AppendSimple, DoAppendIterator, AppendInitializerList
<1>2. SizeOfSimple(x) = t /\ t \in Nat /\ AreElements(x.of, x.items)
  BY ElementsOfSimple
<1>3. WritesParts(b, c, t, parts)
  BY <1>2, ElementsWritten
<1>4. c.ok => SimpleBytes(Added(b, c), x, FALSE)
  BY <1>3 DEF WritesParts, SimpleBytes, Text, Container
<1> HIDE DEF c, t
<1> QED
  BY <1>1, <1>2, <1>3, <1>4 DEF WritesSimple, WritesParts

LEMMA MapFacts ==
    ASSUME NEW x, IsSimple(x), x.kind = "map"
    PROVE  /\ ArePairs(x.key, x.of, x.items) /\ InWidth(Len(x.items), CountBytes)
           /\ \A i \in DOMAIN x.items : x.items[i] = <<x.items[i][1], x.items[i][2]>>
           /\ Total(Lengths(PairParts(x.key, x.of, x.items))) \in Nat
           /\ SizeOfSimple(x) = CountBytes + Total(Lengths(PairParts(x.key, x.of, x.items)))
           /\ SizeOfSimple(x) \in Nat
<1>1. /\ IsSeq(x.items) /\ InWidth(Len(x.items), CountBytes)
      /\ \A i \in DOMAIN x.items : /\ x.items[i] = <<x.items[i][1], x.items[i][2]>>
                                   /\ IsElement(x.key, x.items[i][1]) /\ IsElement(x.of, x.items[i][2])
  BY DEF IsSimple, Container
<1>2. ArePairs(x.key, x.of, x.items)
  BY <1>1 DEF ArePairs, IsPair
<1> DEFINE t == Total(Lengths(PairParts(x.key, x.of, x.items)))
<1>3. t \in Nat
  BY <1>2, AllocatedIsBuffer, PairsWritten
<1>4. SizeOfSimple(x) = CountBytes + t
  <2>1. SizeOfSimple(x) = CountBytes + Total([i \in DOMAIN x.items |->
                              SizeOfElement(x.key, x.items[i][1]) + SizeOfElement(x.of, x.items[i][2])])
    BY DEF SizeOfSimple, SizeOfAssociative
  <2>2. Lengths(PairParts(x.key, x.of, x.items)) =
            [i \in DOMAIN x.items |-> SizeOfElement(x.key, x.items[i][1]) + SizeOfElement(x.of, x.items[i][2])]
    <3> DEFINE parts == PairParts(x.key, x.of, x.items)
    <3>1. DOMAIN x.items = 1..Len(x.items) /\ DOMAIN parts = DOMAIN x.items
      BY <1>2, PairPartsFacts DEF PairParts
    <3>2. ASSUME NEW i \in DOMAIN x.items
          PROVE  Len(parts[i]) = SizeOfElement(x.key, x.items[i][1]) + SizeOfElement(x.of, x.items[i][2])
      <4>1. IsPair(x.key, x.of, x.items[i])
        BY <1>2 DEF ArePairs
      <4>2. parts[i] = PairBytes(x.key, x.of, x.items[i])
        BY DEF PairParts
      <4> QED
        BY <4>1, <4>2, PairBytesFacts
    <3>3. Lengths(parts) = [i \in DOMAIN x.items |-> Len(parts[i])]
      BY <3>1 DEF Lengths
    <3> HIDE DEF parts
    <3>4. Lengths(parts) =
            [i \in DOMAIN x.items |-> SizeOfElement(x.key, x.items[i][1]) + SizeOfElement(x.of, x.items[i][2])]
      BY <3>2, <3>3
    <3> QED
      BY <3>4 DEF parts
  <2> QED
    BY <2>1, <2>2
<1> HIDE DEF t
<1>5. CountBytes + t \in Nat
  BY <1>3, Widths
<1> QED
  BY <1>1, <1>2, <1>3, <1>4, <1>5 DEF t

LEMMA MapWritten ==
    ASSUME NEW b, IsBuffer(b), NEW x, IsSimple(x), x.kind = "map"
    PROVE  WritesSimple(b, AppendSimple(b, x), x)
<1> DEFINE c == AppendContainerAssociative(b, x.key, x.of, x.items)
           t == Total(Lengths(PairParts(x.key, x.of, x.items)))
<1>1. AppendSimple(b, x) = c
  BY DEF AppendSimple, DoAppendAssociative
<1>2. ArePairs(x.key, x.of, x.items) /\ SizeOfSimple(x) = CountBytes + t /\ SizeOfSimple(x) \in Nat
  BY MapFacts
<1>3. WritesCounted(b, c, t, Len(x.items), PairParts(x.key, x.of, x.items))
  BY <1>2, PairsWritten
<1>4. c.ok => SimpleBytes(Added(b, c), x, FALSE)
  BY <1>3 DEF WritesCounted, SimpleBytes, Text, Container
<1> HIDE DEF c, t
<1> QED
  BY <1>1, <1>2, <1>3, <1>4 DEF WritesSimple, WritesCounted

LEMMA SimpleKinds ==
    ASSUME NEW x, IsSimple(x)
    PROVE  x.kind \in {"byte", "number", "trailer", "string", "view", "copy", "literal", "buffer", "skip",
                       "initializer", "map"} \union Text \union Container
BY DEF IsSimple, Text, Container

LEMMA SimpleWritten ==
    ASSUME NEW b, IsBuffer(b), NEW x, IsSimple(x)
    PROVE  WritesSimple(b, AppendSimple(b, x), x)
BY SimpleKinds, NumberValueWritten, StringValueWritten, BufferValueWritten, SkipWritten, TextValueWritten,
   ContainerWritten, InitializerWritten, MapWritten

-----------------------------------------------------------------------------
(* The other way round *)

LEMMA SumsUnique ==
    ASSUME NEW sizes \in Seq(Nat), NEW h, Sums(h, sizes)
    PROVE  Total(sizes) = h[Len(sizes)]
<1> DEFINE n == Len(sizes)
<1>1. PICK f \in [0..n -> Nat] : Sums(f, sizes) /\ Total(sizes) = f[n]
  BY TotalUnfolds
<1>2. SameRule(f, h, n)
  BY <1>1 DEF SameRule, Sums
<1>3. n \in Nat
  OBVIOUS
<1> HIDE DEF n
<1>4. \A i \in 0..n : f[i] = h[i]
  BY <1>2, <1>3, RecursionUnique
<1> QED
  BY <1>1, <1>3, <1>4 DEF n

LEMMA TotalReverse ==
    ASSUME NEW sizes \in Seq(Nat)
    PROVE  Total(Reverse(sizes)) = Total(sizes)
<1> DEFINE n == Len(sizes)
           back == Reverse(sizes)
<1>1. n \in Nat /\ back = [i \in 1..n |-> sizes[(n - i) + 1]] /\ \A i \in 1..n : sizes[i] \in Nat
  BY DEF Reverse
<1>2. PICK f \in [0..n -> Nat] : Sums(f, sizes) /\ Total(sizes) = f[n]
  BY TotalUnfolds
<1>2a. f[0] = 0 /\ \A i \in 1..n : f[i] = f[i - 1] + sizes[i]
  BY <1>2 DEF Sums
<1> HIDE DEF n, back
<1>3. \A i \in 1..n : (n - i) + 1 \in 1..n
  BY <1>1
<1>4. back \in Seq(Nat) /\ Len(back) = n /\ \A i \in 1..n : back[i] = sizes[(n - i) + 1]
  BY <1>1, <1>3
<1> DEFINE h == [i \in 0..n |-> f[n] - f[n - i]]
<1>5. h[0] = 0 /\ h[n] = f[n]
  <2>1. h[0] = f[n] - f[n - 0] /\ h[n] = f[n] - f[n - n]
    BY <1>1
  <2>2. n - 0 = n /\ n - n = 0 /\ f[n] \in Nat
    BY <1>1
  <2>3. f[n] - f[n] = 0 /\ f[n] - 0 = f[n]
    BY <2>2
  <2> QED
    BY <1>2a, <2>1, <2>2, <2>3
<1>6. ASSUME NEW i \in 1..n
      PROVE  h[i] = h[i - 1] + back[i]
  <2> DEFINE j == (n - i) + 1
  <2>1. j \in 1..n /\ n - (i - 1) = j /\ n - i = j - 1 /\ i \in 0..n /\ i - 1 \in 0..n
    BY <1>1
  <2>2. h[i] = f[n] - f[j - 1] /\ h[i - 1] = f[n] - f[j]
    BY <2>1
  <2>3. back[i] = sizes[j]
    BY <1>4
  <2> HIDE DEF j, h
  <2>4. f[j] = f[j - 1] + sizes[j]
    BY <1>2a, <2>1
  <2>5. f[n] \in Nat /\ f[j - 1] \in Nat /\ f[j] \in Nat /\ sizes[j] \in Nat
    <3>1. n \in 0..n /\ j \in 0..n /\ j - 1 \in 0..n
      BY <1>1, <2>1
    <3> QED
      BY <1>1, <2>1, <3>1
  <2> DEFINE p == f[n]
             q == f[j]
             r == f[j - 1]
             s == sizes[j]
  <2>6. p \in Nat /\ q \in Nat /\ r \in Nat /\ s \in Nat /\ q = r + s /\ h[i] = p - r /\ h[i - 1] = p - q /\ back[i] = s
    BY <2>2, <2>3, <2>4, <2>5
  <2> HIDE DEF p, q, r, s
  <2>7. p - r = (p - q) + s
    BY <2>6
  <2> QED
    BY <2>6, <2>7
<1> HIDE DEF h
<1>7. Sums(h, back)
  BY <1>4, <1>5, <1>6 DEF Sums
<1>8. Total(back) = h[n]
  BY <1>4, <1>7, SumsUnique
<1> QED
  BY <1>2, <1>5, <1>8 DEF back

\* Parts have the length of what they make up.
LEMMA JoinsTotal ==
    ASSUME NEW e, NEW parts \in Seq(Seq(Cell)), e \in Seq(Cell), Joins(e, parts)
    PROVE  Len(e) = Total(Lengths(parts))
<1> DEFINE n == Len(parts)
           sizes == Lengths(parts)
<1>1. n \in Nat /\ DOMAIN parts = 1..n /\ \A i \in 1..n : Len(parts[i]) \in Nat
  OBVIOUS
<1>2. sizes \in Seq(Nat) /\ Len(sizes) = n /\ \A i \in 1..n : sizes[i] = Len(parts[i])
  BY <1>1 DEF Lengths
<1>3. PICK o \in [0..n -> Nat] : /\ o[0] = 0 /\ o[n] = Len(e)
                                 /\ \A i \in 1..n : /\ o[i - 1] <= o[i] /\ o[i] <= Len(e)
                                                    /\ SubSeq(e, o[i - 1] + 1, o[i]) = parts[i]
  BY DEF Joins
<1> HIDE DEF n, sizes
<1>4. ASSUME NEW i \in 1..n
      PROVE  o[i] = o[i - 1] + sizes[i]
  <2> DEFINE p == o[i - 1]
             q == o[i]
  <2>1. p \in Nat /\ q \in Nat /\ p <= q /\ q <= Len(e) /\ SubSeq(e, p + 1, q) = parts[i]
    <3>1. i \in 0..n /\ i - 1 \in 0..n
      BY <1>1
    <3> QED
      BY <1>3, <3>1
  <2> HIDE DEF p, q
  <2>2. Len(SubSeq(e, p + 1, q)) = q - p
    <3>1. p + 1 \in 1..(Len(e) + 1) /\ q \in 0..Len(e)
      BY <2>1
    <3>2. Len(SubSeq(e, p + 1, q)) = IF p + 1 <= q THEN q - (p + 1) + 1 ELSE 0
      BY <3>1, SubSeqProperties
    <3> QED
      BY <2>1, <3>2
  <2>3. sizes[i] = q - p
    BY <1>2, <2>1, <2>2
  <2>4. q = p + (q - p)
    BY <2>1
  <2> QED
    BY <2>3, <2>4 DEF p, q
<1>5. Sums(o, sizes)
  BY <1>2, <1>3, <1>4 DEF Sums
<1>6. Total(sizes) = o[n]
  BY <1>2, <1>5, SumsUnique
<1> QED
  BY <1>3, <1>6 DEF sizes

LEMMA ReverseTwice ==
    ASSUME NEW S, NEW s \in Seq(S)
    PROVE  /\ Reverse(s) \in Seq(S) /\ Len(Reverse(s)) = Len(s) /\ Reverse(Reverse(s)) = s
           /\ DOMAIN Reverse(s) = 1..Len(s)
           /\ \A i \in 1..Len(s) : (Len(s) - i) + 1 \in 1..Len(s) /\ Reverse(s)[i] = s[(Len(s) - i) + 1]
<1> DEFINE n == Len(s)
           r == Reverse(s)
<1>1. n \in Nat /\ r = [i \in 1..n |-> s[(n - i) + 1]] /\ \A i \in 1..n : s[i] \in S
  BY DEF Reverse
<1>1a. s = [i \in 1..n |-> s[i]] /\ DOMAIN s = 1..n
  OBVIOUS
<1> HIDE DEF n, r
<1>2. \A i \in 1..n : (n - i) + 1 \in 1..n /\ (n - ((n - i) + 1)) + 1 = i
  BY <1>1
<1>3. r \in Seq(S) /\ Len(r) = n /\ \A i \in 1..n : r[i] = s[(n - i) + 1]
  BY <1>1, <1>2
<1>4. Reverse(r) = [i \in 1..n |-> r[(n - i) + 1]]
  BY <1>3 DEF Reverse
<1>5. \A i \in 1..n : r[(n - i) + 1] = s[i]
  BY <1>2, <1>3
<1>6. Reverse(r) = [i \in 1..n |-> s[i]]
  BY <1>4, <1>5
<1>7. Reverse(r) = s
  BY <1>1a, <1>6
<1> QED
  BY <1>1, <1>2, <1>3, <1>7 DEF n, r

LEMMA ReversedParts ==
    ASSUME NEW of, NEW items, AreElements(of, items)
    PROVE  /\ AreElements(of, Reverse(items))
           /\ Len(Reverse(items)) = Len(items)
           /\ Reverse(ElementParts(of, Reverse(items))) = ElementParts(of, items)
           /\ Total(Lengths(ElementParts(of, Reverse(items)))) = Total(Lengths(ElementParts(of, items)))
<1> DEFINE n == Len(items)
           back == Reverse(items)
           S == ToSet(items)
           parts == ElementParts(of, items)
           rest == ElementParts(of, back)
<1>1. items \in Seq(S)
  BY SeqFacts DEF AreElements
<1>2. /\ back \in Seq(S) /\ Len(back) = n /\ DOMAIN back = 1..n
      /\ \A i \in 1..n : (n - i) + 1 \in 1..n /\ back[i] = items[(n - i) + 1]
  BY <1>1, ReverseTwice
<1>3. n \in Nat /\ DOMAIN items = 1..n /\ \A i \in 1..n : IsElement(of, items[i])
  BY ElementPartsFacts
<1>4. \A i \in 1..n : IsElement(of, back[i])
  BY <1>2, <1>3
<1>5. IsSeq(back)
  <2>1. \A i \in 1..n : back[i] \in ToSet(back)
    BY <1>2 DEF ToSet
  <2> HIDE DEF back, n
  <2>2. back \in Seq(ToSet(back))
    BY <1>2, <1>3, <2>1
  <2> QED
    BY <2>2 DEF IsSeq
<1>6. AreElements(of, back)
  BY <1>2, <1>4, <1>5 DEF AreElements
<1>7. /\ parts \in Seq(Seq(Cell)) /\ Len(parts) = n
      /\ \A i \in 1..n : parts[i] = ElementBytes(of, items[i])
  BY ElementPartsFacts
<1>8. /\ rest \in Seq(Seq(Cell)) /\ Len(rest) = n
      /\ \A i \in 1..n : rest[i] = ElementBytes(of, back[i])
  BY <1>2, <1>6, ElementPartsFacts
<1> HIDE DEF n, back, S, parts, rest
<1>9. /\ Reverse(parts) \in Seq(Seq(Cell)) /\ Len(Reverse(parts)) = n /\ DOMAIN Reverse(parts) = 1..n
      /\ Reverse(Reverse(parts)) = parts
      /\ \A i \in 1..n : Reverse(parts)[i] = parts[(n - i) + 1]
  BY <1>7, ReverseTwice
<1>10. rest = Reverse(parts)
  <2>1. ASSUME NEW i \in 1..n
        PROVE  rest[i] = Reverse(parts)[i]
    <3> DEFINE j == (n - i) + 1
    <3>1. j \in 1..n /\ back[i] = items[j]
      BY <1>2
    <3>2. Reverse(parts)[i] = parts[j]
      BY <1>9
    <3> HIDE DEF j
    <3> QED
      BY <1>7, <1>8, <3>1, <3>2
  <2> QED
    BY <1>8, <1>9, <2>1
<1>11. Lengths(parts) \in Seq(Nat) /\ Len(Lengths(parts)) = n /\ \A i \in 1..n : Lengths(parts)[i] = Len(parts[i])
  <2>1. \A i \in 1..n : Len(parts[i]) \in Nat
    BY <1>7
  <2> QED
    BY <1>3, <1>7, <2>1 DEF Lengths
<1>12. Lengths(Reverse(parts)) = Reverse(Lengths(parts))
  <2>1. Lengths(Reverse(parts)) = [i \in 1..n |-> Len(Reverse(parts)[i])]
    BY <1>9 DEF Lengths
  <2>2. Reverse(Lengths(parts)) = [i \in 1..n |-> Lengths(parts)[(n - i) + 1]]
    BY <1>11 DEF Reverse
  <2>3. \A i \in 1..n : Len(Reverse(parts)[i]) = Lengths(parts)[(n - i) + 1]
    BY <1>2, <1>9, <1>11
  <2> QED
    BY <2>1, <2>2, <2>3
<1>13. Total(Lengths(rest)) = Total(Lengths(parts))
  BY <1>10, <1>11, <1>12, TotalReverse
<1> QED
  BY <1>2, <1>6, <1>9, <1>10, <1>13 DEF n, back, parts, rest

-----------------------------------------------------------------------------
(* What is written ahead for a value without members *)

LEMMA CountedOfSimpleAhead ==
    ASSUME NEW x, IsSimple(x), x.kind \in Container, NEW b, NEW c,
           WritesCountedAhead(b, c, Total(Lengths(ElementParts(x.of, x.items))), Len(x.items),
                              ElementParts(x.of, x.items))
    PROVE  WritesSimpleAhead(b, c, x)
<1> DEFINE t == Total(Lengths(ElementParts(x.of, x.items)))
<1>1. SizeOfSimple(x) = CountBytes + t
  BY ElementsOfSimple
<1>2. c.ok => SimpleBytes(Ahead(b, c), x, TRUE)
  BY DEF WritesCountedAhead, SimpleBytes, Container, Text
<1> HIDE DEF t
<1>4. WritesCountedAhead(b, c, t, Len(x.items), ElementParts(x.of, x.items))
  BY DEF t
<1> QED
  BY <1>1, <1>2, <1>4 DEF WritesCountedAhead, WritesSimpleAhead

LEMMA ElementsCountedAhead ==
    ASSUME NEW b, IsBuffer(b), NEW of, NEW items, AreElements(of, items), of # "buffer"
    PROVE  WritesCountedAhead(b, PrependCount(PrependElements(b, of, Reverse(items)), Len(items)),
                              Total(Lengths(ElementParts(of, items))), Len(items), ElementParts(of, items))
<1> DEFINE n == Len(items)
           back == Reverse(items)
           parts == ElementParts(of, items)
           t == Total(Lengths(parts))
           c == PrependElements(b, of, back)
<1>1. n \in Int /\ t \in Nat
  BY ElementPartsFacts, ElementsWritten
<1>2. /\ AreElements(of, back) /\ Total(Lengths(ElementParts(of, back))) = t
      /\ Reverse(ElementParts(of, back)) = parts
  BY ReversedParts
<1> HIDE DEF back, parts, t
<1>3. WritesPartsAhead(b, c, t, parts)
  BY <1>2, ElementsWrittenAhead
<1> HIDE DEF c, n
<1>4. WritesCountedAhead(b, PrependCount(c, n), t, n, parts)
  BY <1>1, <1>3, CountedWrittenAhead
<1> QED
  BY <1>4 DEF c, n, t, parts, back

LEMMA NumbersCountedAhead ==
    ASSUME NEW b, IsBuffer(b), NEW items, AreElements("number", items)
    PROVE  WritesCountedAhead(b, PrependCount(PrependBytes(b, NumberBytes(items)), Len(items)),
                              Total(Lengths(ElementParts("number", items))), Len(items),
                              ElementParts("number", items))
<1> DEFINE n == Len(items)
           parts == ElementParts("number", items)
           t == Total(Lengths(parts))
           e == NumberBytes(items)
           c == PrependBytes(b, e)
<1>1. n \in Int /\ t \in Nat
  BY ElementPartsFacts, ElementsWritten
<1>3. e \in Seq(Cell) /\ Len(e) = t /\ Joins(e, parts)
  BY NumberBytesFacts
<1> HIDE DEF e, parts, t
<1>4. WritesAhead(b, c, e)
  BY <1>3, BytesWrittenAhead
<1>5. WritesPartsAhead(b, c, t, parts)
  BY <1>3, <1>4 DEF WritesAhead, WritesPartsAhead
<1> HIDE DEF c, n
<1>6. WritesCountedAhead(b, PrependCount(c, n), t, n, parts)
  BY <1>1, <1>5, CountedWrittenAhead
<1> QED
  BY <1>6 DEF c, n, t, parts, e

LEMMA ContainerWrittenAhead ==
    ASSUME NEW b, IsBuffer(b), NEW x, IsSimple(x), CanPrependSimple(x), x.kind \in Container
    PROVE  WritesSimpleAhead(b, PrependSimple(b, x), x)
<1>1. AreElements(x.of, x.items) /\ (x.kind = "span" => x.of = "number") /\ x.of # "buffer"
  BY ElementsOfSimple DEF Container, CanPrependSimple
<1>2. CASE x.kind \in {"list", "span", "set", "iterator"} \/ (x.kind \in {"vector", "array"} /\ ~Copied(x))
  <2>1. PrependSimple(b, x) = PrependCount(PrependElements(b, x.of, Reverse(x.items)), Len(x.items))
    BY <1>2 DEF PrependSimple, DoPrependLinear, DoPrependSpan, DoPrependSet, DoPrependReserve,
                DoPrependIterator, DoPrependArray,
                PrependContainerList, PrependContainerArray, PrependIterator, PrependArray
  <2> QED
    BY <1>1, <2>1, ElementsCountedAhead, CountedOfSimpleAhead
<1>4. CASE x.kind \in {"vector", "array"} /\ Copied(x)
  <2>1. x.of = "number"
    BY <1>4 DEF Copied
  <2>2. PrependSimple(b, x) = PrependCount(PrependBytes(b, NumberBytes(x.items)), Len(x.items))
    BY <1>4 DEF PrependSimple, DoPrependReserve, DoPrependArray, PrependArrayCopy, PrependContainerArrayCopy
  <2> QED
    BY <1>1, <2>1, <2>2, NumbersCountedAhead, CountedOfSimpleAhead
<1> QED
  BY <1>2, <1>4 DEF Container

LEMMA LiteralWrittenAhead ==
    ASSUME NEW b, IsBuffer(b), NEW x, IsSimple(x), x.kind = "literal"
    PROVE  WritesAhead(b, PrependSimple(b, x), StringBytes(x.items))
<1> DEFINE n == Len(x.items) + 1
           e == Encoded(n, CountBytes)
           f == Chars(x)
           c == PrependBytes(b, f)
           d == PrependCount(c, n)
<1>1. x.items \in Seq(Char)
  BY StringValue
<1>2. f \in Seq(Cell) /\ Len(f) = n /\ n \in Int /\ e \o f = StringBytes(x.items)
  BY <1>1, LiteralFacts
<1>3. PrependSimple(b, x) = d
  BY <1>2 DEF PrependSimple, DoPrependArray
<1> HIDE DEF f, n
<1>4. WritesAhead(b, c, f)
  BY <1>2, BytesWrittenAhead
<1>5. IsBuffer(c)
  BY <1>4 DEF WritesAhead, Prepends
<1> HIDE DEF c
<1>6. WritesAhead(c, d, e) /\ e \in Seq(Cell)
  BY <1>2, <1>5, CountWrites
<1> HIDE DEF d, e
<1>7. WritesAhead(b, d, e \o f)
  BY <1>2, <1>4, <1>6, WritesAheadTwice
<1> QED
  BY <1>2, <1>3, <1>7

LEMMA SimpleWrittenAhead ==
    ASSUME NEW b, IsBuffer(b), NEW x, IsSimple(x), CanPrependSimple(x)
    PROVE  WritesSimpleAhead(b, PrependSimple(b, x), x)
<1>1. CASE x.kind \in {"byte", "number"}
  <2>1. PrependSimple(b, x) = PrependBytes(b, Encoded(x.items[1], Width(x)))
    BY <1>1 DEF PrependSimple, DoPrependGeneral, PrependGeneral
  <2>2. SimpleBytes(Encoded(x.items[1], Width(x)), x, TRUE)
    BY <1>1 DEF SimpleBytes, Text, Container
  <2> QED
    BY <1>1, <2>1, <2>2, NumberValue, BytesWrittenAhead, BytesOfSimpleAhead
<1>2. CASE x.kind \in {"string", "view", "literal"}
  <2>1. SimpleBytes(StringBytes(x.items), x, TRUE)
    BY <1>2 DEF SimpleBytes, Text, Container
  <2>2. x.items \in Seq(Char) /\ Len(StringBytes(x.items)) = SizeOfSimple(x)
    BY <1>2, StringValue
  <2>3. CASE x.kind = "literal"
    BY <2>1, <2>2, <2>3, LiteralWrittenAhead, BytesOfSimpleAhead
  <2>4. CASE x.kind \in {"string", "view"}
    <3>1. PrependSimple(b, x) = PrependString(b, x.items)
      BY <2>4 DEF PrependSimple, DoPrependString
    <3> QED
      BY <2>1, <2>2, <3>1, StringWrittenAhead, BytesOfSimpleAhead
  <2> QED
    BY <1>2, <2>3, <2>4
<1>3. CASE x.kind = "bytes"
  <2>1. PrependSimple(b, x) = PrependBytes(b, x.items)
    BY <1>3 DEF PrependSimple
  <2>2. x.items = TextBytes(x) /\ x.kind \in Text /\ x.kind # "text"
    BY <1>3 DEF TextBytes, Text
  <2>3. TextBytes(x) \in Seq(Cell)
    BY <2>2, TextBytesFacts, CharsAreCells
  <2>4. SizeOfSimple(x) = LengthAsText(x)
    BY <1>3 DEF SizeOfSimple, SizeWithout
  <2>5. LengthAsText(x) = Len(TextBytes(x))
    BY <2>2, LengthOfText
  <2>6. SimpleBytes(TextBytes(x), x, TRUE)
    BY <1>3, <2>2 DEF SimpleBytes, Text, Container
  <2> QED
    BY <2>1, <2>2, <2>3, <2>4, <2>5, <2>6, BytesWrittenAhead, BytesOfSimpleAhead
<1>4. CASE x.kind = "initializer"
  <2> DEFINE parts == ElementParts(x.of, x.items)
             t == Total(Lengths(parts))
             c == PrependElements(b, x.of, x.items)
  <2>1. PrependSimple(b, x) = c
    BY <1>4 DEF PrependSimple, DoPrependIterator, PrependInitializerList
  <2>2. SizeOfSimple(x) = t /\ AreElements(x.of, x.items) /\ x.of # "buffer"
    BY <1>4, ElementsOfSimple DEF CanPrependSimple
  <2>3. WritesPartsAhead(b, c, t, Reverse(parts))
    BY <2>2, ElementsWrittenAhead
  <2>4. c.ok => SimpleBytes(Ahead(b, c), x, TRUE)
    BY <1>4, <2>3 DEF WritesPartsAhead, SimpleBytes, Text, Container
  <2> HIDE DEF c, t
  <2> QED
    BY <2>1, <2>2, <2>3, <2>4 DEF WritesSimpleAhead, WritesPartsAhead
<1>5. CASE x.kind = "map"
  <2> DEFINE c == PrependContainerAssociative(b, x.key, x.of, x.items)
             t == Total(Lengths(PairParts(x.key, x.of, x.items)))
  <2>1. PrependSimple(b, x) = c
    BY <1>5 DEF PrependSimple, DoPrependAssociative
  <2>2. ArePairs(x.key, x.of, x.items) /\ SizeOfSimple(x) = CountBytes + t
    BY <1>5, MapFacts
  <2>2a. x.of # "buffer" /\ x.key # "buffer"
    BY <1>5 DEF CanPrependSimple
  <2>3. WritesCountedAhead(b, c, t, Len(x.items), Reverse(PairParts(x.key, x.of, x.items)))
    BY <2>2, <2>2a, PairsWrittenAhead
  <2>4. c.ok => SimpleBytes(Ahead(b, c), x, TRUE)
    BY <1>5, <2>3 DEF WritesCountedAhead, SimpleBytes, Text, Container
  <2> HIDE DEF c, t
  <2> QED
    BY <2>1, <2>2, <2>3, <2>4 DEF WritesSimpleAhead, WritesCountedAhead
<1> QED
  BY <1>1, <1>2, <1>3, <1>4, <1>5, ContainerWrittenAhead DEF CanPrependSimple

-----------------------------------------------------------------------------
(* Members.  A number that is not where the code looks for it may be any. *)

IsMember(x) == IsSimple(x) \/ (x.kind \in {"byte", "number"} /\ x.items[1] \in Int)
AreMembers(xs) == IsSeq(xs) /\ \A i \in DOMAIN xs : IsMember(xs[i])
AreSimpleAhead(xs) == IsSeq(xs) /\ \A i \in DOMAIN xs : IsSimple(xs[i]) /\ CanPrependSimple(xs[i])
MembersAppended(g, xs) == \A i \in 1..Len(xs) : g[i] = AppendSimple(g[i - 1], xs[i])
MembersPrepended(g, xs) == \A i \in 1..Len(xs) : g[i] = PrependSimple(g[i - 1], xs[Len(xs) + 1 - i])

LEMMA MemberWritten ==
    ASSUME NEW b, IsBuffer(b), NEW x, IsMember(x)
    PROVE  WritesSimple(b, AppendSimple(b, x), x)
<1>1. CASE IsSimple(x)
  BY <1>1, SimpleWritten
<1>2. CASE x.kind \in {"byte", "number"} /\ x.items[1] \in Int
  <2> DEFINE e == Encoded(x.items[1], Width(x))
  <2>1. AppendSimple(b, x) = AppendBytes(b, e)
    BY <1>2 DEF AppendSimple, DoAppendGeneral, AppendGeneral
  <2>2. SimpleBytes(e, x, FALSE)
    BY <1>2 DEF SimpleBytes, Text, Container
  <2>3. Width(x) \in Nat
    BY Widths DEF Width
  <2>4. e \in Seq(Cell) /\ Len(e) = Width(x)
    BY <1>2, <2>3, EncodedType, CharsAreCells
  <2>5. SizeOfSimple(x) = Width(x)
    BY <1>2 DEF SizeOfSimple, SizeOfGeneral
  <2> QED
    BY <2>1, <2>2, <2>4, <2>5, BytesWritten, BytesOfSimple
<1> QED
  BY <1>1, <1>2 DEF IsMember

LEMMA AppendMembersUnfolds ==
    ASSUME NEW b, IsBuffer(b), NEW items, AreMembers(items)
    PROVE  \E g \in [0..Len(items) -> Bufs] :
               /\ g[0] = b /\ MembersAppended(g, items)
               /\ AppendMembers(b, items) = g[Len(items)]
<1> DEFINE n == Len(items)
           rule == [p \in (1..n) \X Bufs |-> AppendSimple(p[2], items[p[1]])]
           F(h) == [i \in 0..n |-> IF i = 0 THEN b ELSE AppendSimple(h[i - 1], items[i])]
           f == CHOOSE h : h = F(h)
<1>0. n \in Nat /\ \A i \in 1..n : IsMember(items[i])
  BY SeqFacts DEF AreMembers
<1> HIDE DEF n
<1>1. \A i \in 1..n : \A x \in Bufs : /\ rule[<<i, x>>] = AppendSimple(x, items[i])
                                      /\ AppendSimple(x, items[i]) \in Bufs
  <2> SUFFICES ASSUME NEW i \in 1..n, NEW x \in Bufs
               PROVE  /\ rule[<<i, x>>] = AppendSimple(x, items[i])
                      /\ AppendSimple(x, items[i]) \in Bufs
    OBVIOUS
  <2>1. IsBuffer(x)
    BY DEF Bufs
  <2>2. IsBuffer(AppendSimple(x, items[i]))
    BY <1>0, <2>1, MemberWritten DEF WritesSimple, Appends
  <2> QED
    BY <2>2, BufferFacts
<1> HIDE DEF rule
<1>2. PICK g \in [0..n -> Bufs] : Recurs(g, b, rule, n)
  <2>1. StepsWithin(rule, Bufs, n)
    BY <1>1 DEF StepsWithin
  <2>2. b \in Bufs
    BY BufferFacts
  <2> QED
    BY <1>0, <2>1, <2>2, RecursionExists
<1>3. g[0] = b /\ \A i \in 1..n : g[i] = AppendSimple(g[i - 1], items[i])
  <2>1. \A i \in 1..n : g[i - 1] \in Bufs
    BY <1>0, <1>2
  <2> QED
    BY <1>1, <1>2, <2>1 DEF Recurs
<1>4. g = F(g)
  BY <1>2, <1>3
<1>5. f = F(f)
  BY <1>4
<1>6. AppendMembers(b, items) = f[n]
  BY DEF AppendMembers, n
<1> HIDE DEF f
<1>7. f[0] = b /\ \A i \in 1..n : f[i] = AppendSimple(f[i - 1], items[i])
  BY <1>0, <1>5
<1>8. \A i \in 0..n : f[i] = g[i]
  <2>1. SameRule(f, g, n)
    BY <1>3, <1>7, Zenon DEF SameRule
  <2> QED
    BY <1>0, <2>1, RecursionUnique
<1>9. f[n] = g[n]
  BY <1>0, <1>8
<1> QED
  BY <1>2, <1>3, <1>6, <1>9 DEF MembersAppended, n

LEMMA PrependTupleUnfolds ==
    ASSUME NEW b, IsBuffer(b), NEW y, NEW items, items = y.items, AreSimpleAhead(items)
    PROVE  \E g \in [0..Len(items) -> Bufs] :
               /\ g[0] = b /\ MembersPrepended(g, items)
               /\ DoPrependTuple(b, y) = g[Len(items)]
<1> DEFINE n == Len(items)
           rule == [p \in (1..n) \X Bufs |-> PrependSimple(p[2], items[n + 1 - p[1]])]
           F(h) == [i \in 0..n |-> IF i = 0 THEN b ELSE PrependSimple(h[i - 1], items[n + 1 - i])]
           f == CHOOSE h : h = F(h)
<1>0. n \in Nat /\ \A i \in 1..n : IsSimple(items[n + 1 - i]) /\ CanPrependSimple(items[n + 1 - i])
  BY SeqFacts DEF AreSimpleAhead
<1> HIDE DEF n
<1>1. \A i \in 1..n : \A x \in Bufs : /\ rule[<<i, x>>] = PrependSimple(x, items[n + 1 - i])
                                      /\ PrependSimple(x, items[n + 1 - i]) \in Bufs
  <2> SUFFICES ASSUME NEW i \in 1..n, NEW x \in Bufs
               PROVE  /\ rule[<<i, x>>] = PrependSimple(x, items[n + 1 - i])
                      /\ PrependSimple(x, items[n + 1 - i]) \in Bufs
    OBVIOUS
  <2>1. IsBuffer(x)
    BY DEF Bufs
  <2>2. IsBuffer(PrependSimple(x, items[n + 1 - i]))
    BY <1>0, <2>1, SimpleWrittenAhead DEF WritesSimpleAhead, Prepends
  <2> QED
    BY <2>2, BufferFacts
<1> HIDE DEF rule
<1>2. PICK g \in [0..n -> Bufs] : Recurs(g, b, rule, n)
  <2>1. StepsWithin(rule, Bufs, n)
    BY <1>1 DEF StepsWithin
  <2>2. b \in Bufs
    BY BufferFacts
  <2> QED
    BY <1>0, <2>1, <2>2, RecursionExists
<1>3. g[0] = b /\ \A i \in 1..n : g[i] = PrependSimple(g[i - 1], items[n + 1 - i])
  <2>1. \A i \in 1..n : g[i - 1] \in Bufs
    BY <1>0, <1>2
  <2> QED
    BY <1>1, <1>2, <2>1 DEF Recurs
<1>4. g = F(g)
  <2>1. \A i \in 0..n : i # 0 => i \in 1..n
    BY <1>0
  <2>2. \A i \in 0..n : g[i] = IF i = 0 THEN b ELSE PrependSimple(g[i - 1], items[n + 1 - i])
    BY <1>3, <2>1
  <2>3. g = [i \in 0..n |-> g[i]]
    BY <1>2
  <2> QED
    BY ONLY <2>2, <2>3, Zenon
<1>5. f = F(f)
  BY <1>4
<1>6. DoPrependTuple(b, y) = f[n]
  BY DEF DoPrependTuple, n
<1> HIDE DEF f
<1>7. f[0] = b /\ \A i \in 1..n : f[i] = PrependSimple(f[i - 1], items[n + 1 - i])
  BY <1>0, <1>5
<1>8. \A i \in 0..n : f[i] = g[i]
  <2>1. SameRule(f, g, n)
    BY <1>3, <1>7, Zenon DEF SameRule
  <2> QED
    BY <1>0, <2>1, RecursionUnique
<1>9. f[n] = g[n]
  BY <1>0, <1>8
<1> QED
  BY <1>2, <1>3, <1>6, <1>9 DEF MembersPrepended, n

\* Parts that each are what is written for one of xs.
PartsOf(parts, xs, ahead) ==
    /\ parts \in Seq(Seq(Cell)) /\ Len(parts) = Len(xs)
    /\ \A i \in 1..Len(xs) : SimpleBytes(parts[i], xs[i], ahead)
MembersBytes(e, xs, ahead) == \E parts : Joins(e, parts) /\ PartsOf(parts, xs, ahead)

LEMMA MemberSizes ==
    ASSUME NEW xs, AreMembers(xs)
    PROVE  /\ Len(xs) \in Nat /\ DOMAIN xs = 1..Len(xs)
           /\ [i \in DOMAIN xs |-> SizeOfSimple(xs[i])] \in [1..Len(xs) -> Nat]
           /\ SizeOfMembers(xs) \in Nat
<1> DEFINE n == Len(xs)
           sizes == [i \in DOMAIN xs |-> SizeOfSimple(xs[i])]
<1>1. n \in Nat /\ DOMAIN xs = 1..n /\ \A i \in 1..n : IsMember(xs[i])
  BY SeqFacts DEF AreMembers
<1>2. ASSUME NEW i \in 1..n PROVE SizeOfSimple(xs[i]) \in Nat
  <2>1. IsBuffer(Allocated(0))
    BY AllocatedIsBuffer
  <2> QED
    BY <1>1, <2>1, MemberWritten DEF WritesSimple
<1> HIDE DEF n
<1>3. sizes \in [1..n -> Nat]
  BY <1>1, <1>2
<1>4. sizes \in Seq(Nat)
  BY <1>1, <1>3
<1>5. SizeOfMembers(xs) = Total(sizes)
  BY DEF SizeOfMembers
<1> HIDE DEF sizes
<1>6. PICK t \in [0..Len(sizes) -> Nat] : Total(sizes) = t[Len(sizes)]
  BY <1>4, TotalUnfolds
<1>7. Total(sizes) \in Nat
  BY <1>4, <1>6
<1> QED
  BY <1>1, <1>3, <1>5, <1>7 DEF n, sizes

LEMMA MembersWritten ==
    ASSUME NEW b, IsBuffer(b), NEW xs, AreMembers(xs)
    PROVE  /\ SizeOfMembers(xs) \in Nat
           /\ Appends(b, AppendMembers(b, xs), SizeOfMembers(xs))
           /\ HasRoom(b, SizeOfMembers(xs)) /\ (\A i \in DOMAIN xs : ~RefusableSimple(xs[i])) =>
                AppendMembers(b, xs).ok
           /\ AppendMembers(b, xs).ok => MembersBytes(Added(b, AppendMembers(b, xs)), xs, FALSE)
<1> DEFINE n == Len(xs)
           sizes == [i \in DOMAIN xs |-> SizeOfSimple(xs[i])]
<1>1. n \in Nat /\ DOMAIN xs = 1..n /\ sizes \in [1..n -> Nat] /\ SizeOfMembers(xs) = Total(sizes)
      /\ \A i \in 1..n : IsMember(xs[i]) /\ sizes[i] = SizeOfSimple(xs[i])
  BY MemberSizes DEF AreMembers, SizeOfMembers
<1> HIDE DEF n, sizes
<1>2. PICK g \in [0..n -> Bufs] : g[0] = b /\ MembersAppended(g, xs) /\ AppendMembers(b, xs) = g[n]
  BY AppendMembersUnfolds DEF n
<1>3. ASSUME NEW i \in 1..n
      PROVE  WritesSimple(g[i - 1], g[i], xs[i]) /\ IsBuffer(g[i - 1]) /\ IsBuffer(g[i])
  <2>1. i - 1 \in 0..n /\ i \in 0..n
    BY <1>1
  <2>2. IsBuffer(g[i - 1]) /\ IsBuffer(g[i])
    BY <2>1 DEF Bufs
  <2>3. g[i] = AppendSimple(g[i - 1], xs[i])
    BY <1>2 DEF MembersAppended, n
  <2> QED
    BY <1>1, <2>2, <2>3, MemberWritten
<1>4. AppendsEach(g, sizes, n)
  BY <1>1, <1>3 DEF AppendsEach, WritesSimple
<1>5. IsBuffer(g[0])
  BY <1>2
<1>6. /\ Total(sizes) \in Nat /\ Appends(g[0], g[n], Total(sizes))
      /\ g[n].ok => /\ \A i \in 0..n : g[i].ok
                    /\ Joins(Added(g[0], g[n]), PartsAdded(g, n))
      /\ HasRoom(g[0], Total(sizes)) /\ TakesRoom(g, sizes, n) => g[n].ok
  BY <1>1, <1>4, <1>5, AppendsChain
<1>7. ASSUME \A i \in DOMAIN xs : ~RefusableSimple(xs[i]) PROVE TakesRoom(g, sizes, n)
  BY <1>1, <1>3, <1>7 DEF TakesRoom, WritesSimple
<1>8. ASSUME g[n].ok PROVE PartsOf(PartsAdded(g, n), xs, FALSE)
  <2>1. ASSUME NEW i \in 1..n
        PROVE  Added(g[i - 1], g[i]) \in Seq(Cell) /\ SimpleBytes(Added(g[i - 1], g[i]), xs[i], FALSE)
    <3>1. g[i - 1].ok /\ g[i].ok
      BY <1>1, <1>6, <1>8
    <3>2. g[i].at = g[i - 1].at
      BY <1>3 DEF WritesSimple, Appends
    <3>3. Added(g[i - 1], g[i]) \in Seq(Cell)
      BY <1>3, <3>1, <3>2, SlicesAreSeqs
    <3> QED
      BY <1>3, <3>1, <3>3 DEF WritesSimple
  <2>2. PartsAdded(g, n) \in [1..n -> Seq(Cell)] /\ \A i \in 1..n : PartsAdded(g, n)[i] = Added(g[i - 1], g[i])
    BY <2>1 DEF PartsAdded
  <2>3. PartsAdded(g, n) \in Seq(Seq(Cell)) /\ Len(PartsAdded(g, n)) = n
    BY <1>1, <2>2
  <2> QED
    BY <2>1, <2>2, <2>3 DEF PartsOf, n
<1> QED
  BY <1>1, <1>2, <1>6, <1>7, <1>8 DEF MembersBytes

LEMMA TupleWrittenAhead ==
    ASSUME NEW b, IsBuffer(b), NEW x, AreSimpleAhead(x.items)
    PROVE  /\ Prepends(b, DoPrependTuple(b, x), SizeOfMembers(x.items))
           /\ HasRoomAhead(b, SizeOfMembers(x.items)) => DoPrependTuple(b, x).ok
           /\ DoPrependTuple(b, x).ok => MembersBytes(Ahead(b, DoPrependTuple(b, x)), x.items, TRUE)
<1> DEFINE xs == x.items
           n == Len(xs)
           forth == [i \in DOMAIN xs |-> SizeOfSimple(xs[i])]
           sizes == Reverse(forth)
<1>0. AreMembers(xs) /\ \A i \in DOMAIN xs : IsSimple(xs[i]) /\ CanPrependSimple(xs[i])
  BY DEF AreMembers, AreSimpleAhead, IsMember
<1>1. n \in Nat /\ DOMAIN xs = 1..n /\ forth \in [1..n -> Nat] /\ SizeOfMembers(xs) = Total(forth)
      /\ \A i \in 1..n : forth[i] = SizeOfSimple(xs[i])
  BY <1>0, MemberSizes DEF SizeOfMembers
<1>1a. PICK g \in [0..n -> Bufs] : g[0] = b /\ MembersPrepended(g, xs) /\ DoPrependTuple(b, x) = g[n]
  BY PrependTupleUnfolds
<1> HIDE DEF n, forth, xs
<1>1c. forth \in Seq(Nat) /\ Len(forth) = n
  BY <1>1
<1>2. sizes \in Seq(Nat) /\ Len(sizes) = n /\ Total(sizes) = SizeOfMembers(xs)
      /\ \A i \in 1..n : (n - i) + 1 \in 1..n /\ sizes[i] = forth[(n - i) + 1]
  BY <1>1, <1>1c, ReverseTwice, TotalReverse
<1> HIDE DEF sizes
<1>2a. \A i \in 1..n : (n - i) + 1 = n + 1 - i
  BY <1>1
<1>2b. \A i \in 1..n : n + 1 - i \in 1..n /\ sizes[i] = SizeOfSimple(xs[n + 1 - i])
  BY <1>1, <1>2, <1>2a
<1>2c. sizes \in [1..n -> Nat]
  BY <1>1, <1>2
<1>3. ASSUME NEW i \in 1..n
      PROVE  WritesSimpleAhead(g[i - 1], g[i], xs[n + 1 - i]) /\ IsBuffer(g[i - 1]) /\ IsBuffer(g[i])
  <2>1. i - 1 \in 0..n /\ i \in 0..n
    BY <1>1
  <2>2. IsBuffer(g[i - 1]) /\ IsBuffer(g[i])
    BY <2>1 DEF Bufs
  <2>3. g[i] = PrependSimple(g[i - 1], xs[n + 1 - i])
    BY <1>1a DEF MembersPrepended, n
  <2>4. IsSimple(xs[n + 1 - i]) /\ CanPrependSimple(xs[n + 1 - i])
    BY <1>0, <1>1, <1>2b
  <2> QED
    BY <2>2, <2>3, <2>4, SimpleWrittenAhead
<1>4. PrependsEach(g, sizes, n) /\ TakesRoomAhead(g, sizes, n)
  BY <1>2b, <1>3 DEF PrependsEach, TakesRoomAhead, WritesSimpleAhead
<1>5. IsBuffer(g[0])
  BY <1>1a
<1>6. /\ Total(sizes) \in Nat /\ Prepends(g[0], g[n], Total(sizes))
      /\ g[n].ok => /\ \A i \in 0..n : g[i].ok
                    /\ Joins(Ahead(g[0], g[n]), PartsAhead(g, n))
      /\ HasRoomAhead(g[0], Total(sizes)) => g[n].ok
  BY <1>1, <1>2c, <1>4, <1>5, PrependsChain
<1>8. ASSUME g[n].ok PROVE PartsOf(PartsAhead(g, n), xs, TRUE)
  <2>1. ASSUME NEW i \in 1..n
        PROVE  Ahead(g[n - i], g[n + 1 - i]) \in Seq(Cell) /\ SimpleBytes(Ahead(g[n - i], g[n + 1 - i]), xs[i], TRUE)
    <3> DEFINE k == n + 1 - i
    <3>0. k \in 1..n /\ k - 1 = n - i /\ n + 1 - k = i /\ k - 1 \in 0..n /\ k \in 0..n
      BY <1>1
    <3> HIDE DEF k
    <3>1. g[k - 1].ok /\ g[k].ok
      BY <1>6, <1>8, <3>0
    <3>2. WritesSimpleAhead(g[k - 1], g[k], xs[i]) /\ IsBuffer(g[k - 1]) /\ IsBuffer(g[k])
      BY <1>3, <3>0
    <3>3. End(g[k]) = End(g[k - 1])
      BY <3>2 DEF WritesSimpleAhead, Prepends
    <3>4. Ahead(g[k - 1], g[k]) \in Seq(Cell)
      BY <3>1, <3>2, <3>3, SlicesAreSeqs
    <3>5. SimpleBytes(Ahead(g[k - 1], g[k]), xs[i], TRUE)
      BY <3>1, <3>2 DEF WritesSimpleAhead
    <3> QED
      BY <3>0, <3>4, <3>5 DEF k
  <2>2. PartsAhead(g, n) \in [1..n -> Seq(Cell)] /\ \A i \in 1..n : PartsAhead(g, n)[i] = Ahead(g[n - i], g[n + 1 - i])
    BY <2>1 DEF PartsAhead
  <2>3. PartsAhead(g, n) \in Seq(Seq(Cell)) /\ Len(PartsAhead(g, n)) = n
    BY <1>1, <2>2
  <2> QED
    BY <2>1, <2>2, <2>3 DEF PartsOf, n
<1> QED
  BY <1>1a, <1>2, <1>6, <1>8 DEF MembersBytes, xs

-----------------------------------------------------------------------------
(* Aggregates: where the members are, and where the code looks for them *)

AreInMemory(xs) ==
    /\ IsSeq(xs)
    /\ \A i \in DOMAIN xs : IsSimple(xs[i]) /\ xs[i].kind \in {"byte", "number", "string"}
LaysOut(at, xs) ==
    /\ at \in [1..Len(xs) -> Nat]
    /\ \A i \in 2..Len(xs) : at[i - 1] + InMemory(xs[i - 1]) <= at[i]

LEMMA InMemoryFacts ==
    ASSUME NEW x
    PROVE  /\ InMemory(x) \in Nat \ {0} /\ Alignment(x) \in Nat \ {0}
           /\ x.kind \in {"byte", "number"} => InMemory(x) = Width(x)
<1>1. InMemory(x) \in Nat \ {0}
  BY Widths, ObjectAssumption DEF InMemory
<1>2. 2 * WordBytes \in Nat \ {0}
  BY Widths
<1> QED
  BY <1>1, <1>2 DEF Alignment, InMemory, Width

LEMMA PaddedFacts ==
    ASSUME NEW end \in Nat, NEW a \in Nat \ {0}
    PROVE  end + ((-end) % a) \in Nat /\ end <= end + ((-end) % a)
<1>1. -end \in Int
  OBVIOUS
<1>2. ((-end) % a) \in 0..(a - 1)
  BY <1>1
<1>3. ((-end) % a) \in Nat
  BY <1>2
<1> QED
  BY <1>3

LEMMA LaidOutFacts ==
    ASSUME NEW xs, IsSeq(xs)
    PROVE  LaysOut(LaidOut(xs), xs)
<1> DEFINE n == Len(xs)
           next(i, end) == end + ((-end) % Alignment(xs[i]))
           rule == [p \in (1..n) \X Nat |-> IF p[1] = 1 THEN 0 ELSE next(p[1], p[2] + InMemory(xs[p[1] - 1]))]
           F(h) == [i \in DOMAIN xs |-> IF i = 1 THEN 0 ELSE next(i, h[i - 1] + InMemory(xs[i - 1]))]
           f == CHOOSE h : h = F(h)
<1>0. n \in Nat /\ DOMAIN xs = 1..n
  BY SeqFacts
<1>1. \A i \in 1..n : \A v \in Nat : /\ v + InMemory(xs[i - 1]) \in Nat
                                     /\ next(i, v + InMemory(xs[i - 1])) \in Nat
                                     /\ v + InMemory(xs[i - 1]) <= next(i, v + InMemory(xs[i - 1]))
  <2> SUFFICES ASSUME NEW i \in 1..n, NEW v \in Nat
               PROVE  /\ v + InMemory(xs[i - 1]) \in Nat
                      /\ next(i, v + InMemory(xs[i - 1])) \in Nat
                      /\ v + InMemory(xs[i - 1]) <= next(i, v + InMemory(xs[i - 1]))
    OBVIOUS
  <2>1. InMemory(xs[i - 1]) \in Nat /\ Alignment(xs[i]) \in Nat \ {0}
    BY InMemoryFacts
  <2>2. v + InMemory(xs[i - 1]) \in Nat
    BY <2>1
  <2> QED
    BY <2>1, <2>2, PaddedFacts
<1>2. \A i \in 1..n : \A v \in Nat :
          rule[<<i, v>>] = (IF i = 1 THEN 0 ELSE next(i, v + InMemory(xs[i - 1])))
  OBVIOUS
<1> HIDE DEF n, next, rule
<1>3. PICK g \in [0..n -> Nat] : Recurs(g, 0, rule, n)
  <2>1. ASSUME NEW i \in 1..n, NEW v \in Nat
        PROVE  rule[<<i, v>>] \in Nat
    <3>1. next(i, v + InMemory(xs[i - 1])) \in Nat
      BY <1>1
    <3>2. rule[<<i, v>>] = 0 \/ rule[<<i, v>>] = next(i, v + InMemory(xs[i - 1]))
      BY <1>2
    <3> QED
      BY <3>1, <3>2
  <2>2. StepsWithin(rule, Nat, n)
    BY <2>1 DEF StepsWithin
  <2> QED
    BY <1>0, <2>2, RecursionExists
<1>4. \A i \in 1..n : g[i] = IF i = 1 THEN 0 ELSE next(i, g[i - 1] + InMemory(xs[i - 1]))
  <2>1. \A i \in 1..n : g[i - 1] \in Nat
    BY <1>0, <1>3
  <2> QED
    BY <1>2, <1>3, <2>1 DEF Recurs
<1> DEFINE k == [i \in 1..n |-> g[i]]
<1>5. k = F(k)
  <2>1. \A i \in 1..n : i # 1 => i - 1 \in 1..n
    BY <1>0
  <2>2. \A i \in 1..n : k[i] = IF i = 1 THEN 0 ELSE next(i, k[i - 1] + InMemory(xs[i - 1]))
    BY <1>4, <2>1
  <2> QED
    BY <1>0, <2>2
<1> HIDE DEF k
<1>6. f = F(f)
  BY <1>5
<1>7. LaidOut(xs) = f
  BY DEF LaidOut, next
<1> HIDE DEF f
<1>8. \A i \in 1..n : f[i] = IF i = 1 THEN 0 ELSE next(i, f[i - 1] + InMemory(xs[i - 1]))
  BY <1>0, <1>6
<1>9. \A i \in 0..n : i \in {j \in Nat : j = 0 \/ f[j] = g[j]}
  <2> DEFINE S == {j \in Nat : j = 0 \/ f[j] = g[j]}
  <2>1. 0 \in S
    OBVIOUS
  <2>2. ASSUME NEW i \in 1..n, i - 1 \in S
        PROVE  i \in S
    <3>1. CASE i = 1
      <4>1. f[1] = 0 /\ g[1] = 0
        BY <1>4, <1>8, <3>1
      <4> QED
        BY <3>1, <4>1
    <3>2. CASE i # 1
      <4>1. f[i - 1] = g[i - 1]
        BY <2>2, <3>2
      <4>2. f[i] = next(i, f[i - 1] + InMemory(xs[i - 1])) /\ g[i] = next(i, g[i - 1] + InMemory(xs[i - 1]))
        BY <1>4, <1>8, <3>2
      <4>3. i \in Nat
        OBVIOUS
      <4> QED
        BY <4>1, <4>2, <4>3
    <3> QED
      BY <3>1, <3>2
  <2> HIDE DEF S
  <2>3. \A i \in 0..n : i \in S
    BY <1>0, <2>1, <2>2, UpTo
  <2> QED
    BY <2>3 DEF S
<1>10. \A i \in 1..n : f[i] = g[i] /\ g[i] \in Nat
  BY <1>0, <1>3, <1>9
<1>11. f \in [1..n -> Nat]
  BY <1>0, <1>6, <1>10
<1>12. ASSUME NEW i \in 2..n
       PROVE  f[i - 1] + InMemory(xs[i - 1]) <= f[i]
  <2>1. i \in 1..n /\ i - 1 \in 1..n /\ i # 1
    BY <1>0
  <2>2. f[i] = next(i, f[i - 1] + InMemory(xs[i - 1])) /\ f[i - 1] \in Nat
    BY <1>8, <1>11, <2>1
  <2> QED
    BY <1>1, <2>1, <2>2
<1> QED
  BY <1>7, <1>11, <1>12 DEF LaysOut, n

\* The members do not overlap.
LEMMA LaidOutApart ==
    ASSUME NEW xs, IsSeq(xs), NEW at, LaysOut(at, xs), NEW i \in 1..Len(xs), NEW j \in 1..Len(xs), i < j
    PROVE  at[i] + InMemory(xs[i]) <= at[j]
<1> DEFINE n == Len(xs)
           S == {k \in 0..n : i < k => at[i] + InMemory(xs[i]) <= at[k]}
<1>0. n \in Nat
  BY SeqFacts
<1>1. /\ \A k \in 1..n : at[k] \in Nat /\ InMemory(xs[k]) \in Nat
      /\ \A k \in 2..n : at[k - 1] + InMemory(xs[k - 1]) <= at[k]
  BY InMemoryFacts DEF LaysOut
<1> HIDE DEF n
<1>2. i \in 1..n /\ j \in 1..n
  BY DEF n
<1>3. 0 \in S
  BY <1>0, <1>2
<1>4. ASSUME NEW k \in 1..n, k - 1 \in S
      PROVE  k \in S
  <2> SUFFICES ASSUME i < k PROVE at[i] + InMemory(xs[i]) <= at[k]
    BY <1>0
  <2> DEFINE p == at[i]
             q == at[k - 1]
             r == at[k]
             v == InMemory(xs[i])
             w == InMemory(xs[k - 1])
  <2>1. k \in 2..n /\ k - 1 \in 1..n
    BY <1>0, <1>2
  <2>2. p \in Nat /\ q \in Nat /\ r \in Nat /\ v \in Nat /\ w \in Nat /\ q + w <= r
    BY <1>1, <1>2, <2>1
  <2>3. CASE i = k - 1
    <3>1. p = q /\ v = w
      BY <2>3
    <3> HIDE DEF p, q, r, v, w
    <3> QED
      BY <2>2, <3>1 DEF p, r, v
  <2>4. CASE i < k - 1
    <3>1. p + v <= q
      BY <1>4, <2>4
    <3> HIDE DEF p, q, r, v, w
    <3>2. p + v <= r
      BY <2>2, <3>1
    <3> QED
      BY <3>2 DEF p, r, v
  <2> QED
    BY <1>2, <2>3, <2>4
<1> HIDE DEF S
<1>5. \A k \in 0..n : k \in S
  BY <1>0, <1>3, <1>4, UpTo
<1>6. j \in S
  BY <1>0, <1>2, <1>5
<1> QED
  BY <1>6 DEF S

Numbers(xs) == {i \in DOMAIN xs : xs[i].kind \in {"byte", "number"}}
At(xs, at) == {i \in Numbers(xs) : at \in LaidOut(xs)[i]..(LaidOut(xs)[i] + InMemory(xs[i]) - 1)}
ByteAt(xs, at) ==
    IF At(xs, at) = {} THEN Unwritten
    ELSE Encoded(xs[Max(At(xs, at))].items[1], InMemory(xs[Max(At(xs, at))]))
             [at - LaidOut(xs)[Max(At(xs, at))] + 1]
BytesFound(xs, i) == [k \in 1..InMemory(xs[i]) |-> ByteAt(xs, Found(xs)[i] + k - 1)]

LEMMA ByteAtFacts ==
    ASSUME NEW xs, AreInMemory(xs), NEW at
    PROVE  ByteAt(xs, at) \in Int
<1> DEFINE n == Len(xs)
           S == At(xs, at)
           i == Max(S)
           w == InMemory(xs[i])
<1>1. n \in Nat /\ DOMAIN xs = 1..n
  BY SeqFacts DEF AreInMemory
<1>2. CASE S = {}
  BY <1>2 DEF ByteAt, Unwritten, Base
<1>3. CASE S # {}
  <2>1. S \subseteq 1..n
    BY <1>1 DEF At, Numbers
  <2>2. i \in S
    <3>1. S \subseteq Nat /\ \A s \in S : s <= n
      BY <1>1, <2>1
    <3> HIDE DEF S
    <3> QED
      BY <1>1, <1>3, <3>1, MaxFacts
  <2>3. i \in 1..n /\ xs[i].kind \in {"byte", "number"} /\ at \in LaidOut(xs)[i]..(LaidOut(xs)[i] + w - 1)
    BY <1>1, <2>2 DEF At, Numbers
  <2>4. ByteAt(xs, at) = Encoded(xs[i].items[1], w)[at - LaidOut(xs)[i] + 1]
    BY <1>3 DEF ByteAt
  <2> HIDE DEF i, S
  <2>5. IsSimple(xs[i])
    BY <1>1, <2>3 DEF AreInMemory
  <2>6. xs[i].items[1] \in Int /\ w \in Nat
    BY <2>3, <2>5, NumberValue, InMemoryFacts
  <2>7. Encoded(xs[i].items[1], w) \in Seq(Char) /\ Len(Encoded(xs[i].items[1], w)) = w
    BY <2>6, EncodedType
  <2>8. LaidOut(xs)[i] \in Nat
    BY <2>3, LaidOutFacts DEF LaysOut, AreInMemory
  <2> DEFINE p == LaidOut(xs)[i]
             e == Encoded(xs[i].items[1], w)
             k == at - p + 1
  <2>9. p \in Nat /\ w \in Nat /\ at \in p..(p + w - 1) /\ e \in Seq(Char) /\ Len(e) = w /\ ByteAt(xs, at) = e[k]
    BY <2>3, <2>4, <2>6, <2>7, <2>8
  <2> HIDE DEF p, e, w
  <2>10. k \in 1..w
    BY <2>9
  <2>11. e[k] \in Char
    BY <2>9, <2>10, SeqElements
  <2>12. Char \subseteq Int
    BY DEF Char, Base
  <2> QED
    BY <2>9, <2>11, <2>12
<1> QED
  BY <1>2, <1>3

LEMMA MembersFoundAre ==
    ASSUME NEW xs
    PROVE  MembersFound(xs) = [i \in DOMAIN xs |->
               IF i \in Numbers(xs) THEN [xs[i] EXCEPT !.items = <<Decoded(BytesFound(xs, i))>>] ELSE xs[i]]
BY DEF MembersFound, Numbers, BytesFound, ByteAt, At

LEMMA MemberFoundFacts ==
    ASSUME NEW xs, AreInMemory(xs), NEW i \in DOMAIN xs
    PROVE  /\ IsMember(MembersFound(xs)[i])
           /\ SizeOfSimple(MembersFound(xs)[i]) = SizeOfSimple(xs[i])
           /\ ~RefusableSimple(MembersFound(xs)[i])
<1> DEFINE x == xs[i]
           y == MembersFound(xs)[i]
           v == <<Decoded(BytesFound(xs, i))>>
<1>1. IsSimple(x) /\ x.kind \in {"byte", "number", "string"}
  BY DEF AreInMemory
<1>2. CASE i \in Numbers(xs)
  <2>1. x.kind \in {"byte", "number"}
    BY <1>2 DEF Numbers
  <2>2. BytesFound(xs, i) \in Seq(Int) /\ BytesFound(xs, i) # <<>>
    <3>1. InMemory(x) \in Nat \ {0}
      BY InMemoryFacts
    <3>2. BytesFound(xs, i) \in [1..InMemory(x) -> Int]
      BY ByteAtFacts DEF BytesFound
    <3> DEFINE w == InMemory(x)
               e == BytesFound(xs, i)
    <3> HIDE DEF w, e
    <3>3. e \in Seq(Int) /\ Len(e) = w
      BY <3>1, <3>2 DEF w, e
    <3>4. e # <<>>
      BY <3>1, <3>3 DEF w
    <3> QED
      BY <3>3, <3>4 DEF e
  <2>3. Decoded(BytesFound(xs, i)) \in Int
    BY <2>2, DecodedType
  <2>4. y = [x EXCEPT !.items = v]
    BY <1>2, MembersFoundAre
  <2>5. x = [kind |-> x.kind, key |-> x.key, of |-> x.of, room |-> x.room, items |-> x.items]
    BY <1>1 DEF IsSimple, HasFields
  <2>5a. v[1] \in Int
    BY <2>3
  <2> HIDE DEF v, x, y
  <2>6. y.kind = x.kind /\ y.items = v
    BY <2>4, <2>5
  <2>7. IsMember(y)
    BY <2>1, <2>5a, <2>6 DEF IsMember
  <2>8. SizeOfSimple(y) = SizeOfSimple(x)
    BY <2>1, <2>6 DEF SizeOfSimple, SizeOfGeneral, Width
  <2>9. ~RefusableSimple(y)
    BY <2>1, <2>6 DEF RefusableSimple
  <2> QED
    BY <2>7, <2>8, <2>9 DEF x, y
<1>3. CASE i \notin Numbers(xs)
  <2>1. y = x
    BY <1>3, MembersFoundAre
  <2> QED
    BY <1>1, <2>1 DEF IsMember, RefusableSimple
<1> QED
  BY <1>2, <1>3

LEMMA MembersFoundFacts ==
    ASSUME NEW xs, AreInMemory(xs)
    PROVE  /\ AreMembers(MembersFound(xs)) /\ DOMAIN MembersFound(xs) = DOMAIN xs
           /\ SizeOfMembers(MembersFound(xs)) = SizeOfMembers(xs)
           /\ \A i \in DOMAIN MembersFound(xs) : ~RefusableSimple(MembersFound(xs)[i])
<1> DEFINE ys == MembersFound(xs)
<1>1. DOMAIN ys = DOMAIN xs
  BY MembersFoundAre
<1>2. DOMAIN xs = 1..Len(xs) /\ Len(xs) \in Nat
  BY SeqFacts DEF AreInMemory
<1>2a. ys = [i \in 1..Len(xs) |-> ys[i]]
  BY <1>2, MembersFoundAre
<1> HIDE DEF ys
<1>3. IsSeq(ys)
  <2>1. \A i \in 1..Len(xs) : ys[i] \in ToSet(ys)
    BY <1>1, <1>2 DEF ToSet
  <2> DEFINE S == ToSet(ys)
             n == Len(xs)
  <2> HIDE DEF S, n
  <2>2. ys \in Seq(S)
    BY <1>2, <1>2a, <2>1 DEF n, S
  <2> QED
    BY <2>2 DEF IsSeq, S
<1>4. AreMembers(ys)
  BY <1>1, <1>3, MemberFoundFacts DEF AreMembers, ys
<1>5. SizeOfMembers(ys) = SizeOfMembers(xs)
  <2>1. \A i \in DOMAIN xs : SizeOfSimple(ys[i]) = SizeOfSimple(xs[i])
    BY MemberFoundFacts DEF ys
  <2>2. [i \in DOMAIN ys |-> SizeOfSimple(ys[i])] = [i \in DOMAIN xs |-> SizeOfSimple(xs[i])]
    BY <1>1, <2>1
  <2> QED
    BY <2>2 DEF SizeOfMembers
<1>6. \A i \in DOMAIN ys : ~RefusableSimple(ys[i])
  BY <1>1, MemberFoundFacts DEF ys
<1> QED
  BY <1>1, <1>4, <1>5, <1>6 DEF ys

\* Where the layouts agree, every number is found.
LEMMA NumberFound ==
    ASSUME NEW xs, AreInMemory(xs), Found(xs) = LaidOut(xs), NEW i \in Numbers(xs)
    PROVE  <<Decoded(BytesFound(xs, i))>> = xs[i].items
<1> DEFINE n == Len(xs)
           at == LaidOut(xs)
           w == InMemory(xs[i])
           e == Encoded(xs[i].items[1], w)
<1>1. n \in Nat /\ DOMAIN xs = 1..n
  BY SeqFacts DEF AreInMemory
<1>2. i \in 1..n /\ xs[i].kind \in {"byte", "number"} /\ IsSimple(xs[i])
  BY <1>1 DEF Numbers, AreInMemory
<1>3. LaysOut(at, xs)
  BY LaidOutFacts DEF AreInMemory
<1>4. \A j \in 1..n : at[j] \in Nat /\ InMemory(xs[j]) \in Nat
  BY <1>3, InMemoryFacts DEF LaysOut
<1>5. w \in Nat \ {0} /\ xs[i].items[1] \in Int /\ InWidth(xs[i].items[1], w)
  BY <1>2, NumberValue, InMemoryFacts
<1>6. e \in Seq(Char) /\ Len(e) = w
  BY <1>5, EncodedType
<1>7. ASSUME NEW k \in 1..w
      PROVE  ByteAt(xs, at[i] + k - 1) = e[k]
  <2> DEFINE a == at[i] + k - 1
  <2>1. i \in At(xs, a)
    <3> DEFINE p == at[i]
    <3>1. p \in Nat /\ w \in Nat
      BY <1>2, <1>4, <1>5
    <3> HIDE DEF p, w
    <3>2. p + k - 1 \in p..(p + w - 1)
      BY <3>1
    <3> QED
      BY <3>2 DEF At, p, w
  <2>2. ASSUME NEW j \in At(xs, a)
        PROVE  j = i
    <3>1. j \in 1..n /\ a \in at[j]..(at[j] + InMemory(xs[j]) - 1)
      BY <1>1 DEF At, Numbers
    <3> DEFINE p == at[i]
               q == at[j]
               z == InMemory(xs[j])
    <3>2. p \in Nat /\ q \in Nat /\ w \in Nat /\ z \in Nat /\ a = p + k - 1 /\ a \in q..(q + z - 1)
      BY <1>2, <1>4, <1>5, <3>1
    <3>3. i < j => p + w <= q
      BY <1>2, <1>3, <3>1, LaidOutApart DEF AreInMemory
    <3>4. j < i => q + z <= p
      BY <1>2, <1>3, <3>1, LaidOutApart DEF AreInMemory
    <3> HIDE DEF p, q, z, a, w
    <3>5. ~(i < j)
      BY <3>2, <3>3
    <3>6. ~(j < i)
      BY <3>2, <3>4
    <3> QED
      BY <1>2, <3>1, <3>5, <3>6
  <2>3. At(xs, a) = {i}
    BY <2>1, <2>2
  <2>4. Max({i}) = i
    <3>1. {i} \subseteq Nat /\ {i} # {} /\ i \in Nat /\ \A s \in {i} : s <= i
      BY <1>2
    <3> QED
      BY <3>1, MaxFacts
  <2>5. ByteAt(xs, a) = e[a - at[i] + 1]
    BY <2>3, <2>4 DEF ByteAt
  <2>6. a - at[i] + 1 = k
    <3> DEFINE p == at[i]
    <3>1. p \in Nat
      BY <1>2, <1>4
    <3> HIDE DEF p
    <3>2. (p + k - 1) - p + 1 = k
      BY <3>1
    <3> QED
      BY <3>2 DEF p
  <2> QED
    BY <2>5, <2>6
<1>8. BytesFound(xs, i) = [k \in 1..w |-> e[k]]
  BY <1>7 DEF BytesFound
<1> HIDE DEF e, w
<1>9. BytesFound(xs, i) = e
  BY <1>5, <1>6, <1>8
<1>10. Decoded(BytesFound(xs, i)) = xs[i].items[1]
  BY <1>5, <1>9, DecodedEncoded DEF e
<1>11. xs[i].items \in Seq(Int) /\ Len(xs[i].items) = 1
  BY <1>2 DEF IsSimple, IsNumber, Container
<1> DEFINE s == xs[i].items
<1> HIDE DEF s
<1>12. s \in Seq(Int) /\ Len(s) = 1 /\ Decoded(BytesFound(xs, i)) = s[1]
  BY <1>10, <1>11 DEF s
<1>13. <<s[1]>> = s
  BY <1>12
<1> QED
  BY <1>12, <1>13 DEF s

LEMMA AllFound ==
    ASSUME NEW xs, AreInMemory(xs), Found(xs) = LaidOut(xs)
    PROVE  MembersFound(xs) = xs
<1>1. ASSUME NEW i \in DOMAIN xs
      PROVE  MembersFound(xs)[i] = xs[i]
  <2> DEFINE x == xs[i]
             y == MembersFound(xs)[i]
  <2>1. CASE i \in Numbers(xs)
    <3>1. y = [x EXCEPT !.items = <<Decoded(BytesFound(xs, i))>>]
      BY <2>1, MembersFoundAre
    <3>2. <<Decoded(BytesFound(xs, i))>> = x.items
      BY <2>1, NumberFound
    <3>3. y = [x EXCEPT !.items = x.items]
      BY <3>1, <3>2
    <3>4. x = [kind |-> x.kind, key |-> x.key, of |-> x.of, room |-> x.room, items |-> x.items]
      BY DEF AreInMemory, IsSimple, HasFields
    <3> HIDE DEF x, y
    <3>5. y = x
      BY <3>3, <3>4
    <3> QED
      BY <3>5 DEF x, y
  <2>2. CASE i \notin Numbers(xs)
    BY <2>2, MembersFoundAre
  <2> QED
    BY <2>1, <2>2
<1>2. xs = [i \in DOMAIN xs |-> xs[i]]
  <2>1. xs \in Seq(ToSet(xs))
    BY SeqFacts DEF AreInMemory
  <2> QED
    BY <2>1
<1>3. MembersFound(xs) = [i \in DOMAIN xs |-> MembersFound(xs)[i]]
  BY MembersFoundAre
<1> QED
  BY <1>1, <1>2, <1>3

-----------------------------------------------------------------------------
(* Any value *)

AnyBytes(e, x, ahead) ==
    /\ x.kind \notin Composite => SimpleBytes(e, x, ahead)
    /\ x.kind = "struct" => MembersBytes(e, MembersFound(x.items), ahead)
    /\ x.kind \in Composite \ {"struct"} => MembersBytes(e, x.items, ahead)
WritesAny(b, c, x) ==
    /\ SizeOfAny(x) \in Nat
    /\ Appends(b, c, SizeOfAny(x))
    /\ HasRoom(b, SizeOfAny(x)) /\ ~Refusable(x) => c.ok
    /\ c.ok => AnyBytes(Added(b, c), x, FALSE)
WritesAnyAhead(b, c, x) ==
    /\ Prepends(b, c, SizeOfAny(x))
    /\ HasRoomAhead(b, SizeOfAny(x)) => c.ok
    /\ c.ok => AnyBytes(Ahead(b, c), x, TRUE)

LEMMA AnyWritten ==
    ASSUME NEW b, IsBuffer(b), NEW x, IsValue(x)
    PROVE  WritesAny(b, AppendAny(b, x), x)
<1>1. CASE x.kind \notin Composite
  <2>1. AppendAny(b, x) = AppendSimple(b, x) /\ SizeOfAny(x) = SizeOfSimple(x)
    BY <1>1 DEF AppendAny, SizeOfAny, Composite, Tuple, Pointer
  <2>2. IsSimple(x)
    BY <1>1 DEF IsValue
  <2>3. WritesSimple(b, AppendAny(b, x), x)
    BY <2>1, <2>2, SimpleWritten
  <2>4. RefusableSimple(x) => Refusable(x)
    BY DEF Refusable
  <2> QED
    BY <1>1, <2>1, <2>3, <2>4 DEF WritesSimple, WritesAny, AnyBytes, Composite
<1>2. CASE x.kind \in Composite \ {"struct"}
  <2>1. AppendAny(b, x) = AppendMembers(b, x.items) /\ SizeOfAny(x) = SizeOfMembers(x.items)
    BY <1>2 DEF AppendAny, SizeOfAny, Composite, Tuple, Pointer, DoAppendTuple, DoAppendObject, DoAppendPointer,
                SizeOfTuple, SizeOfObject, SizeOfPointer
  <2>2. AreMembers(x.items)
    BY <1>2 DEF IsValue, AreMembers, IsMember
  <2>3. (\E i \in DOMAIN x.items : RefusableSimple(x.items[i])) => Refusable(x)
    BY <1>2 DEF Refusable
  <2> DEFINE c == AppendMembers(b, x.items)
  <2>4. /\ SizeOfMembers(x.items) \in Nat
        /\ Appends(b, c, SizeOfMembers(x.items))
        /\ HasRoom(b, SizeOfMembers(x.items)) /\ (\A i \in DOMAIN x.items : ~RefusableSimple(x.items[i])) => c.ok
        /\ c.ok => MembersBytes(Added(b, c), x.items, FALSE)
    BY <2>2, MembersWritten
  <2> HIDE DEF c
  <2>5. c.ok => AnyBytes(Added(b, c), x, FALSE)
    BY <1>2, <2>4 DEF AnyBytes
  <2> QED
    BY <2>1, <2>3, <2>4, <2>5 DEF WritesAny, c
<1>3. CASE x.kind = "struct"
  <2> DEFINE ys == MembersFound(x.items)
             c == AppendMembers(b, ys)
  <2>0. x.kind \in Composite
    BY <1>3 DEF Composite
  <2>1. AppendAny(b, x) = c /\ SizeOfAny(x) = SizeOfMembers(x.items)
    BY <1>3 DEF AppendAny, SizeOfAny, Tuple, Pointer, DoAppendStruct, SizeOfStruct
  <2>2. AreInMemory(x.items)
    BY <1>3, <2>0 DEF IsValue, AreInMemory
  <2>3. /\ AreMembers(ys) /\ SizeOfMembers(ys) = SizeOfMembers(x.items)
        /\ \A i \in DOMAIN ys : ~RefusableSimple(ys[i])
    BY <2>2, MembersFoundFacts
  <2>4. /\ SizeOfMembers(ys) \in Nat
        /\ Appends(b, c, SizeOfMembers(ys))
        /\ HasRoom(b, SizeOfMembers(ys)) /\ (\A i \in DOMAIN ys : ~RefusableSimple(ys[i])) => c.ok
        /\ c.ok => MembersBytes(Added(b, c), ys, FALSE)
    BY <2>3, MembersWritten
  <2>4a. c.ok => MembersBytes(Added(b, c), MembersFound(x.items), FALSE)
    BY <2>4
  <2> HIDE DEF c, ys
  <2>5. c.ok => AnyBytes(Added(b, c), x, FALSE)
    BY <1>3, <2>0, <2>4a DEF AnyBytes
  <2> QED
    BY <2>1, <2>3, <2>4, <2>5 DEF WritesAny
<1> QED
  BY <1>1, <1>2, <1>3

LEMMA AnyWrittenAhead ==
    ASSUME NEW b, IsBuffer(b), NEW x, IsValue(x), CanPrepend(x)
    PROVE  WritesAnyAhead(b, PrependAny(b, x), x)
<1>1. CASE x.kind \notin Composite
  <2>1. PrependAny(b, x) = PrependSimple(b, x) /\ SizeOfAny(x) = SizeOfSimple(x)
    BY <1>1 DEF PrependAny, SizeOfAny, Composite, Tuple, Pointer
  <2>2. IsSimple(x) /\ CanPrependSimple(x)
    BY <1>1 DEF IsValue, CanPrepend, Composite
  <2>3. WritesSimpleAhead(b, PrependAny(b, x), x)
    BY <2>1, <2>2, SimpleWrittenAhead
  <2> QED
    BY <1>1, <2>1, <2>3 DEF WritesSimpleAhead, WritesAnyAhead, AnyBytes, Composite
<1>2. CASE x.kind \in Composite
  <2>0. x.kind \in Tuple /\ \A i \in DOMAIN x.items : CanPrependSimple(x.items[i])
    BY <1>2 DEF CanPrepend, CanPrependSimple, Container, Composite, Tuple, Pointer
  <2>1. PrependAny(b, x) = DoPrependTuple(b, x) /\ SizeOfAny(x) = SizeOfMembers(x.items)
    BY <2>0 DEF PrependAny, SizeOfAny, SizeOfTuple, Tuple, Pointer
  <2>2. AreSimpleAhead(x.items)
    BY <1>2, <2>0 DEF IsValue, AreSimpleAhead
  <2> DEFINE c == DoPrependTuple(b, x)
  <2>4. /\ Prepends(b, c, SizeOfMembers(x.items))
        /\ HasRoomAhead(b, SizeOfMembers(x.items)) => c.ok
        /\ c.ok => MembersBytes(Ahead(b, c), x.items, TRUE)
    BY <2>2, TupleWrittenAhead
  <2> HIDE DEF c
  <2>5. c.ok => AnyBytes(Ahead(b, c), x, TRUE)
    BY <1>2, <2>0, <2>4 DEF AnyBytes, Tuple
  <2> QED
    BY <2>1, <2>4, <2>5 DEF WritesAnyAhead, c
<1> QED
  BY <1>1, <1>2

LEMMA SizesOfValues ==
    ASSUME NEW xs, IsSeq(xs), \A i \in DOMAIN xs : IsValue(xs[i])
    PROVE  /\ Len(xs) \in Nat /\ DOMAIN xs = 1..Len(xs)
           /\ [i \in DOMAIN xs |-> SizeOfAny(xs[i])] \in Seq(Nat)
           /\ Len([i \in DOMAIN xs |-> SizeOfAny(xs[i])]) = Len(xs)
           /\ GetSizeOf(xs) \in Nat
<1> DEFINE n == Len(xs)
           sizes == [i \in DOMAIN xs |-> SizeOfAny(xs[i])]
<1>1. n \in Nat /\ DOMAIN xs = 1..n
  BY SeqFacts
<1>2. ASSUME NEW i \in 1..n PROVE SizeOfAny(xs[i]) \in Nat
  <2>1. IsBuffer(Allocated(0))
    BY AllocatedIsBuffer
  <2> QED
    BY <1>1, <2>1, AnyWritten DEF WritesAny
<1> HIDE DEF n
<1>3. sizes \in [1..n -> Nat]
  BY <1>1, <1>2
<1>4. sizes \in Seq(Nat) /\ Len(sizes) = n
  BY <1>1, <1>3
<1>5. GetSizeOf(xs) = Total(sizes)
  BY DEF GetSizeOf
<1> HIDE DEF sizes
<1>6. PICK t \in [0..Len(sizes) -> Nat] : Total(sizes) = t[Len(sizes)]
  BY <1>4, TotalUnfolds
<1>7. Total(sizes) \in Nat
  BY <1>1, <1>4, <1>6
<1> QED
  BY <1>1, <1>4, <1>5, <1>7 DEF n, sizes

-----------------------------------------------------------------------------
(* The sizes of the first values *)

Before(xs, k) == GetSizeOf(SubSeq(xs, 1, k))
AreValues(xs) == IsSeq(xs) /\ \A i \in DOMAIN xs : IsValue(xs[i])

LEMMA SizeBefore ==
    ASSUME NEW xs, AreValues(xs)
    PROVE  /\ Len(xs) \in Nat /\ DOMAIN xs = 1..Len(xs) /\ \A k \in 1..Len(xs) : IsValue(xs[k])
           /\ Before(xs, 0) = 0 /\ Before(xs, Len(xs)) = GetSizeOf(xs)
           /\ \A k \in 0..Len(xs) : Before(xs, k) \in Nat /\ Before(xs, k) <= GetSizeOf(xs)
           /\ \A k \in 1..Len(xs) : /\ SizeOfAny(xs[k]) \in Nat
                                    /\ Before(xs, k) = Before(xs, k - 1) + SizeOfAny(xs[k])
           /\ GetSizeOf(xs) \in Nat
<1> DEFINE n == Len(xs)
           sizes == [i \in DOMAIN xs |-> SizeOfAny(xs[i])]
           upTo(k) == [i \in 1..k |-> SizeOfAny(xs[i])]
<1>1. n \in Nat /\ DOMAIN xs = 1..n /\ sizes \in Seq(Nat) /\ Len(sizes) = n
  BY SizesOfValues DEF AreValues
<1>1a. \A k \in 1..n : IsValue(xs[k])
  BY <1>1 DEF AreValues
<1>2. PICK t \in [0..n -> Nat] : Sums(t, sizes) /\ Total(sizes) = t[n]
  BY <1>1, TotalUnfolds
<1>3. t[0] = 0 /\ \A i \in 1..n : t[i] = t[i - 1] + SizeOfAny(xs[i]) /\ SizeOfAny(xs[i]) \in Nat
  <2>1. \A i \in 1..n : sizes[i] = SizeOfAny(xs[i]) /\ sizes[i] \in Nat
    BY <1>1
  <2> QED
    BY <1>1, <1>2, <2>1 DEF Sums
<1>4. GetSizeOf(xs) = t[n]
  BY <1>2 DEF GetSizeOf
<1>5. ASSUME NEW k \in 0..n
      PROVE  Before(xs, k) = t[k]
  <2> DEFINE ys == SubSeq(xs, 1, k)
  <2>1. xs \in Seq(ToSet(xs))
    BY SeqFacts DEF AreValues
  <2>2. Len(ys) = k /\ DOMAIN ys = 1..k /\ \A i \in 1..k : ys[i] = xs[i]
    <3> DEFINE S == ToSet(xs)
    <3>1. xs \in Seq(S) /\ k \in 0..Len(xs) /\ k \in Nat
      BY <1>1, <2>1
    <3> HIDE DEF S
    <3> QED
      BY <3>1
  <2>3. [i \in DOMAIN ys |-> SizeOfAny(ys[i])] = upTo(k)
    BY <2>2
  <2>4. Before(xs, k) = Total(upTo(k))
    BY <2>3 DEF Before, GetSizeOf
  <2>5. upTo(k) \in Seq(Nat) /\ Len(upTo(k)) = k
    <3>1. k \in Nat /\ \A i \in 1..k : SizeOfAny(xs[i]) \in Nat
      BY <1>1, <1>3
    <3> QED
      BY <3>1
  <2>6. Sums(t, upTo(k))
    <3>1. \A i \in 1..k : i \in 1..n /\ upTo(k)[i] = SizeOfAny(xs[i])
      BY <1>1
    <3> HIDE DEF upTo
    <3> QED
      BY <1>3, <2>5, <3>1 DEF Sums
  <2> HIDE DEF upTo
  <2>7. Total(upTo(k)) = t[k]
    BY <2>5, <2>6, SumsUnique
  <2> QED
    BY <2>4, <2>7
<1>6. \A k \in 0..n : t[k] \in Nat /\ t[k] <= t[n]
  <2> DEFINE f == [i \in 1..n |-> SizeOfAny(xs[i])]
  <2>1. f \in [1..n -> Nat] /\ AddsUp(t, f, n)
    BY <1>3 DEF AddsUp
  <2> HIDE DEF f, n
  <2>2. \A k \in 0..n : \A i \in 0..k : t[i] \in Nat /\ t[k] \in Nat /\ t[i] <= t[k]
    BY <1>1, <2>1, SumsMonotone
  <2>3. n \in 0..n
    BY <1>1
  <2> QED
    BY <2>2, <2>3
<1> HIDE DEF n
<1>7. 0 \in 0..n /\ n \in 0..n /\ \A k \in 1..n : k \in 0..n /\ k - 1 \in 0..n
  BY <1>1
<1> QED
  BY <1>1, <1>1a, <1>3, <1>4, <1>5, <1>6, <1>7 DEF n

-----------------------------------------------------------------------------
(* One more part *)

LEMMA SliceIs ==
    ASSUME NEW V, NEW s \in Seq(V), NEW p \in Nat, NEW q \in Nat, p <= q, q <= Len(s)
    PROVE  SubSeq(s, p + 1, q) = [i \in 1..(q - p) |-> s[p + i]]
OBVIOUS

LEMMA SliceSteps ==
    ASSUME NEW V, NEW s \in Seq(V), NEW t \in Seq(V), NEW p \in Nat, NEW q \in Nat, NEW r \in Nat,
           p <= q, q <= r, r <= Len(t), q <= Len(s), \A i \in (p + 1)..q : t[i] = s[i]
    PROVE  /\ SubSeq(t, p + 1, r) = SubSeq(s, p + 1, q) \o SubSeq(t, q + 1, r)
           /\ SubSeq(s, p + 1, q) \in Seq(V) /\ SubSeq(t, q + 1, r) \in Seq(V)
           /\ Len(SubSeq(s, p + 1, q)) = q - p /\ Len(SubSeq(t, q + 1, r)) = r - q
<1> DEFINE a == SubSeq(s, p + 1, q)
           b == SubSeq(t, q + 1, r)
           c == SubSeq(t, p + 1, r)
<1>1. a = [i \in 1..(q - p) |-> s[p + i]] /\ b = [i \in 1..(r - q) |-> t[q + i]] /\ c = [i \in 1..(r - p) |-> t[p + i]]
  <2>1. a = [i \in 1..(q - p) |-> s[p + i]]
    BY SliceIs
  <2>2. b = [i \in 1..(r - q) |-> t[q + i]]
    BY SliceIs
  <2>3. p <= r
    OBVIOUS
  <2>4. c = [i \in 1..(r - p) |-> t[p + i]]
    BY <2>3, SliceIs
  <2> HIDE DEF a, b, c
  <2> QED
    BY <2>1, <2>2, <2>4
<1>2. \A i \in 1..Len(s) : s[i] \in V
  OBVIOUS
<1>3. \A i \in 1..Len(t) : t[i] \in V
  OBVIOUS
<1>3a. Len(s) \in Nat /\ Len(t) \in Nat
  OBVIOUS
<1> HIDE DEF a, b, c
<1>4. \A i \in 1..(q - p) : p + i \in 1..Len(s) /\ p + i \in (p + 1)..q
  BY <1>3a
<1>5. \A i \in 1..(r - q) : q + i \in 1..Len(t)
  BY <1>3a
<1>6. a \in Seq(V) /\ Len(a) = q - p /\ \A i \in 1..(q - p) : a[i] = s[p + i]
  BY <1>1, <1>2, <1>4
<1>7. b \in Seq(V) /\ Len(b) = r - q /\ \A i \in 1..(r - q) : b[i] = t[q + i]
  BY <1>1, <1>3, <1>5
<1>8. /\ a \o b \in Seq(V) /\ Len(a \o b) = r - p
      /\ \A i \in 1..(r - p) : (a \o b)[i] = IF i <= q - p THEN a[i] ELSE b[i - (q - p)]
  <2>1. Len(a) + Len(b) = r - p
    BY <1>6, <1>7
  <2>2. a \in Seq(V) /\ b \in Seq(V)
    BY <1>6, <1>7
  <2>3. /\ a \o b \in Seq(V) /\ Len(a \o b) = Len(a) + Len(b)
        /\ \A i \in 1..(Len(a) + Len(b)) : (a \o b)[i] = IF i <= Len(a) THEN a[i] ELSE b[i - Len(a)]
    BY <2>2, ConcatProperties
  <2> QED
    BY <1>6, <2>1, <2>3
<1>9. ASSUME NEW i \in 1..(r - p)
      PROVE  t[p + i] = IF i <= q - p THEN a[i] ELSE b[i - (q - p)]
  <2>1. CASE i <= q - p
    <3>1. i \in 1..(q - p)
      BY <2>1
    <3> QED
      BY <1>4, <1>6, <2>1, <3>1
  <2>2. CASE ~(i <= q - p)
    <3>1. i - (q - p) \in 1..(r - q) /\ q + (i - (q - p)) = p + i
      BY <2>2
    <3> QED
      BY <1>7, <2>2, <3>1
  <2> QED
    BY <2>1, <2>2
<1>10. c = a \o b
  <2>1. \A i \in 1..(r - p) : c[i] = t[p + i]
    BY <1>1
  <2>2. \A i \in 1..(r - p) : c[i] = (a \o b)[i]
    BY <1>8, <1>9, <2>1
  <2>3. c \in Seq(V) /\ Len(c) = r - p
    <3>1. r - p \in Nat /\ \A i \in 1..(r - p) : p + i \in 1..Len(t)
      BY <1>3a
    <3>2. c \in [1..(r - p) -> V]
      BY <1>1, <1>3, <3>1
    <3> DEFINE k == r - p
    <3> HIDE DEF k
    <3>3. k \in Nat /\ c \in [1..k -> V]
      BY <3>1, <3>2 DEF k
    <3>4. c \in Seq(V) /\ Len(c) = k
      BY <3>3
    <3> QED
      BY <3>4 DEF k
  <2> QED
    BY <1>8, <2>2, <2>3, SeqEqual
<1> QED
  BY <1>6, <1>7, <1>10 DEF a, b, c

LEMMA JoinsAppend ==
    ASSUME NEW e \in Seq(Cell), NEW f \in Seq(Cell), NEW parts \in Seq(Seq(Cell)), Joins(e, parts)
    PROVE  Joins(e \o f, Append(parts, f))
<1> DEFINE n == Len(parts)
           w == Len(e)
           d == e \o f
           more == Append(parts, f)
<1>1. n \in Nat /\ w \in Nat /\ Len(f) \in Nat /\ d \in Seq(Cell) /\ Len(d) = w + Len(f)
  OBVIOUS
<1>1a. Len(more) = n + 1 /\ more[n + 1] = f /\ \A i \in 1..n : more[i] = parts[i]
  OBVIOUS
<1>2. PICK o \in [0..n -> Nat] : /\ o[0] = 0 /\ o[n] = w
                                 /\ \A i \in 1..n : /\ o[i - 1] <= o[i] /\ o[i] <= w
                                                    /\ SubSeq(e, o[i - 1] + 1, o[i]) = parts[i]
  BY DEF Joins
<1>3. SubSeq(d, w + 1, Len(d)) = f /\ \A i \in 1..w : d[i] = e[i]
  OBVIOUS
<1> HIDE DEF n, w, d, more
<1> DEFINE q == [i \in 0..(n + 1) |-> IF i <= n THEN o[i] ELSE w + Len(f)]
<1>4. q \in [0..(n + 1) -> Nat] /\ q[0] = 0 /\ q[n + 1] = Len(d) /\ \A i \in 0..n : q[i] = o[i]
  <2>1. \A i \in 0..(n + 1) : i <= n => i \in 0..n
    BY <1>1
  <2>2. \A i \in 0..n : i \in 0..(n + 1) /\ i <= n
    BY <1>1
  <2>3. n + 1 \in 0..(n + 1) /\ ~(n + 1 <= n) /\ 0 \in 0..n /\ w + Len(f) \in Nat
    BY <1>1
  <2> QED
    BY <1>1, <1>2, <2>1, <2>2, <2>3
<1> HIDE DEF q
<1>5. ASSUME NEW i \in 1..(n + 1)
      PROVE  /\ q[i - 1] <= q[i] /\ q[i] <= Len(d)
             /\ SubSeq(d, q[i - 1] + 1, q[i]) = more[i]
  <2>1. CASE i = n + 1
    <3>1. q[i] = Len(d) /\ q[i - 1] = w
      <4>1. n \in 0..n /\ i - 1 = n
        BY <1>1, <2>1
      <4> QED
        BY <1>2, <1>4, <2>1, <4>1
    <3>2. w <= Len(d) /\ Len(d) <= Len(d)
      BY <1>1
    <3> QED
      BY <1>1a, <1>3, <2>1, <3>1, <3>2
  <2>2. CASE i # n + 1
    <3> DEFINE x == o[i - 1]
               y == o[i]
    <3>1. i \in 1..n /\ i \in 0..n /\ i - 1 \in 0..n
      BY <1>1, <2>2
    <3>2. q[i - 1] = x /\ q[i] = y /\ x \in Nat /\ y \in Nat /\ x <= y /\ y <= w /\ SubSeq(e, x + 1, y) = parts[i]
      BY <1>2, <1>4, <3>1
    <3> HIDE DEF x, y
    <3>3. y <= Len(d) /\ y <= Len(e)
      BY <1>1, <3>2 DEF w
    <3>4. \A j \in (x + 1)..y : d[j] = e[j]
      <4>1. \A j \in (x + 1)..y : j \in 1..w
        BY <1>1, <3>2
      <4> QED
        BY <1>3, <4>1
    <3>5. SubSeq(d, x + 1, y) = SubSeq(e, x + 1, y)
      BY <1>1, <3>2, <3>3, <3>4, SlicesAgree, SMTT(30)
    <3> QED
      BY <1>1a, <3>1, <3>2, <3>3, <3>5
  <2> QED
    BY <2>1, <2>2
<1>6. Joins(d, more)
  <2>1. Len(more) = n + 1
    BY <1>1a
  <2> QED
    BY <1>4, <1>5, <2>1 DEF Joins
<1> QED
  BY <1>6 DEF d, more

LEMMA JoinsPrepend ==
    ASSUME NEW e \in Seq(Cell), NEW f \in Seq(Cell), NEW parts \in Seq(Seq(Cell)), Joins(e, parts)
    PROVE  Joins(f \o e, <<f>> \o parts)
<1> DEFINE n == Len(parts)
           w == Len(f)
           d == f \o e
           more == <<f>> \o parts
<1>1. n \in Nat /\ w \in Nat /\ Len(e) \in Nat /\ d \in Seq(Cell) /\ Len(d) = w + Len(e)
  OBVIOUS
<1>1a. Len(more) = n + 1 /\ more[1] = f /\ \A i \in 1..n : more[i + 1] = parts[i]
  OBVIOUS
<1>2. PICK o \in [0..n -> Nat] : /\ o[0] = 0 /\ o[n] = Len(e)
                                 /\ \A i \in 1..n : /\ o[i - 1] <= o[i] /\ o[i] <= Len(e)
                                                    /\ SubSeq(e, o[i - 1] + 1, o[i]) = parts[i]
  BY DEF Joins
<1>3. SubSeq(d, 1, w) = f /\ SubSeq(d, w + 1, w + Len(e)) = e
  OBVIOUS
<1> HIDE DEF n, w, d, more
<1> DEFINE q == [i \in 0..(n + 1) |-> IF i = 0 THEN 0 ELSE w + o[i - 1]]
<1>4. q \in [0..(n + 1) -> Nat] /\ q[0] = 0 /\ q[n + 1] = Len(d) /\ \A i \in 0..n : q[i + 1] = w + o[i]
  <2>1. \A i \in 0..(n + 1) : i # 0 => i - 1 \in 0..n
    BY <1>1
  <2>2. \A i \in 0..n : i + 1 \in 0..(n + 1) /\ i + 1 # 0 /\ (i + 1) - 1 = i
    BY <1>1
  <2>3. n \in 0..n /\ 0 \in 0..(n + 1) /\ \A i \in 0..n : w + o[i] \in Nat
    BY <1>1
  <2>4. \A i \in 0..n : q[i + 1] = w + o[i]
    BY <2>2
  <2> QED
    BY <1>1, <1>2, <2>1, <2>3, <2>4
<1> HIDE DEF q
<1>5. ASSUME NEW i \in 1..(n + 1)
      PROVE  /\ q[i - 1] <= q[i] /\ q[i] <= Len(d)
             /\ SubSeq(d, q[i - 1] + 1, q[i]) = more[i]
  <2>1. CASE i = 1
    <3>1. q[0] = 0 /\ q[1] = w
      <4>1. 0 \in 0..n /\ 0 + 1 = 1 /\ w + 0 = w
        BY <1>1
      <4> QED
        BY <1>2, <1>4, <4>1
    <3>2. i - 1 = 0 /\ 0 <= w /\ w <= Len(d) /\ 0 + 1 = 1
      BY <1>1, <2>1
    <3> QED
      BY <1>1a, <1>3, <2>1, <3>1, <3>2
  <2>2. CASE i # 1
    <3> DEFINE j == i - 1
               x == o[j - 1]
               y == o[j]
    <3>1. j \in 1..n /\ j \in 0..n /\ j - 1 \in 0..n /\ i = j + 1 /\ i - 1 = (j - 1) + 1
      BY <1>1, <2>2
    <3>2. q[i - 1] = w + x /\ q[i] = w + y /\ x \in Nat /\ y \in Nat /\ x <= y /\ y <= Len(e)
          /\ SubSeq(e, x + 1, y) = parts[j] /\ more[i] = parts[j]
      BY <1>1a, <1>2, <1>4, <3>1
    <3> HIDE DEF j, x, y
    <3>3. w + x <= w + y /\ w + y <= Len(d)
      BY <1>1, <3>2
    <3>4. SubSeq(SubSeq(d, w + 1, w + Len(e)), x + 1, y) = SubSeq(d, w + x + 1, w + y)
      <4> DEFINE z == w + Len(e)
      <4>1. w + y <= z /\ z <= Len(d) /\ z \in Nat
        BY <1>1, <3>2
      <4> HIDE DEF z
      <4>2. d \in Seq(Cell) /\ w \in Nat /\ x \in Nat /\ y \in Nat /\ x <= y
        BY <1>1, <3>2
      <4>3. SubSeq(SubSeq(d, w + 1, z), x + 1, y) = SubSeq(d, w + x + 1, w + y)
        BY ONLY <4>1, <4>2, SliceOfSlice
      <4> QED
        BY <4>3 DEF z
    <3> QED
      BY <1>3, <3>2, <3>3, <3>4
  <2> QED
    BY <2>1, <2>2
<1>6. Joins(d, more)
  <2>1. Len(more) = n + 1
    BY <1>1a
  <2> QED
    BY <1>4, <1>5, <2>1 DEF Joins
<1> QED
  BY <1>6 DEF d, more

-----------------------------------------------------------------------------
(* Views *)

Views == [mem : Seq(Cell), at : Nat, size : Nat]
IsView(v) == v \in Views /\ v.at + v.size <= Len(v.mem)
Holds(v, off, e) == off + Len(e) <= v.size /\ Bytes(v, off, Len(e)) = e

\* w is v without its first n bytes, which are all that may have changed.
Consumed(v, w, n) ==
    /\ IsView(w) /\ n <= v.size /\ w.at = v.at + n /\ w.size = v.size - n /\ Len(w.mem) = Len(v.mem)
    /\ \A i \in 1..Len(v.mem) : i \notin (v.at + 1)..(v.at + n) => w.mem[i] = v.mem[i]

LEMMA ViewFacts ==
    ASSUME NEW v, IsView(v)
    PROVE  /\ v.mem \in Seq(Cell) /\ v.at \in Nat /\ v.size \in Nat /\ v.at + v.size <= Len(v.mem)
           /\ Len(v.mem) \in Nat /\ v = [mem |-> v.mem, at |-> v.at, size |-> v.size]
BY DEF IsView, Views

LEMMA Advanced ==
    ASSUME NEW v, IsView(v), NEW n \in Nat, n <= v.size
    PROVE  /\ Consumed(v, Advance(v, n), n)
           /\ Advance(v, n) = [mem |-> v.mem, at |-> v.at + n, size |-> v.size - n]
           /\ Advance(v, n).mem = v.mem
<1>1. /\ v.mem \in Seq(Cell) /\ v.at \in Nat /\ v.size \in Nat /\ v.at + v.size <= Len(v.mem)
      /\ Len(v.mem) \in Nat /\ v \in Views
  BY ViewFacts DEF IsView
<1> DEFINE w == Advance(v, n)
<1>2. w = [mem |-> v.mem, at |-> v.at + n, size |-> v.size - n]
  <2> DEFINE at1 == v.at + n
             size1 == v.size - n
  <2>1. w = [v EXCEPT !.at = at1, !.size = size1]
    BY DEF Advance
  <2> HIDE DEF w, at1, size1
  <2>2. v \in [mem : Seq(Cell), at : Nat, size : Nat]
    BY <1>1 DEF Views
  <2>3. w = [mem |-> v.mem, at |-> at1, size |-> size1]
    BY ONLY <2>1, <2>2
  <2> QED
    BY <2>3 DEF at1, size1
<1>3. w.mem = v.mem /\ w.at = v.at + n /\ w.size = v.size - n
  BY <1>2
<1>4. w \in Views
  BY <1>1, <1>2 DEF Views
<1> HIDE DEF w
<1>5. w.at + w.size <= Len(w.mem)
  BY <1>1, <1>3
<1> QED
  BY <1>2, <1>3, <1>4, <1>5 DEF Consumed, IsView, w

\* Views of the same bytes from the same place on.
LEMMA SlicesOfViews ==
    ASSUME NEW v, IsView(v), NEW off \in Nat, NEW n \in Nat, off + n <= v.size
    PROVE  /\ Bytes(v, off, n) \in Seq(Cell) /\ Len(Bytes(v, off, n)) = n
           /\ Bytes(v, off, n) = SubSeq(v.mem, (v.at + off) + 1, (v.at + off) + n)
           /\ \A i \in 1..n : Bytes(v, off, n)[i] = v.mem[v.at + off + i]
<1> DEFINE mem == v.mem
           p == v.at + off
           q == p + n
<1>1. mem \in Seq(Cell) /\ p \in Nat /\ q \in Nat /\ q <= Len(mem) /\ v.at \in Nat
  BY ViewFacts
<1>2. Bytes(v, off, n) = SubSeq(mem, p + 1, q)
  BY <1>1 DEF Bytes
<1> HIDE DEF mem, p
<1>3. Len(SubSeq(mem, p + 1, q)) = n /\ SubSeq(mem, p + 1, q) \in Seq(Cell)
      /\ \A i \in 1..n : SubSeq(mem, p + 1, q)[i] = mem[p + i]
  BY <1>1
<1> QED
  BY <1>2, <1>3 DEF mem, p

LEMMA HoldsPart ==
    ASSUME NEW v, IsView(v), NEW off \in Nat, NEW e \in Seq(Cell), Holds(v, off, e),
           NEW p \in Nat, NEW q \in Nat, p <= q, q <= Len(e)
    PROVE  Bytes(v, off + p, q - p) = SubSeq(e, p + 1, q) /\ Holds(v, off + p, SubSeq(e, p + 1, q))
           /\ Len(SubSeq(e, p + 1, q)) = q - p
<1> DEFINE n == Len(e)
           mem == v.mem
           a == v.at + off
           z == a + n
<1>1. n \in Nat /\ off + n <= v.size /\ v.size \in Nat /\ mem \in Seq(Cell) /\ a \in Nat /\ z \in Nat /\ z <= Len(mem)
      /\ v.at \in Nat /\ Bytes(v, off, n) = e
  BY ViewFacts DEF Holds
<1>2. e = SubSeq(mem, a + 1, z)
  BY <1>1, SlicesOfViews
<1>3. Bytes(v, off + p, q - p) = SubSeq(mem, a + p + 1, a + q)
  <2>1. off + p \in Nat /\ q - p \in Nat /\ (off + p) + (q - p) <= v.size
    BY <1>1
  <2>2. Bytes(v, off + p, q - p) = SubSeq(mem, (v.at + (off + p)) + 1, (v.at + (off + p)) + (q - p))
    BY <2>1, SlicesOfViews
  <2>3. (v.at + (off + p)) + 1 = a + p + 1 /\ (v.at + (off + p)) + (q - p) = a + q
    BY <1>1
  <2> QED
    BY <2>2, <2>3
<1>4. SubSeq(SubSeq(mem, a + 1, z), p + 1, q) = SubSeq(mem, a + p + 1, a + q)
  <2>1. a + q <= z
    BY <1>1
  <2> HIDE DEF a, z, n, mem
  <2> QED
    BY <1>1, <2>1, SliceOfSlice
<1>5. Len(SubSeq(e, p + 1, q)) = q - p
  OBVIOUS
<1>6. (off + p) + (q - p) <= v.size
  BY <1>1
<1> QED
  BY <1>2, <1>3, <1>4, <1>5, <1>6 DEF Holds

LEMMA HoldsBoth ==
    ASSUME NEW v, IsView(v), NEW off \in Nat, NEW e \in Seq(Cell), NEW f \in Seq(Cell), Holds(v, off, e \o f)
    PROVE  Holds(v, off, e) /\ Holds(v, off + Len(e), f)
<1> DEFINE n == Len(e)
           z == Len(e) + Len(f)
           d == e \o f
<1>1. n \in Nat /\ z \in Nat /\ n <= z /\ d \in Seq(Cell) /\ Len(d) = z /\ 0 <= n /\ 0 \in Nat /\ z <= Len(d) /\ n <= Len(d)
  OBVIOUS
<1>2. SubSeq(d, 0 + 1, n) = e /\ SubSeq(d, n + 1, z) = f
  <2>1. SubSeq(d, 1, n) = e /\ SubSeq(d, n + 1, z) = f
    OBVIOUS
  <2> QED
    BY <2>1
<1> HIDE DEF n, z, d
<1>3. Holds(v, off, d)
  BY DEF d
<1>4. Holds(v, off + 0, SubSeq(d, 0 + 1, n))
  BY <1>1, <1>3, HoldsPart
<1>5. Holds(v, off + n, SubSeq(d, n + 1, z))
  BY <1>1, <1>3, HoldsPart
<1>6. off + 0 = off
  OBVIOUS
<1> QED
  BY <1>2, <1>4, <1>5, <1>6 DEF n

LEMMA HoldsBehind ==
    ASSUME NEW v, IsView(v), NEW n \in Nat, NEW w, Consumed(v, w, n), NEW off \in Nat, n <= off,
           NEW e \in Seq(Cell)
    PROVE  Holds(v, off, e) <=> Holds(w, off - n, e)
<1> DEFINE k == Len(e)
           vm == v.mem
           wm == w.mem
<1>1. /\ IsView(w) /\ n <= v.size /\ w.at = v.at + n /\ w.size = v.size - n /\ Len(wm) = Len(vm)
      /\ \A i \in 1..Len(vm) : i \notin (v.at + 1)..(v.at + n) => wm[i] = vm[i]
  BY DEF Consumed
<1>2. k \in Nat /\ vm \in Seq(Cell) /\ wm \in Seq(Cell) /\ v.at \in Nat /\ v.size \in Nat /\ v.at + v.size <= Len(vm)
      /\ Len(vm) \in Nat
  BY <1>1, ViewFacts
<1>3. off + k <= v.size <=> (off - n) + k <= w.size
  BY <1>1, <1>2
<1>4. ASSUME off + k <= v.size
      PROVE  Bytes(v, off, k) = Bytes(w, off - n, k)
  <2> DEFINE x == v.at + off
             y == x + k
  <2>1. x \in Nat /\ y \in Nat /\ y <= Len(vm) /\ y <= Len(wm)
    BY <1>1, <1>2, <1>4, SMTT(30)
  <2>2. \A i \in (x + 1)..y : i \in 1..Len(vm) /\ i \notin (v.at + 1)..(v.at + n)
    BY <1>2, <2>1, SMTT(30)
  <2>3. Bytes(v, off, k) = SubSeq(vm, x + 1, y)
    BY <1>2, <1>4, SlicesOfViews
  <2>4. Bytes(w, off - n, k) = SubSeq(wm, x + 1, y)
    <3> DEFINE z == off - n
    <3>1. z \in Nat /\ z + k <= w.size
      BY <1>3, <1>4
    <3>2. w.at + z = x
      BY <1>1, <1>2
    <3> HIDE DEF z, x, y, k
    <3>3. Bytes(w, z, k) = SubSeq(wm, (w.at + z) + 1, (w.at + z) + k)
      BY <1>1, <1>2, <3>1, SlicesOfViews
    <3>4. Bytes(w, z, k) = SubSeq(wm, x + 1, x + k)
      BY <3>2, <3>3
    <3> QED
      BY <3>4 DEF z, y
  <2>5. \A i \in (x + 1)..y : vm[i] = wm[i]
    BY <1>1, <2>2
  <2> HIDE DEF x, y, vm, wm
  <2> QED
    BY <1>2, <2>1, <2>3, <2>4, <2>5, SlicesAgree
<1> QED
  BY <1>3, <1>4 DEF Holds

\* One part after the other.
LEMMA BehindTwice ==
    ASSUME NEW v, IsView(v), NEW n \in Nat, NEW w, Consumed(v, w, n), NEW k \in Nat, NEW u, Consumed(w, u, k)
    PROVE  Consumed(v, u, n + k)
<1> DEFINE vm == v.mem
           wm == w.mem
           um == u.mem
           a == v.at
           z == Len(vm)
<1>1. /\ IsView(w) /\ n <= v.size /\ w.at = a + n /\ w.size = v.size - n /\ Len(wm) = z
      /\ \A i \in 1..z : i \notin (a + 1)..(a + n) => wm[i] = vm[i]
  BY DEF Consumed
<1>2. /\ IsView(u) /\ k <= w.size /\ u.at = w.at + k /\ u.size = w.size - k /\ Len(um) = Len(wm)
      /\ \A i \in 1..Len(wm) : i \notin (w.at + 1)..(w.at + k) => um[i] = wm[i]
  BY DEF Consumed
<1>3. a \in Nat /\ v.size \in Nat /\ z \in Nat
  BY ViewFacts
<1> HIDE DEF vm, wm, um, a, z
<1>4. n + k <= v.size /\ u.at = a + (n + k) /\ u.size = v.size - (n + k) /\ Len(um) = z
  BY <1>1, <1>2, <1>3
<1>5. ASSUME NEW i \in 1..z, i \notin (a + 1)..(a + (n + k))
      PROVE  um[i] = vm[i]
  <2>1. i \notin (a + 1)..(a + n) /\ i \notin (w.at + 1)..(w.at + k)
    BY <1>1, <1>3, <1>5
  <2> QED
    BY <1>1, <1>2, <2>1
<1> QED
  BY <1>2, <1>4, <1>5 DEF Consumed, vm, um, a, z

-----------------------------------------------------------------------------
(* Numbers that are found *)

LEMMA NumberHeld ==
    ASSUME NEW v, NEW off \in Nat, NEW n \in Int, NEW width \in Nat \ {0}, Holds(v, off, Encoded(n, width))
    PROVE  /\ Number(v, off, width) = Decoded(Encoded(n, width))
           /\ InWidth(n, width) => Number(v, off, width) = n
           /\ IsSize(n, width) => Size(v, off, width) = n
           /\ off + width <= v.size
<1>1. Len(Encoded(n, width)) = width
  BY EncodedType
<1>2. Bytes(v, off, width) = Encoded(n, width) /\ off + width <= v.size
  BY <1>1 DEF Holds
<1> QED
  BY <1>2, DecodedEncoded, DecodedSizeEncoded DEF Number, Size

LEMMA GeneralRead ==
    ASSUME NEW v, IsView(v), NEW off \in Nat, NEW n \in Int, NEW width \in Nat \ {0}, Holds(v, off, Encoded(n, width))
    PROVE  /\ FrontGeneral(v, off, width) = Seen(off + width, <<Decoded(Encoded(n, width))>>)
           /\ off = 0 => ExtractGeneral(v, width) = Read(Advance(v, width), <<Decoded(Encoded(n, width))>>)
           /\ InWidth(n, width) => Decoded(Encoded(n, width)) = n
<1>1. Number(v, off, width) = Decoded(Encoded(n, width)) /\ off + width <= v.size /\ v.size \in Nat
  BY NumberHeld, ViewFacts
<1>2. FrontGeneral(v, off, width) = Seen(off + width, <<Decoded(Encoded(n, width))>>)
  <2>1. ~(off + width > v.size)
    BY <1>1
  <2> QED
    BY <1>1, <2>1 DEF FrontGeneral
<1>3. ASSUME off = 0
      PROVE  ExtractGeneral(v, width) = Read(Advance(v, width), <<Decoded(Encoded(n, width))>>)
  <2>1. ~(v.size < width) /\ Number(v, 0, width) = Decoded(Encoded(n, width))
    BY <1>1, <1>3
  <2> QED
    BY <2>1 DEF ExtractGeneral
<1> QED
  BY <1>2, <1>3, DecodedEncoded

===============================================================================
