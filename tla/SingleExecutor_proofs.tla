------------------------ MODULE SingleExecutor_proofs ------------------------
(***************************************************************************)
(* Proofs about executor::single and the heap it keeps.                    *)
(*                                                                         *)
(* TimerHeap, for heaps of any size: every operation keeps each other      *)
(* entry, once; push and pop keep any heap in order, and so does cancel in *)
(* a heap of at most six entries; then the heap is a timer queue.          *)
(*                                                                         *)
(* SingleExecutor, for any number of executables, any ticks they are due   *)
(* at and any length of time: type correctness, and the inductive          *)
(* invariant IInv from which ExecutedRightly and SleepsForTheTop follow.   *)
(* What it does with its heap a timer queue allows, so that this is all it *)
(* needs of the heap.                                                      *)
(***************************************************************************)
EXTENDS TimerHeap, SingleExecutor, SequenceTheorems, WellFoundedInduction, TLAPS

-----------------------------------------------------------------------------
(* Induction over the natural numbers, stated of a set instead of an         *)
(* operator: a set of natural numbers that is not empty has a least element, *)
(* since < is well-founded on them.                                          *)

LEMMA LessIsWellFounded ==
    \E R : IsWellFoundedOn(R, Nat) /\ \A x, y \in Nat : y < x => <<y, x>> \in R
<1> DEFINE R == OpToRel(<, Nat)
<1>1. IsWellFoundedOn(R, Nat)
  BY NatLessThanWellFounded
<1>2. \A x, y \in Nat : y < x => <<y, x>> \in R
  BY DEF OpToRel
<1> HIDE DEF R
<1> QED
  BY ONLY <1>1, <1>2, Zenon

LEMMA LeastNatural ==
    ASSUME NEW S, S \subseteq Nat, S # {}
    PROVE  \E n \in S : \A k \in S : n <= k
<1>1. PICK R : IsWellFoundedOn(R, Nat) /\ \A x, y \in Nat : y < x => <<y, x>> \in R
  BY LessIsWellFounded
<1>2. PICK n \in S : \A k \in S : ~(<<k, n>> \in R)
  BY <1>1, WFMin
<1>3. \A k \in S : ~(k < n)
  BY <1>1, <1>2, Zenon
<1>4. \A k \in S : k \in Nat /\ n \in Nat
  OBVIOUS
<1>5. \A k \in S : n <= k
  BY ONLY <1>3, <1>4
<1> QED
  BY <1>5, Zenon

LEMMA NaturalInduction ==
    ASSUME NEW S, 0 \in S, \A n \in Nat : n \in S => n + 1 \in S
    PROVE  \A n \in Nat : n \in S
<1> SUFFICES ASSUME Nat \ S # {} PROVE FALSE
  OBVIOUS
<1>1. PICK n \in Nat \ S : \A k \in Nat \ S : n <= k
  BY LeastNatural
<1>2. n - 1 \in Nat
  OBVIOUS
<1>3. n - 1 \in S
  BY <1>1, <1>2
<1> QED
  BY <1>2, <1>3

LEMMA CompleteInduction ==
    ASSUME NEW S, \A n \in Nat : (\A k \in 0..(n - 1) : k \in S) => n \in S
    PROVE  \A n \in Nat : n \in S
<1> SUFFICES ASSUME Nat \ S # {} PROVE FALSE
  OBVIOUS
<1>1. PICK n \in Nat \ S : \A k \in Nat \ S : n <= k
  BY LeastNatural
<1>2. \A k \in 0..(n - 1) : k \in S
  BY <1>1
<1> QED
  BY <1>2

-----------------------------------------------------------------------------
(* Entries that move along a path *)

\* Every position on q is one of h's, and is there once.
IsPath(h, q) ==
    /\ q \in Seq(1..Len(h))
    /\ q # <<>>
    /\ \A k, l \in 1..Len(q) : q[k] = q[l] => k = l

OffPath(q, p) == \A k \in 1..Len(q) : q[k] # p

\* What came to each position when entries moved along q and x took the end.
IsShifted(g, h, q, x) ==
    /\ g \in Seq(Entry) /\ Len(g) = Len(h)
    /\ \A p \in 1..Len(h) : OffPath(q, p) => g[p] = h[p]
    /\ \A k \in 1..(Len(q) - 1) : g[q[k]] = h[q[k + 1]]
    /\ g[q[Len(q)]] = x

LEMMA ShiftedIs ==
    ASSUME NEW h \in Seq(Entry), NEW x \in Entry, NEW start, NEW holes,
           IsPath(h, <<start>> \o holes)
    PROVE  IsShifted(Shifted(h, start, holes, x), h, <<start>> \o holes, x)
<1> SUFFICES ASSUME NEW q, q = <<start>> \o holes, IsPath(h, q),
                    NEW g, g = Shifted(h, start, holes, x)
             PROVE  IsShifted(g, h, q, x)
  OBVIOUS
<1> DEFINE n == Len(q)
           shifted == [i \in 1..(n - 1) |-> h[q[i + 1]]]
           moved == shifted \o <<x>>
           On(p) == {i \in 1..n : q[i] = p}
<1>1. g = [p \in 1..Len(h) |->
              IF On(p) = {} THEN h[p] ELSE moved[CHOOSE i \in On(p) : TRUE]]
  BY DEF Shifted
<1>2. /\ n \in Nat \ {0} /\ Len(h) \in Nat
      /\ \A k \in 1..n : q[k] \in 1..Len(h)
  BY DEF IsPath
<1>13. \A p \in 1..Len(h) : h[p] \in Entry
  OBVIOUS
<1>3. /\ shifted \in Seq(Entry) /\ Len(shifted) = n - 1
      /\ \A i \in 1..(n - 1) : shifted[i] = h[q[i + 1]]
  <2>1. \A i \in 1..(n - 1) : h[q[i + 1]] \in Entry
    BY <1>2
  <2> QED
    BY <1>2, <2>1
<1> HIDE DEF shifted, n
<1>4. /\ moved \in Seq(Entry)
      /\ \A i \in 1..(n - 1) : moved[i] = h[q[i + 1]]
      /\ moved[n] = x
  <2>1. Len(moved) = n /\ moved \in Seq(Entry)
    BY <1>2, <1>3
  <2>2. \A i \in 1..(n - 1) : moved[i] = shifted[i]
    BY <1>2, <1>3
  <2>3. moved[n] = x
    <3>1. <<x>> \in Seq(Entry) /\ <<x>>[1] = x
      OBVIOUS
    <3>2. n > Len(shifted) /\ n - Len(shifted) = 1 /\ n \in 1..(Len(shifted) + 1)
      BY <1>2, <1>3
    <3>3. Len(<<x>>) = 1
      OBVIOUS
    <3>4. \A i \in 1..(Len(shifted) + Len(<<x>>)) :
              moved[i] = IF i <= Len(shifted) THEN shifted[i] ELSE <<x>>[i - Len(shifted)]
      BY <1>3, <3>1, ConcatProperties, Zenon
    <3>5. ~(n <= Len(shifted))
      BY <1>2, <1>3
    <3> QED
      BY <3>1, <3>2, <3>3, <3>4, <3>5, Zenon
  <2> QED
    BY <1>3, <2>1, <2>2, <2>3
<1> HIDE DEF moved
<1>11. \A k \in 1..n : moved[k] \in Entry
  <2> SUFFICES ASSUME NEW k \in 1..n PROVE moved[k] \in Entry
    OBVIOUS
  <2>1. CASE k = n
    BY <1>4, <2>1
  <2>2. CASE k # n
    <3>1. k \in 1..(n - 1) /\ k + 1 \in 1..n
      BY <1>2, <2>2
    <3>2. q[k + 1] \in 1..Len(h)
      BY <1>2, <3>1
    <3>3. h[q[k + 1]] \in Entry
      BY <1>13, <3>2, Zenon
    <3> QED
      BY <1>4, <3>1, <3>3
  <2> QED
    BY <2>1, <2>2
<1>5. ASSUME NEW k \in 1..n
      PROVE  g[q[k]] = moved[k]
  <2>1. On(q[k]) = {k}
    BY <1>2 DEF IsPath, n
  <2> QED
    BY <1>1, <1>2, <2>1
<1>6. ASSUME NEW p \in 1..Len(h), OffPath(q, p)
      PROVE  g[p] = h[p]
  BY <1>1, <1>6 DEF OffPath, n
<1>12. DOMAIN g = 1..Len(h) /\ g = [p \in DOMAIN g |-> g[p]]
  BY <1>1
<1>7. ASSUME NEW p \in 1..Len(h)
      PROVE  g[p] \in Entry
  <2>1. CASE OffPath(q, p)
    BY <1>6, <2>1
  <2>2. CASE ~OffPath(q, p)
    <3>1. PICK k \in 1..n : q[k] = p
      BY <2>2 DEF OffPath, n
    <3> QED
      BY <1>5, <1>11, <3>1
  <2> QED
    BY <2>1, <2>2
<1>8. g \in Seq(Entry) /\ Len(g) = Len(h)
  <2>1. g = [p \in 1..Len(h) |-> g[p]]
    BY <1>12
  <2>2. g \in [1..Len(h) -> Entry]
    BY <1>7, <2>1
  <2>3. g \in Seq(Entry)
    BY <1>2, <2>2, SeqDef, Zenon
  <2> QED
    BY <1>2, <1>12, <2>3, LenProperties
<1>9. \A k \in 1..(n - 1) : g[q[k]] = h[q[k + 1]]
  <2>1. \A k \in 1..(n - 1) : k \in 1..n
    BY <1>2
  <2> QED
    BY <1>4, <1>5, <2>1
<1>10. g[q[n]] = x
  <2>1. n \in 1..n
    BY <1>2
  <2> QED
    BY <1>4, <1>5, <2>1
<1> QED
  BY <1>6, <1>8, <1>9, <1>10 DEF n, IsShifted

Entries(h) == {h[i] : i \in 1..Len(h)}
OtherEntries(h, start) == {h[i] : i \in (1..Len(h)) \ {start}}
OnePerTimer(h) == \A i, j \in 1..Len(h) : h[i].id = h[j].id => i = j

\* The entry at the start of the path is replaced by x; nothing else is lost
\* and nothing is there twice.
LEMMA ShiftedKeeps ==
    ASSUME NEW h \in Seq(Entry), NEW x \in Entry, NEW start, NEW holes,
           IsPath(h, <<start>> \o holes)
    PROVE  LET g == Shifted(h, start, holes, x) IN
           /\ g \in Seq(Entry) /\ Len(g) = Len(h)
           /\ Entries(g) = OtherEntries(h, start) \cup {x}
           /\ /\ OnePerTimer(h)
              /\ \A i \in (1..Len(h)) \ {start} : h[i].id # x.id
              => OnePerTimer(g)
<1> DEFINE q == <<start>> \o holes
           g == Shifted(h, start, holes, x)
           n == Len(q)
<1>8. q = <<start>> \o holes /\ n = Len(q) /\ IsPath(h, q) /\ IsShifted(g, h, q, x)
  BY ShiftedIs
<1> HIDE DEF q, g, n
<1>1. /\ g \in Seq(Entry) /\ Len(g) = Len(h)
      /\ \A p \in 1..Len(h) : OffPath(q, p) => g[p] = h[p]
      /\ \A k \in 1..(n - 1) : g[q[k]] = h[q[k + 1]]
      /\ g[q[n]] = x
  BY <1>8 DEF IsShifted
<1>2. /\ n \in Nat \ {0} /\ Len(h) \in Nat
      /\ \A k \in 1..n : q[k] \in 1..Len(h)
      /\ \A k, l \in 1..n : q[k] = q[l] => k = l
  BY <1>8 DEF IsPath
<1>3. q[1] = start
  <2>1. q \in Seq(1..Len(h)) /\ q # <<>>
    BY <1>8 DEF IsPath
  <2> QED
    BY <2>1 DEF q
\* Where the entry at p comes from.
<1> DEFINE From(p, s) ==
        \/ s = p /\ OffPath(q, p) /\ g[p] = h[p]
        \/ \E k \in 1..(n - 1) : p = q[k] /\ s = q[k + 1] /\ g[p] = h[s]
<1>4. ASSUME NEW p \in 1..Len(h), p # q[n]
      PROVE  \E s \in (1..Len(h)) \ {start} : From(p, s)
  <2>1. CASE OffPath(q, p)
    <3>1. p # start
      BY <1>2, <1>3, <2>1 DEF OffPath, n
    <3> QED
      BY <1>1, <2>1, <3>1
  <2>2. CASE ~OffPath(q, p)
    <3>1. PICK k \in 1..n : q[k] = p
      BY <2>2 DEF OffPath, n
    <3>2. k \in 1..(n - 1) /\ k + 1 \in 1..n /\ k + 1 # 1 /\ 1 \in 1..n
      BY <1>2, <1>4, <3>1
    <3>3. q[k + 1] \in (1..Len(h)) \ {start}
      BY <1>2, <1>3, <3>2
    <3> QED
      BY <1>1, <3>1, <3>2, <3>3
  <2> QED
    BY <2>1, <2>2
<1>5. ASSUME NEW s \in (1..Len(h)) \ {start}
      PROVE  \E p \in 1..Len(h) : g[p] = h[s]
  <2>1. CASE OffPath(q, s)
    BY <1>1, <2>1
  <2>2. CASE ~OffPath(q, s)
    <3>1. PICK k \in 1..n : q[k] = s
      BY <2>2 DEF OffPath, n
    <3>2. k # 1 /\ k - 1 \in 1..(n - 1) /\ (k - 1) + 1 = k /\ k - 1 \in 1..n
      BY <1>2, <1>3, <1>5, <3>1
    <3>3. g[q[k - 1]] = h[q[k]]
      BY <1>1, <3>2
    <3> QED
      BY <1>2, <3>1, <3>2, <3>3
  <2> QED
    BY <2>1, <2>2
<1>6. Entries(g) = OtherEntries(h, start) \cup {x}
  <2>1. ASSUME NEW p \in 1..Len(g)
        PROVE  g[p] \in OtherEntries(h, start) \cup {x}
    <3>1. CASE p = q[n]
      BY <1>1, <3>1
    <3>2. CASE p # q[n]
      <4>1. PICK s \in (1..Len(h)) \ {start} : From(p, s)
        BY <1>1, <1>4, <3>2
      <4>2. g[p] = h[s]
        BY <4>1
      <4> QED
        BY <4>2 DEF OtherEntries
    <3> QED
      BY <3>1, <3>2
  <2>2. x \in Entries(g)
    <3>1. q[n] \in 1..Len(g)
      BY <1>1, <1>2
    <3> QED
      BY <1>1, <3>1 DEF Entries
  <2>3. OtherEntries(h, start) \subseteq Entries(g)
    BY <1>1, <1>5 DEF OtherEntries, Entries
  <2> QED
    BY <2>1, <2>2, <2>3 DEF Entries
<1>7. ASSUME OnePerTimer(h), \A i \in (1..Len(h)) \ {start} : h[i].id # x.id
      PROVE  OnePerTimer(g)
  <2> SUFFICES ASSUME NEW i \in 1..Len(h), NEW j \in 1..Len(h), g[i].id = g[j].id
               PROVE  i = j
    BY <1>1 DEF OnePerTimer
  <2>1. CASE i = q[n] /\ j = q[n]
    BY <2>1
  <2>2. CASE i = q[n] /\ j # q[n]
    <3>1. PICK s \in (1..Len(h)) \ {start} : From(j, s)
      BY <1>4, <2>2
    <3> QED
      BY <1>1, <1>7, <2>2, <3>1
  <2>3. CASE i # q[n] /\ j = q[n]
    <3>1. PICK s \in (1..Len(h)) \ {start} : From(i, s)
      BY <1>4, <2>3
    <3> QED
      BY <1>1, <1>7, <2>3, <3>1
  <2>4. CASE i # q[n] /\ j # q[n]
    <3>1. PICK s \in (1..Len(h)) \ {start} : From(i, s)
      BY <1>4, <2>4
    <3>2. PICK t \in (1..Len(h)) \ {start} : From(j, t)
      BY <1>4, <2>4
    <3>3. g[i] = h[s] /\ g[j] = h[t]
      BY <3>1, <3>2
    <3>4. s = t
      BY <1>7, <3>3 DEF OnePerTimer
    <3>5. CASE s = i /\ OffPath(q, i)
      <4>1. \A k \in 1..(n - 1) : k + 1 \in 1..n
        BY <1>2
      <4> QED
        BY <3>2, <3>4, <3>5, <4>1 DEF OffPath, n
    <3>6. CASE t = j /\ OffPath(q, j)
      <4>1. \A k \in 1..(n - 1) : k + 1 \in 1..n
        BY <1>2
      <4> QED
        BY <3>1, <3>4, <3>6, <4>1 DEF OffPath, n
    <3>7. ASSUME NEW k \in 1..(n - 1), i = q[k], s = q[k + 1],
                 NEW l \in 1..(n - 1), j = q[l], t = q[l + 1]
          PROVE  i = j
      <4>1. k + 1 \in 1..n /\ l + 1 \in 1..n
        BY <1>2
      <4>2. k + 1 = l + 1
        BY <1>2, <3>4, <3>7, <4>1
      <4> QED
        BY <3>7, <4>2
    <3> QED
      BY <3>1, <3>2, <3>5, <3>6, <3>7
  <2> QED
    BY <2>1, <2>2, <2>3, <2>4
<1> QED
  BY <1>1, <1>6, <1>7 DEF g

-----------------------------------------------------------------------------
(* The path up *)

\* One step of the recursion in HolesUp.
UpStep(h, x, f, p) ==
    IF p = 1 THEN <<>>
    ELSE IF h[p \div 2].tick <= x.tick THEN <<>>
    ELSE <<p \div 2>> \o f[p \div 2]

LEMMA TickIsInt ==
    ASSUME NEW e \in Entry
    PROVE  e.tick \in Nat /\ e.tick \in Int
<1>1. e.tick \in Ticks
  BY DEF Entry
<1>2. e.tick \in Nat
  BY <1>1, TicksAssumption
<1>3. \A t \in Nat : t \in Int
  OBVIOUS
<1> QED
  BY <1>2, <1>3, Zenon

LEMMA ParentIsBefore ==
    ASSUME NEW p \in Nat, p # 0, p # 1
    PROVE  p \div 2 \in 1..(p - 1)
OBVIOUS

\* f is what HolesUp computes from n.
UpComputed(f, h, x, n) ==
    /\ f \in [1..n -> Seq(Nat)]
    /\ \A p \in 1..n : f[p] = UpStep(h, x, f, p)
    /\ HolesUp(h, x, n) = f[n]

LEMMA HolesUpUnfolds ==
    ASSUME NEW h, NEW x, NEW n \in Nat \ {0}
    PROVE  \E f : UpComputed(f, h, x, n)
<1> DEFINE Computed(f, m) == \A p \in 1..m : f[p] = UpStep(h, x, f, p)
           S == {m \in Nat : \E f \in [1..m -> Seq(Nat)] : Computed(f, m)}
<1>1. 0 \in S
  <2>1. [p \in 1..0 |-> <<>>] \in [1..0 -> Seq(Nat)]
    OBVIOUS
  <2>2. \A p \in 1..0 : FALSE
    OBVIOUS
  <2> QED
    BY <2>1, <2>2
<1>2. ASSUME NEW m \in Nat, m \in S
      PROVE  m + 1 \in S
  <2>1. PICK f \in [1..m -> Seq(Nat)] : Computed(f, m)
    BY <1>2
  <2> DEFINE next == UpStep(h, x, f, m + 1)
             g == [p \in 1..(m + 1) |-> IF p = m + 1 THEN next ELSE f[p]]
  <2>2. m + 1 = 1 \/ (m + 1) \div 2 \in 1..m
    OBVIOUS
  <2>3. next \in Seq(Nat)
    <3>1. CASE m + 1 = 1
      BY <3>1 DEF UpStep
    <3>2. CASE m + 1 # 1
      <4>1. (m + 1) \div 2 \in 1..m /\ (m + 1) \div 2 \in Nat
        BY <2>2, <3>2
      <4>2. f[(m + 1) \div 2] \in Seq(Nat) /\ <<(m + 1) \div 2>> \in Seq(Nat)
        BY <4>1
      <4>3. <<(m + 1) \div 2>> \o f[(m + 1) \div 2] \in Seq(Nat)
        BY <4>2, ConcatProperties, Zenon
      <4> QED
        BY <4>3 DEF UpStep
    <3> QED
      BY <3>1, <3>2
  <2> HIDE DEF next
  <2>4. g \in [1..(m + 1) -> Seq(Nat)]
    BY <2>3
  <2>5. \A p \in 1..m : g[p] = f[p]
    OBVIOUS
  <2>6. ASSUME NEW p \in 1..(m + 1)
        PROVE  UpStep(h, x, g, p) = UpStep(h, x, f, p)
    <3>1. CASE p = 1
      BY <3>1 DEF UpStep
    <3>2. CASE p # 1
      <4>1. p \div 2 \in 1..m
        BY <3>2
      <4> QED
        BY <2>5, <4>1 DEF UpStep
    <3> QED
      BY <3>1, <3>2
  <2>7. ASSUME NEW p \in 1..(m + 1)
        PROVE  g[p] = UpStep(h, x, g, p)
    <3>1. CASE p = m + 1
      <4>1. g[p] = next
        BY <3>1
      <4> QED
        BY <2>6, <3>1, <4>1 DEF next
    <3>2. CASE p # m + 1
      <4>1. p \in 1..m
        BY <3>2
      <4> QED
        BY <2>1, <2>5, <2>6, <4>1, Zenon
    <3> QED
      BY <3>1, <3>2
  <2> HIDE DEF g
  <2>8. Computed(g, m + 1)
    BY <2>7
  <2> HIDE DEF Computed
  <2>9. m + 1 \in Nat
    OBVIOUS
  <2> QED
    BY <2>4, <2>8, <2>9
<1> HIDE DEF S
<1>3. n \in S
  BY <1>1, <1>2, NaturalInduction
<1>4. PICK g \in [1..n -> Seq(Nat)] : Computed(g, n)
  BY <1>3 DEF S
<1> DEFINE F(f) == [p \in 1..n |-> IF p = 1 THEN <<>>
                                   ELSE IF h[p \div 2].tick <= x.tick THEN <<>>
                                   ELSE <<p \div 2>> \o f[p \div 2]]
           f == CHOOSE f : f = F(f)
<1>5. g = F(g)
  <2>1. \A p \in 1..n : g[p] = F(g)[p]
    BY <1>4 DEF UpStep
  <2> HIDE DEF F
  <2>2. F(g) = [p \in 1..n |-> F(g)[p]]
    BY DEF F
  <2> QED
    BY <2>1, <2>2
<1>6. f = F(f)
  BY <1>5
<1>7. HolesUp(h, x, n) = f[n]
  BY DEF HolesUp
<1> HIDE DEF f
<1>8. \A p \in 1..n : f[p] = UpStep(h, x, f, p)
  BY <1>6 DEF UpStep
<1> HIDE DEF F
<1> DEFINE T == {p \in Nat : p \in 1..n => f[p] = g[p]}
<1>9. ASSUME NEW p \in Nat, \A k \in 0..(p - 1) : k \in T
      PROVE  p \in T
  <2> SUFFICES ASSUME p \in 1..n PROVE f[p] = g[p]
    OBVIOUS
  <2>1. CASE p = 1
    BY <1>4, <1>8, <2>1 DEF UpStep
  <2>2. CASE p # 1
    <3>1. p \div 2 \in 1..(p - 1) /\ p \div 2 \in 1..n /\ p \div 2 \in 0..(p - 1)
      BY <2>2
    <3>2. f[p \div 2] = g[p \div 2]
      BY <1>9, <3>1
    <3>3. f[p] = UpStep(h, x, f, p) /\ g[p] = UpStep(h, x, g, p)
      BY <1>4, <1>8
    <3> QED
      BY <3>2, <3>3 DEF UpStep
  <2> QED
    BY <2>1, <2>2
<1> HIDE DEF T
<1>10. \A p \in Nat : p \in T
  BY <1>9, CompleteInduction
<1>11. \A p \in 1..n : f[p] = g[p]
  BY <1>10 DEF T
<1>12. f \in [1..n -> Seq(Nat)]
  <2>1. f = [p \in 1..n |-> f[p]]
    BY <1>6 DEF F
  <2> QED
    BY <1>11, <2>1
<1> QED
  BY <1>7, <1>8, <1>12 DEF UpComputed

\* A sequence with one more entry in front.
LEMMA Prepended ==
    ASSUME NEW V, NEW r \in Seq(V), NEW p \in V, NEW q, q = <<p>> \o r
    PROVE  /\ q \in Seq(V) /\ q # <<>> /\ Len(q) = Len(r) + 1 /\ Len(r) \in Nat
           /\ q[1] = p
           /\ \A k \in 1..Len(r) : q[k + 1] = r[k]
           /\ \A k \in 2..Len(q) : k - 1 \in 1..Len(r) /\ q[k] = r[k - 1]
<1>1. <<p>> \in Seq(V) /\ Len(<<p>>) = 1 /\ <<p>>[1] = p /\ Len(r) \in Nat
  OBVIOUS
<1>2. /\ q \in Seq(V) /\ Len(q) = 1 + Len(r)
      /\ \A i \in 1..(1 + Len(r)) : q[i] = IF i <= 1 THEN <<p>>[i] ELSE r[i - 1]
  BY <1>1, ConcatProperties
<1>3. q[1] = p
  BY <1>1, <1>2
<1>4. ASSUME NEW k \in 1..Len(r)
      PROVE  q[k + 1] = r[k]
  <2>1. k + 1 \in 1..(1 + Len(r)) /\ ~(k + 1 <= 1) /\ (k + 1) - 1 = k
    BY <1>1
  <2> QED
    BY <1>2, <2>1
<1>5. q # <<>>
  BY <1>1, <1>2
<1>6. ASSUME NEW k \in 2..Len(q)
      PROVE  k - 1 \in 1..Len(r) /\ q[k] = r[k - 1]
  <2>1. k \in 1..(1 + Len(r)) /\ ~(k <= 1) /\ k - 1 \in 1..Len(r)
    BY <1>1, <1>2
  <2> QED
    BY <1>2, <2>1
<1> QED
  BY <1>1, <1>2, <1>3, <1>4, <1>5, <1>6

\* From p towards the top, over entries later than x, until the parent is not.
UpPath(h, x, p, q) ==
    /\ q \in Seq(1..p) /\ q # <<>> /\ q[1] = p
    /\ \A k \in 1..(Len(q) - 1) :
          q[k] # 1 /\ q[k + 1] = q[k] \div 2 /\ h[q[k + 1]].tick > x.tick
    /\ \A k, l \in 1..Len(q) : k < l => q[l] < q[k]
    /\ q[Len(q)] = 1 \/ h[q[Len(q)] \div 2].tick <= x.tick

LEMMA HolesUpIsUpPath ==
    ASSUME NEW h \in Seq(Entry), NEW x \in Entry, NEW n \in 1..Len(h)
    PROVE  UpPath(h, x, n, <<n>> \o HolesUp(h, x, n))
<1>1. PICK f \in [1..n -> Seq(Nat)] :
          /\ \A p \in 1..n : f[p] = UpStep(h, x, f, p)
          /\ HolesUp(h, x, n) = f[n]
  <2>1. n \in Nat \ {0}
    OBVIOUS
  <2>2. \E f : UpComputed(f, h, x, n)
    BY <2>1, HolesUpUnfolds, Zenon
  <2> QED
    BY <2>2, Zenon DEF UpComputed
<1>2. \A p \in 1..n : h[p].tick \in Int
  <2>1. \A p \in 1..n : h[p] \in Entry
    OBVIOUS
  <2> QED
    BY <2>1, TickIsInt, Zenon
<1>3. x.tick \in Int
  BY TickIsInt
<1> DEFINE S == {p \in Nat : p \in 1..n => UpPath(h, x, p, <<p>> \o f[p])}
<1>4. ASSUME NEW p \in Nat, \A k \in 0..(p - 1) : k \in S
      PROVE  p \in S
  <2> SUFFICES ASSUME p \in 1..n PROVE UpPath(h, x, p, <<p>> \o f[p])
    OBVIOUS
  <2>1. CASE f[p] = <<>> /\ (p = 1 \/ h[p \div 2].tick <= x.tick)
    <3>1. <<p>> \o f[p] = <<p>> /\ <<p>> \in Seq(1..p)
      BY <2>1
    <3> QED
      BY <2>1, <3>1 DEF UpPath
  <2>2. CASE p # 1 /\ ~(h[p \div 2].tick <= x.tick) /\ f[p] = <<p \div 2>> \o f[p \div 2]
    <3> DEFINE m == p \div 2
    <3>1. m \in 1..(p - 1) /\ m \in 1..n /\ m \in 0..(p - 1)
      BY <2>2
    <3>2. PICK r : r = f[p] /\ UpPath(h, x, m, r)
      <4>1. UpPath(h, x, m, <<m>> \o f[m])
        BY <1>4, <3>1
      <4> QED
        BY <2>2, <4>1
    <3>3. h[m].tick > x.tick
      BY <1>2, <1>3, <2>2, <3>1
    <3>4. PICK q : q = <<p>> \o r
      OBVIOUS
    <3>5. /\ r \in Seq(1..m) /\ r # <<>> /\ r[1] = m
          /\ \A k \in 1..(Len(r) - 1) :
                r[k] # 1 /\ r[k + 1] = r[k] \div 2 /\ h[r[k + 1]].tick > x.tick
          /\ \A k, l \in 1..Len(r) : k < l => r[l] < r[k]
          /\ r[Len(r)] = 1 \/ h[r[Len(r)] \div 2].tick <= x.tick
      BY <3>2 DEF UpPath
    <3>6. p \in 1..p /\ r \in Seq(1..p)
      BY <3>1, <3>5
    <3>7. /\ q \in Seq(1..p) /\ q # <<>> /\ Len(q) = Len(r) + 1 /\ Len(r) \in Nat
          /\ q[1] = p
          /\ \A k \in 2..Len(q) : k - 1 \in 1..Len(r) /\ q[k] = r[k - 1]
      BY <3>4, <3>6, Prepended
    <3> HIDE DEF m
    <3>8. Len(r) # 0
      BY <3>5
    <3>9. ASSUME NEW k \in 1..(Len(q) - 1)
          PROVE  q[k] # 1 /\ q[k + 1] = q[k] \div 2 /\ h[q[k + 1]].tick > x.tick
      <4>1. k + 1 \in 2..Len(q) /\ (k + 1) - 1 = k
        BY <3>7
      <4>2. q[k + 1] = r[k]
        BY <3>7, <4>1
      <4>3. CASE k = 1
        <5>1. q[k] = p /\ q[k + 1] = m
          BY <3>5, <3>7, <4>2, <4>3
        <5> QED
          BY <2>2, <3>3, <5>1 DEF m
      <4>4. CASE k # 1
        <5>1. k - 1 \in 1..(Len(r) - 1) /\ k \in 2..Len(q) /\ (k - 1) + 1 = k
          BY <3>7, <4>4
        <5>2. q[k] = r[k - 1]
          BY <3>7, <5>1
        <5>3. r[k - 1] # 1 /\ r[k] = r[k - 1] \div 2 /\ h[r[k]].tick > x.tick
          BY <3>5, <5>1
        <5> QED
          BY <4>2, <5>2, <5>3
      <4> QED
        BY <4>3, <4>4
    <3>10. ASSUME NEW k \in 1..Len(q), NEW l \in 1..Len(q), k < l
           PROVE  q[l] < q[k]
      <4>1. l \in 2..Len(q)
        BY <3>7, <3>10
      <4>5. l - 1 \in 1..Len(r) /\ q[l] = r[l - 1]
        BY <3>7, <4>1, Zenon
      <4>6. \A i \in 1..Len(r) : r[i] \in 1..m
        BY <3>5, ElementOfSeq, Zenon
      <4>2. q[l] = r[l - 1] /\ r[l - 1] \in 1..m
        BY <4>5, <4>6, Zenon
      <4>3. CASE k = 1
        BY <3>1, <3>7, <4>2, <4>3
      <4>4. CASE k # 1
        <5>1. k \in 2..Len(q) /\ k - 1 < l - 1
          BY <3>7, <3>10, <4>4
        <5>2. k - 1 \in 1..Len(r) /\ q[k] = r[k - 1]
          BY <3>7, <5>1, Zenon
        <5> QED
          BY <3>5, <4>5, <5>1, <5>2
      <4> QED
        BY <4>3, <4>4
    <3>11. q[Len(q)] = r[Len(r)]
      <4>1. Len(q) \in 2..Len(q) /\ Len(q) - 1 = Len(r)
        BY <3>7, <3>8
      <4> QED
        BY <3>7, <4>1
    <3>12. UpPath(h, x, p, q)
      BY <3>5, <3>7, <3>9, <3>10, <3>11 DEF UpPath
    <3> QED
      BY <3>2, <3>4, <3>12
  <2> QED
    BY <1>1, <2>1, <2>2 DEF UpStep
<1> HIDE DEF S
<1>5. \A p \in Nat : p \in S
  BY <1>4, CompleteInduction
<1> QED
  BY <1>1, <1>5 DEF S

LEMMA UpPathIsPath ==
    ASSUME NEW h \in Seq(Entry), NEW x \in Entry, NEW n \in 1..Len(h), NEW q,
           UpPath(h, x, n, q)
    PROVE  IsPath(h, q)
<1>1. /\ q \in Seq(1..n) /\ q # <<>> /\ Len(q) \in Nat
      /\ \A k, l \in 1..Len(q) : k < l => q[l] < q[k]
  BY DEF UpPath
<1>2. q \in Seq(1..Len(h))
  BY <1>1
<1>3. \A k \in 1..Len(q) : q[k] \in Int
  BY <1>1
<1>4. \A k, l \in 1..Len(q) : q[k] = q[l] => k = l
  BY <1>1, <1>3
<1> QED
  BY <1>1, <1>2, <1>4 DEF IsPath
-----------------------------------------------------------------------------
(* The path down *)

NextPair(h, p, cancelling) ==
    IF cancelling THEN BelowCancelled(p, SmallerChild(h, p))
    ELSE BelowPopped(p, SmallerChild(h, p))

\* One step of the recursion in Holes.
DownStep(h, x, f, p, cancelling) ==
    IF p > Len(h) THEN <<>>
    ELSE IF x.tick <= h[SmallerChild(h, p)].tick THEN <<>>
    ELSE <<SmallerChild(h, p)>> \o f[NextPair(h, p, cancelling)]

\* f is what Holes computes from the pair at p.
DownComputed(f, h, x, p, cancelling) ==
    /\ \A i \in Nat \ {0} : f[i] = DownStep(h, x, f, i, cancelling)
    /\ Holes(h, x, p, cancelling) = f[p]

LEMMA SmallerChildIs ==
    ASSUME NEW h \in Seq(Entry), NEW p \in 1..Len(h)
    PROVE  /\ SmallerChild(h, p) \in {p, p + 1}
           /\ SmallerChild(h, p) \in 1..Len(h)
           /\ h[SmallerChild(h, p)].tick <= h[p].tick
           /\ p + 1 <= Len(h) => h[SmallerChild(h, p)].tick <= h[p + 1].tick
<1>1. \A i \in 1..Len(h) : h[i].tick \in Int
  <2>1. \A i \in 1..Len(h) : h[i] \in Entry
    OBVIOUS
  <2> QED
    BY <2>1, TickIsInt, Zenon
<1>2. CASE p < Len(h) /\ h[p].tick > h[p + 1].tick
  <2>1. p + 1 \in 1..Len(h)
    BY <1>2
  <2>2. SmallerChild(h, p) = p + 1
    BY <1>2 DEF SmallerChild
  <2> QED
    BY <1>1, <1>2, <2>1, <2>2
<1>3. CASE ~(p < Len(h) /\ h[p].tick > h[p + 1].tick)
  <2>1. SmallerChild(h, p) = p
    BY <1>3, Zenon DEF SmallerChild
  <2>2. p + 1 <= Len(h) => p + 1 \in 1..Len(h)
    OBVIOUS
  <2> QED
    BY <1>1, <1>3, <2>1, <2>2
<1> QED
  BY <1>2, <1>3

LEMMA NextPairIsBelow ==
    ASSUME NEW h, NEW p \in Nat \ {0}, NEW cancelling
    PROVE  /\ NextPair(h, p, cancelling) \in Nat
           /\ NextPair(h, p, cancelling) > p
           /\ p >= 2 => NextPair(h, p, cancelling) > SmallerChild(h, p)
<1>1. SmallerChild(h, p) \in {p, p + 1}
  BY DEF SmallerChild
<1>2. NextPair(h, p, cancelling) \in {2 * p, 2 * SmallerChild(h, p)}
  BY DEF NextPair, BelowCancelled, BelowPopped
<1> QED
  BY <1>1, <1>2

LEMMA HolesUnfolds ==
    ASSUME NEW h, Len(h) \in Nat, NEW x, NEW s \in Nat \ {0}, NEW cancelling
    PROVE  \E f : DownComputed(f, h, x, s, cancelling)
<1> DEFINE P == Nat \ {0}
           Computed(f, m) ==
               \A p \in P : p + m > Len(h) => f[p] = DownStep(h, x, f, p, cancelling)
           S == {m \in Nat : \E f : f = [p \in P |-> f[p]] /\ Computed(f, m)}
<1>1. 0 \in S
  <2> DEFINE f == [p \in P |-> <<>>]
  <2>1. f = [p \in P |-> f[p]]
    OBVIOUS
  <2>2. Computed(f, 0)
    BY DEF DownStep
  <2> HIDE DEF f
  <2> QED
    BY <2>1, <2>2
<1>2. ASSUME NEW m \in Nat, m \in S
      PROVE  m + 1 \in S
  <2>1. PICK f : f = [p \in P |-> f[p]] /\ Computed(f, m)
    BY <1>2
  <2> DEFINE g == [p \in P |-> IF p + m > Len(h) THEN f[p]
                               ELSE DownStep(h, x, f, p, cancelling)]
  <2>2. g = [p \in P |-> g[p]]
    OBVIOUS
  <2>3. \A p \in P : p + m > Len(h) => g[p] = f[p]
    OBVIOUS
  <2>4. \A p \in P : ~(p + m > Len(h)) => g[p] = DownStep(h, x, f, p, cancelling)
    OBVIOUS
  <2> HIDE DEF g
  <2>5. ASSUME NEW p \in P, p + (m + 1) > Len(h)
        PROVE  DownStep(h, x, g, p, cancelling) = DownStep(h, x, f, p, cancelling)
    <3> DEFINE next == NextPair(h, p, cancelling)
    <3>1. next \in P /\ next + m > Len(h)
      <4>1. next \in Nat /\ next > p
        BY NextPairIsBelow
      <4> QED
        BY <2>5, <4>1
    <3>2. g[next] = f[next]
      BY <2>3, <3>1
    <3> QED
      BY <3>2 DEF DownStep
  <2>6. ASSUME NEW p \in P, p + (m + 1) > Len(h)
        PROVE  g[p] = DownStep(h, x, g, p, cancelling)
    <3>1. CASE p + m > Len(h)
      <4>1. f[p] = DownStep(h, x, f, p, cancelling)
        BY <2>1, <3>1
      <4> QED
        BY <2>3, <2>5, <2>6, <3>1, <4>1
    <3>2. CASE ~(p + m > Len(h))
      BY <2>4, <2>5, <2>6, <3>2
    <3> QED
      BY <3>1, <3>2
  <2>7. Computed(g, m + 1)
    BY <2>6
  <2>8. m + 1 \in Nat
    OBVIOUS
  <2> HIDE DEF Computed
  <2> QED
    BY <2>2, <2>7, <2>8
<1> HIDE DEF S
<1>3. Len(h) \in S
  BY <1>1, <1>2, NaturalInduction
<1>4. PICK g : g = [p \in P |-> g[p]] /\ Computed(g, Len(h))
  BY <1>3 DEF S
<1>5. \A p \in P : g[p] = DownStep(h, x, g, p, cancelling)
  <2>1. \A p \in P : p + Len(h) > Len(h)
    OBVIOUS
  <2> QED
    BY <1>4, <2>1
<1> HIDE DEF Computed
<1> DEFINE F(f) == [p \in P |->
                IF p > Len(h) THEN <<>>
                ELSE LET c == SmallerChild(h, p) IN
                     IF x.tick <= h[c].tick THEN <<>>
                     ELSE <<c>> \o f[IF cancelling THEN BelowCancelled(p, c)
                                              ELSE BelowPopped(p, c)]]
           f == CHOOSE f : f = F(f)
<1>6. \A e : \A p \in P : F(e)[p] = DownStep(h, x, e, p, cancelling)
  BY DEF DownStep, NextPair
<1>7. Holes(h, x, s, cancelling) = f[s]
  BY DEF Holes
<1>8. g = F(g)
  <2>1. F(g) = [p \in P |-> F(g)[p]]
    OBVIOUS
  <2> HIDE DEF F
  <2>2. \A p \in P : g[p] = F(g)[p]
    BY <1>5, <1>6
  <2> QED
    BY <1>4, <2>1, <2>2
<1>9. f = F(f)
  BY <1>8
<1> HIDE DEF F, f
<1>10. \A p \in P : f[p] = DownStep(h, x, f, p, cancelling)
  BY <1>6, <1>9
<1> QED
  BY <1>7, <1>10 DEF DownComputed

\* Rising positions of a heap of n entries, from p on.
Grows(q, p, n) ==
    /\ q \in Seq(p..n)
    /\ \A k, l \in 1..Len(q) : k < l => q[k] < q[l]

LEMMA GrowsPrepend ==
    ASSUME NEW n \in Nat, NEW p \in Nat, NEW c \in p..n, NEW m \in Nat, c < m,
           NEW r, Grows(r, m, n), NEW q, q = <<c>> \o r
    PROVE  Grows(q, p, n)
<1>1. /\ r \in Seq(m..n)
      /\ \A k, l \in 1..Len(r) : k < l => r[k] < r[l]
  BY DEF Grows
<1>2. r \in Seq(p..n)
  BY <1>1
<1>3. /\ q \in Seq(p..n) /\ Len(q) = Len(r) + 1 /\ Len(r) \in Nat /\ q[1] = c
      /\ \A k \in 2..Len(q) : k - 1 \in 1..Len(r) /\ q[k] = r[k - 1]
  BY <1>2, Prepended
<1>4. \A i \in 1..Len(r) : r[i] \in m..n
  BY <1>1, ElementOfSeq, Zenon
<1>5. ASSUME NEW k \in 1..Len(q), NEW l \in 1..Len(q), k < l
      PROVE  q[k] < q[l]
  <2>1. l \in 2..Len(q)
    BY <1>3, <1>5
  <2>2. l - 1 \in 1..Len(r) /\ q[l] = r[l - 1]
    BY <1>3, <2>1, Zenon
  <2>3. r[l - 1] \in m..n
    BY <1>4, <2>2, Zenon
  <2>4. CASE k = 1
    BY <1>3, <2>2, <2>3, <2>4
  <2>5. CASE k # 1
    <3>1. k \in 2..Len(q) /\ k - 1 < l - 1
      BY <1>3, <1>5, <2>5
    <3>2. k - 1 \in 1..Len(r) /\ q[k] = r[k - 1]
      BY <1>3, <3>1, Zenon
    <3> QED
      BY <1>1, <2>2, <3>1, <3>2
  <2> QED
    BY <2>4, <2>5
<1> QED
  BY <1>3, <1>5 DEF Grows

LEMMA GrowsEmpty ==
    ASSUME NEW n, NEW p
    PROVE  Grows(<<>>, p, n)
BY DEF Grows

\* The path from the pair at p is empty, or the chosen child and a path below.
StepsDown(f, h, x, p, cancelling) ==
    \/ f[p] = <<>> /\ (p > Len(h) \/ x.tick <= h[SmallerChild(h, p)].tick)
    \/ /\ p \in 1..Len(h) /\ ~(x.tick <= h[SmallerChild(h, p)].tick)
       /\ f[p] = <<SmallerChild(h, p)>> \o f[NextPair(h, p, cancelling)]

LEMMA ComputedStep ==
    ASSUME NEW h, Len(h) \in Nat, NEW x, NEW s, NEW cancelling,
           NEW f, DownComputed(f, h, x, s, cancelling), NEW p \in Nat \ {0}
    PROVE  StepsDown(f, h, x, p, cancelling)
<1>1. f[p] = DownStep(h, x, f, p, cancelling)
  BY DEF DownComputed
<1>2. p > Len(h) \/ p \in 1..Len(h)
  OBVIOUS
<1> QED
  BY <1>1, <1>2, Zenon DEF DownStep, StepsDown

LEMMA EmptyIsShort ==
    ASSUME NEW V, NEW c \in V, NEW r \in Seq(V)
    PROVE  <<c>> \o r # <<>>
BY Prepended

LEMMA ComputedGrows ==
    ASSUME NEW h \in Seq(Entry), NEW x, NEW s, NEW cancelling,
           NEW f, DownComputed(f, h, x, s, cancelling)
    PROVE  \A p \in Nat \ {0, 1} : Grows(f[p], p, Len(h))
<1> DEFINE P == Nat \ {0, 1}
           S == {m \in Nat : \A p \in P : p + m > Len(h) => Grows(f[p], p, Len(h))}
<1>2. Len(h) \in Nat
  OBVIOUS
<1>1. ASSUME NEW p \in P
      PROVE  \/ f[p] = <<>>
             \/ /\ p \in 1..Len(h)
                /\ f[p] = <<SmallerChild(h, p)>> \o f[NextPair(h, p, cancelling)]
  <2>1. p \in Nat \ {0}
    OBVIOUS
  <2> QED
    BY <1>2, <2>1, ComputedStep DEF StepsDown
<1>3. 0 \in S
  <2> SUFFICES ASSUME NEW p \in P, p + 0 > Len(h)
               PROVE  Grows(f[p], p, Len(h))
    OBVIOUS
  <2>1. ~(p \in 1..Len(h))
    BY <1>2
  <2>2. f[p] = <<>>
    BY <1>1, <2>1
  <2> QED
    BY <2>2, GrowsEmpty
<1>4. ASSUME NEW m \in Nat, m \in S
      PROVE  m + 1 \in S
  <2> SUFFICES ASSUME NEW p \in P, p + (m + 1) > Len(h)
               PROVE  Grows(f[p], p, Len(h))
    OBVIOUS
  <2>1. CASE f[p] = <<>>
    BY <2>1, GrowsEmpty
  <2>2. CASE f[p] # <<>>
    <3> DEFINE c == SmallerChild(h, p)
               next == NextPair(h, p, cancelling)
    <3>1. p \in 1..Len(h) /\ f[p] = <<c>> \o f[next]
      BY <1>1, <2>2
    <3>2. c \in p..Len(h)
      <4>1. c \in {p, p + 1} /\ c \in 1..Len(h)
        BY <3>1, SmallerChildIs
      <4> QED
        BY <1>2, <4>1
    <3>3. next \in Nat /\ next > p /\ next > c
      BY NextPairIsBelow
    <3> HIDE DEF c, next
    <3>4. next \in P /\ next + m > Len(h)
      BY <1>2, <3>3
    <3>5. Grows(f[next], next, Len(h))
      BY <1>4, <3>4
    <3>6. p \in Nat /\ c < next
      BY <1>2, <3>2, <3>3
    <3> QED
      BY <1>2, <3>1, <3>2, <3>3, <3>5, <3>6, GrowsPrepend
  <2> QED
    BY <2>1, <2>2
<1> HIDE DEF S
<1>5. Len(h) \in S
  BY <1>2, <1>3, <1>4, NaturalInduction
<1>6. \A p \in P : p + Len(h) > Len(h)
  BY <1>2
<1> QED
  BY <1>5, <1>6 DEF S

\* A path down rises in position, whether an entry was popped or cancelled.
LEMMA HolesGrow ==
    ASSUME NEW h \in Seq(Entry), NEW x, NEW s \in 1..Len(h), NEW cancelling
    PROVE  Grows(<<s>> \o Holes(h, x, 2 * s, cancelling), s, Len(h))
<1>1. Len(h) \in Nat /\ 2 * s \in Nat \ {0} /\ 2 * s \in Nat \ {0, 1}
      /\ 2 * s \in Nat /\ s \in Nat /\ s \in s..Len(h) /\ s < 2 * s
  OBVIOUS
<1>2. PICK f : DownComputed(f, h, x, 2 * s, cancelling)
  BY <1>1, HolesUnfolds
<1>3. Grows(f[2 * s], 2 * s, Len(h))
  BY <1>1, <1>2, ComputedGrows
<1>4. Holes(h, x, 2 * s, cancelling) = f[2 * s]
  BY <1>2 DEF DownComputed
<1> QED
  BY <1>1, <1>3, <1>4, GrowsPrepend

LEMMA HolesType ==
    ASSUME NEW h \in Seq(Entry), NEW x, NEW s \in 1..Len(h), NEW cancelling
    PROVE  /\ Holes(h, x, 2 * s, cancelling) \in Seq(Nat)
           /\ <<s>> \o Holes(h, x, 2 * s, cancelling) # <<>>
           /\ (<<s>> \o Holes(h, x, 2 * s, cancelling))[1] = s
<1>1. Len(h) \in Nat /\ 2 * s \in Nat \ {0} /\ 2 * s \in Nat \ {0, 1} /\ s \in Nat
  OBVIOUS
<1>2. PICK f : DownComputed(f, h, x, 2 * s, cancelling)
  BY <1>1, HolesUnfolds
<1>3. \A p \in Nat \ {0, 1} : f[p] \in Seq(Nat)
  <2>1. \A p \in Nat \ {0, 1} : Grows(f[p], p, Len(h))
    BY <1>2, ComputedGrows
  <2> QED
    BY <2>1 DEF Grows
<1>4. Holes(h, x, 2 * s, cancelling) \in Seq(Nat)
  BY <1>1, <1>2, <1>3 DEF DownComputed
<1> QED
  BY <1>1, <1>4, Prepended

LEMMA GrowingIsPath ==
    ASSUME NEW h \in Seq(Entry), NEW s \in 1..Len(h), NEW q, q # <<>>, Grows(q, s, Len(h))
    PROVE  IsPath(h, q)
<1>1. /\ q \in Seq(s..Len(h)) /\ Len(q) \in Nat /\ Len(h) \in Nat
      /\ \A k, l \in 1..Len(q) : k < l => q[k] < q[l]
  BY DEF Grows
<1>2. q \in Seq(1..Len(h))
  BY <1>1
<1>3. \A k \in 1..Len(q) : q[k] \in s..Len(h)
  BY <1>1, ElementOfSeq, Zenon
<1>4. \A k \in 1..Len(q) : q[k] \in Int
  BY <1>1, <1>3
<1>5. \A k, l \in 1..Len(q) : q[k] = q[l] => k = l
  BY <1>1, <1>4
<1> QED
  BY <1>2, <1>5 DEF IsPath

\* From each position to the earlier of its children, over entries earlier
\* than x, until there are no children or they are not earlier.
DownPath(h, x, q) ==
    /\ \A k \in 1..(Len(q) - 1) :
          /\ 2 * q[k] <= Len(h)
          /\ q[k + 1] = SmallerChild(h, 2 * q[k])
          /\ h[q[k + 1]].tick < x.tick
    /\ 2 * q[Len(q)] <= Len(h) => x.tick <= h[SmallerChild(h, 2 * q[Len(q)])].tick

\* The path of an entry that was popped is one.
LEMMA PoppedGoesDown ==
    ASSUME NEW h \in Seq(Entry), NEW x \in Entry, NEW s \in 1..Len(h)
    PROVE  DownPath(h, x, <<s>> \o Holes(h, x, 2 * s, FALSE))
<1>1. Len(h) \in Nat /\ 2 * s \in Nat \ {0}
  OBVIOUS
<1>2. PICK f : DownComputed(f, h, x, 2 * s, FALSE)
  BY <1>1, HolesUnfolds
<1>3. Holes(h, x, 2 * s, FALSE) = f[2 * s]
  BY <1>2 DEF DownComputed
<1>4. \A p \in Nat \ {0, 1} : f[p] \in Seq(Nat)
  <2>1. \A p \in Nat \ {0, 1} : Grows(f[p], p, Len(h))
    BY <1>2, ComputedGrows
  <2> QED
    BY <2>1 DEF Grows
<1>12. ASSUME NEW p \in 1..Len(h)
       PROVE  \/ f[2 * p] = <<>> /\ (2 * p > Len(h) \/ x.tick <= h[SmallerChild(h, 2 * p)].tick)
              \/ /\ 2 * p \in 1..Len(h) /\ ~(x.tick <= h[SmallerChild(h, 2 * p)].tick)
                 /\ f[2 * p] = <<SmallerChild(h, 2 * p)>> \o f[2 * SmallerChild(h, 2 * p)]
  <2>1. 2 * p \in Nat \ {0} /\ Len(h) \in Nat
    OBVIOUS
  <2>2. NextPair(h, 2 * p, FALSE) = 2 * SmallerChild(h, 2 * p)
    BY DEF NextPair, BelowPopped
  <2>3. StepsDown(f, h, x, 2 * p, FALSE)
    BY <1>2, <2>1, ComputedStep
  <2> QED
    BY <2>2, <2>3, Zenon DEF StepsDown
<1>5. /\ \A i \in 1..Len(h) : h[i].tick \in Int
      /\ x.tick \in Int
  <2>1. \A i \in 1..Len(h) : h[i] \in Entry
    OBVIOUS
  <2> QED
    BY <2>1, TickIsInt, Zenon
<1> DEFINE S == {m \in Nat : \A p \in 1..Len(h) :
                    p + m >= Len(h) => DownPath(h, x, <<p>> \o f[2 * p])}
<1>6. ASSUME NEW p \in 1..Len(h), f[2 * p] = <<>>
      PROVE  DownPath(h, x, <<p>> \o f[2 * p])
  <2>1. <<p>> \o f[2 * p] = <<p>>
    BY <1>6
  <2>2. Len(<<p>>) = 1 /\ <<p>>[1] = p
    OBVIOUS
  <2>3. ASSUME 2 * p \in 1..Len(h), f[2 * p] = <<SmallerChild(h, 2 * p)>> \o f[2 * SmallerChild(h, 2 * p)]
        PROVE  FALSE
    <3>1. SmallerChild(h, 2 * p) \in 1..Len(h)
      BY <2>3, SmallerChildIs
    <3>2. SmallerChild(h, 2 * p) \in Nat /\ 2 * SmallerChild(h, 2 * p) \in Nat \ {0, 1}
      BY <1>1, <3>1
    <3> QED
      BY <1>4, <1>6, <2>3, <3>2, EmptyIsShort
  <2>4. 2 * p > Len(h) \/ x.tick <= h[SmallerChild(h, 2 * p)].tick
    BY <1>12, <2>3
  <2>5. 2 * p <= Len(h) => ~(2 * p > Len(h))
    BY <1>1
  <2> QED
    BY <2>1, <2>2, <2>4, <2>5 DEF DownPath
<1>7. ASSUME NEW p \in 1..Len(h), f[2 * p] # <<>>
      PROVE  \E c \in (p + 1)..Len(h) :
                /\ c = SmallerChild(h, 2 * p) /\ f[2 * p] = <<c>> \o f[2 * c]
                /\ 2 * p <= Len(h) /\ h[c].tick < x.tick
  <2> DEFINE c == SmallerChild(h, 2 * p)
  <2>1. 2 * p \in 1..Len(h) /\ ~(x.tick <= h[c].tick) /\ f[2 * p] = <<c>> \o f[2 * c]
    BY <1>7, <1>12
  <2>4. c \in {2 * p, 2 * p + 1} /\ c \in 1..Len(h)
    BY <2>1, SmallerChildIs
  <2> HIDE DEF c
  <2>5. c \in (p + 1)..Len(h)
    BY <1>1, <2>4
  <2>6. h[c].tick < x.tick
    BY <1>5, <2>1, <2>4
  <2>7. 2 * p <= Len(h)
    BY <1>1, <2>1
  <2> QED
    BY <2>1, <2>5, <2>6, <2>7 DEF c
<1>8. 0 \in S
  <2> SUFFICES ASSUME NEW p \in 1..Len(h), p + 0 >= Len(h)
               PROVE  DownPath(h, x, <<p>> \o f[2 * p])
    OBVIOUS
  <2>1. f[2 * p] = <<>>
    <3>1. ASSUME NEW c \in (p + 1)..Len(h) PROVE FALSE
      BY <1>1
    <3> QED
      BY <1>7, <3>1
  <2> QED
    BY <1>6, <2>1
<1>9. ASSUME NEW m \in Nat, m \in S
      PROVE  m + 1 \in S
  <2> SUFFICES ASSUME NEW p \in 1..Len(h), p + (m + 1) >= Len(h)
               PROVE  DownPath(h, x, <<p>> \o f[2 * p])
    OBVIOUS
  <2>1. CASE f[2 * p] = <<>>
    BY <1>6, <2>1
  <2>2. CASE f[2 * p] # <<>>
    <3>1. PICK c \in (p + 1)..Len(h) :
              /\ c = SmallerChild(h, 2 * p) /\ f[2 * p] = <<c>> \o f[2 * c]
              /\ 2 * p <= Len(h) /\ h[c].tick < x.tick
      BY <1>7, <2>2
    <3>2. c \in 1..Len(h) /\ c + m >= Len(h) /\ 2 * c \in Nat \ {0, 1} /\ c \in Nat /\ p \in Nat
      BY <1>1
    <3>3. PICK r : r = f[2 * p] /\ DownPath(h, x, r)
      <4>1. DownPath(h, x, <<c>> \o f[2 * c])
        BY <1>9, <3>2
      <4> QED
        BY <3>1, <4>1
    <3>4. f[2 * c] \in Seq(Nat)
      BY <1>4, <3>2
    <3>5. r \in Seq(Nat) /\ Len(r) \in Nat \ {0} /\ r[1] = c
      BY <3>1, <3>2, <3>3, <3>4, Prepended, SMTT(30)
    <3>6. PICK q : q = <<p>> \o r
      OBVIOUS
    <3>7. /\ q \in Seq(Nat) /\ Len(q) = Len(r) + 1 /\ q[1] = p
          /\ \A k \in 2..Len(q) : k - 1 \in 1..Len(r) /\ q[k] = r[k - 1]
      BY <3>2, <3>5, <3>6, Prepended
    <3>8. /\ \A k \in 1..(Len(r) - 1) :
                /\ 2 * r[k] <= Len(h)
                /\ r[k + 1] = SmallerChild(h, 2 * r[k])
                /\ h[r[k + 1]].tick < x.tick
          /\ 2 * r[Len(r)] <= Len(h) => x.tick <= h[SmallerChild(h, 2 * r[Len(r)])].tick
      BY <3>3 DEF DownPath
    <3>9. ASSUME NEW k \in 1..(Len(q) - 1)
          PROVE  /\ 2 * q[k] <= Len(h)
                 /\ q[k + 1] = SmallerChild(h, 2 * q[k])
                 /\ h[q[k + 1]].tick < x.tick
      <4>1. k + 1 \in 2..Len(q) /\ (k + 1) - 1 = k
        BY <3>5, <3>7
      <4>2. q[k + 1] = r[k]
        BY <3>7, <4>1
      <4>3. CASE k = 1
        BY <3>1, <3>5, <3>7, <4>2, <4>3
      <4>4. CASE k # 1
        <5>1. k \in 2..Len(q) /\ k - 1 \in 1..(Len(r) - 1) /\ (k - 1) + 1 = k
          BY <3>5, <3>7, <4>4
        <5>2. q[k] = r[k - 1]
          BY <3>7, <5>1
        <5>3. /\ 2 * r[k - 1] <= Len(h)
              /\ r[k] = SmallerChild(h, 2 * r[k - 1])
              /\ h[r[k]].tick < x.tick
          BY <3>8, <5>1
        <5> QED
          BY <4>2, <5>2, <5>3
      <4> QED
        BY <4>3, <4>4
    <3>10. q[Len(q)] = r[Len(r)]
      <4>1. Len(q) \in 2..Len(q) /\ Len(q) - 1 = Len(r)
        BY <3>5, <3>7
      <4> QED
        BY <3>7, <4>1
    <3>11. DownPath(h, x, q)
      BY <3>8, <3>9, <3>10 DEF DownPath
    <3> QED
      BY <3>3, <3>6, <3>11
  <2> QED
    BY <2>1, <2>2
<1> HIDE DEF S
<1>10. Len(h) \in S
  BY <1>1, <1>8, <1>9, NaturalInduction
<1>11. s + Len(h) >= Len(h)
  BY <1>1
<1> QED
  BY <1>3, <1>10, <1>11 DEF S
-----------------------------------------------------------------------------
(* Order *)

Ordered(h) == \A i \in 2..Len(h) : h[i \div 2].tick <= h[i].tick

\* Every entry but the one at s is in order, and so are its children with its
\* parent.
OrderedAside(h, s) ==
    /\ \A i \in 2..Len(h) :
          i # s /\ i \div 2 # s => h[i \div 2].tick <= h[i].tick
    /\ s # 1 => \A i \in 2..Len(h) : i \div 2 = s => h[s \div 2].tick <= h[i].tick

LEMMA OrderedIsOrderedAside ==
    ASSUME NEW h \in Seq(Entry), Ordered(h), NEW s \in 1..Len(h)
    PROVE  OrderedAside(h, s)
<1>1. \A i \in 1..Len(h) : h[i].tick \in Int
  <2>1. \A i \in 1..Len(h) : h[i] \in Entry
    OBVIOUS
  <2> QED
    BY <2>1, TickIsInt, Zenon
<1>2. ASSUME NEW i \in 2..Len(h), i \div 2 = s, s # 1
      PROVE  h[s \div 2].tick <= h[i].tick
  <2>1. s \in 2..Len(h) /\ s \div 2 \in 1..Len(h) /\ i \in 1..Len(h)
    BY <1>2
  <2>2. h[s \div 2].tick <= h[s].tick /\ h[s].tick <= h[i].tick
    BY <1>2, <2>1 DEF Ordered
  <2> QED
    BY <1>1, <2>1, <2>2
<1>3. \A i \in 2..Len(h) : i # s /\ i \div 2 # s => h[i \div 2].tick <= h[i].tick
  BY DEF Ordered
<1> QED
  BY <1>2, <1>3 DEF OrderedAside

LEMMA OffOrOn ==
    ASSUME NEW q, NEW i, ~OffPath(q, i)
    PROVE  \E k \in 1..Len(q) : q[k] = i
BY DEF OffPath

\* An entry that moves up over later ones, to a place below one that is not.
LEMMA RaisedIsOrdered ==
    ASSUME NEW h \in Seq(Entry), NEW x \in Entry, NEW s \in 1..Len(h), NEW q,
           UpPath(h, x, s, q), OrderedAside(h, s),
           \A i \in 2..Len(h) : i \div 2 = s => x.tick <= h[i].tick,
           NEW g, IsShifted(g, h, q, x)
    PROVE  Ordered(g)
<1> DEFINE n == Len(q)
<1>1. /\ q \in Seq(1..s) /\ q # <<>> /\ q[1] = s
      /\ \A k \in 1..(n - 1) :
            q[k] # 1 /\ q[k + 1] = q[k] \div 2 /\ h[q[k + 1]].tick > x.tick
      /\ \A k, l \in 1..n : k < l => q[l] < q[k]
      /\ q[n] = 1 \/ h[q[n] \div 2].tick <= x.tick
  BY DEF UpPath
<1>2. /\ Len(g) = Len(h)
      /\ \A p \in 1..Len(h) : OffPath(q, p) => g[p] = h[p]
      /\ \A k \in 1..(n - 1) : g[q[k]] = h[q[k + 1]]
      /\ g[q[n]] = x
  BY DEF IsShifted
<1>3. n \in Nat \ {0} /\ Len(h) \in Nat /\ 1 \in 1..n /\ n \in 1..n
  BY <1>1
<1>4. \A i \in 1..Len(h) : h[i].tick \in Int
  <2>1. \A i \in 1..Len(h) : h[i] \in Entry
    OBVIOUS
  <2> QED
    BY <2>1, TickIsInt, Zenon
<1>5. x.tick \in Int
  BY TickIsInt
<1>6. \A k \in 1..n : q[k] \in 1..s
  BY <1>1, ElementOfSeq, Zenon
<1>7. /\ \A i \in 2..Len(h) : i # s /\ i \div 2 # s => h[i \div 2].tick <= h[i].tick
      /\ s # 1 => \A i \in 2..Len(h) : i \div 2 = s => h[s \div 2].tick <= h[i].tick
  BY DEF OrderedAside
<1>8. \A k \in 1..n : k # 1 => q[k] < s
  BY <1>1, <1>3
<1>9. \A k \in 1..n : OffPath(q, k) \/ \E l \in 1..n : q[l] = k
  BY OffOrOn
<1> HIDE DEF n
<1>10. ASSUME NEW i \in 2..Len(h), NEW j, j = i \div 2
       PROVE  g[j].tick <= g[i].tick
  <2>1. j \in 1..(i - 1) /\ j \in 1..Len(h) /\ i \in 1..Len(h)
    BY <1>10
  <2>2. CASE OffPath(q, i) /\ OffPath(q, j)
    <3>1. i # s /\ j # s
      BY <1>1, <1>3, <2>2 DEF OffPath, n
    <3>2. g[i] = h[i] /\ g[j] = h[j]
      BY <1>2, <2>1, <2>2
    <3> QED
      BY <1>7, <1>10, <3>1, <3>2
  <2>3. ASSUME OffPath(q, i), NEW k \in 1..n, q[k] = j
        PROVE  g[j].tick <= g[i].tick
    <3>1. g[i] = h[i] /\ i # s
      BY <1>1, <1>2, <1>3, <2>1, <2>3 DEF OffPath, n
    <3>2. CASE k = n
      <4>1. g[j] = x
        BY <1>2, <2>3, <3>2
      <4>2. CASE j = s
        BY <1>10, <3>1, <4>1, <4>2
      <4>3. CASE j # s
        <5>1. k # 1 /\ k - 1 \in 1..(n - 1) /\ (k - 1) + 1 = k
          BY <1>1, <1>3, <2>3, <3>2, <4>3
        <5>2. h[j].tick > x.tick
          BY <1>1, <2>3, <5>1
        <5>3. h[j].tick <= h[i].tick
          BY <1>7, <1>10, <3>1, <4>3
        <5> QED
          BY <1>4, <1>5, <2>1, <3>1, <4>1, <5>2, <5>3
      <4> QED
        BY <4>2, <4>3
    <3>3. CASE k # n
      <4>1. k \in 1..(n - 1) /\ k + 1 \in 1..n
        BY <1>3, <3>3
      <4>2. g[j] = h[j \div 2] /\ j # 1
        BY <1>1, <1>2, <2>3, <4>1
      <4>3. CASE j = s
        BY <1>7, <1>10, <3>1, <4>2, <4>3
      <4>4. CASE j # s
        <5>1. j \in 1..s /\ j \in 2..Len(h)
          BY <1>6, <2>1, <2>3, <4>2
        <5>2. j \div 2 \in 1..Len(h) /\ j \div 2 # s
          BY <5>1
        <5>3. h[j \div 2].tick <= h[j].tick
          BY <1>7, <4>4, <5>1, <5>2
        <5>4. h[j].tick <= h[i].tick
          BY <1>7, <1>10, <3>1, <4>4
        <5> QED
          BY <1>4, <2>1, <3>1, <4>2, <5>2, <5>3, <5>4
      <4> QED
        BY <4>3, <4>4
    <3> QED
      BY <3>2, <3>3
  <2>4. ASSUME NEW k \in 1..n, q[k] = i, k # n
        PROVE  g[j].tick <= g[i].tick
    <3>1. k \in 1..(n - 1) /\ k + 1 \in 1..n
      BY <1>3, <2>4
    <3>2. g[i] = h[j] /\ q[k + 1] = j /\ h[j].tick > x.tick
      BY <1>1, <1>2, <1>10, <2>4, <3>1
    <3>3. CASE k + 1 = n
      <4>1. g[j] = x
        BY <1>2, <3>2, <3>3
      <4> QED
        BY <1>4, <1>5, <2>1, <3>2, <4>1
    <3>4. CASE k + 1 # n
      <4>1. k + 1 \in 1..(n - 1)
        BY <1>3, <3>1, <3>4
      <4>2. g[j] = h[j \div 2] /\ j # 1
        BY <1>1, <1>2, <3>2, <4>1
      <4>3. j < s /\ j \in 2..Len(h)
        BY <1>8, <2>1, <3>1, <3>2, <4>2
      <4>4. j \div 2 # s
        BY <4>3
      <4>5. h[j \div 2].tick <= h[j].tick
        BY <1>7, <4>3, <4>4
      <4> QED
        BY <3>2, <4>2, <4>5
    <3> QED
      BY <3>3, <3>4
  <2>5. ASSUME q[n] = i
        PROVE  g[j].tick <= g[i].tick
    <3>1. g[i] = x /\ h[j].tick <= x.tick
      BY <1>1, <1>2, <1>10, <2>5
    <3>2. OffPath(q, j)
      <4>1. \A k \in 1..n : q[k] >= i
        BY <1>1, <1>3, <1>6, <2>5, SMTT(30)
      <4> QED
        BY <2>1, <4>1 DEF OffPath, n
    <3>3. g[j] = h[j]
      BY <1>2, <2>1, <3>2
    <3> QED
      BY <3>1, <3>3
  <2>6. OffPath(q, i) \/ \E k \in 1..n : q[k] = i
    BY OffOrOn DEF n
  <2>7. OffPath(q, j) \/ \E k \in 1..n : q[k] = j
    BY OffOrOn DEF n
  <2> QED
    BY <2>2, <2>3, <2>4, <2>5, <2>6, <2>7
<1> QED
  BY <1>2, <1>10 DEF Ordered

LEMMA ParentOfChild ==
    ASSUME NEW a \in Nat \ {0}, NEW b \in {2 * a, 2 * a + 1}
    PROVE  b >= 2 /\ b \div 2 = a
OBVIOUS

\* An entry that moves down over earlier ones, until its children are not.
LEMMA SunkIsOrdered ==
    ASSUME NEW h \in Seq(Entry), NEW x \in Entry, NEW s \in 1..Len(h), NEW q,
           Grows(q, s, Len(h)), q # <<>>, q[1] = s, DownPath(h, x, q),
           OrderedAside(h, s), s # 1 => h[s \div 2].tick <= x.tick,
           NEW g, IsShifted(g, h, q, x)
    PROVE  Ordered(g)
<1> DEFINE n == Len(q)
<1>1. /\ q \in Seq(s..Len(h))
      /\ \A k, l \in 1..n : k < l => q[k] < q[l]
      /\ \A k \in 1..(n - 1) :
            /\ 2 * q[k] <= Len(h)
            /\ q[k + 1] = SmallerChild(h, 2 * q[k])
            /\ h[q[k + 1]].tick < x.tick
      /\ 2 * q[n] <= Len(h) => x.tick <= h[SmallerChild(h, 2 * q[n])].tick
  BY DEF Grows, DownPath
<1>2. /\ Len(g) = Len(h)
      /\ \A p \in 1..Len(h) : OffPath(q, p) => g[p] = h[p]
      /\ \A k \in 1..(n - 1) : g[q[k]] = h[q[k + 1]]
      /\ g[q[n]] = x
  BY DEF IsShifted
<1>3. n \in Nat \ {0} /\ Len(h) \in Nat /\ 1 \in 1..n /\ n \in 1..n
  BY <1>1
<1>4. \A i \in 1..Len(h) : h[i].tick \in Int
  <2>1. \A i \in 1..Len(h) : h[i] \in Entry
    OBVIOUS
  <2> QED
    BY <2>1, TickIsInt, Zenon
<1>5. x.tick \in Int
  BY TickIsInt
<1>6. \A k \in 1..n : q[k] \in s..Len(h)
  BY <1>1, ElementOfSeq, Zenon
<1>7. /\ \A i \in 2..Len(h) : i # s /\ i \div 2 # s => h[i \div 2].tick <= h[i].tick
      /\ s # 1 => \A i \in 2..Len(h) : i \div 2 = s => h[s \div 2].tick <= h[i].tick
  BY DEF OrderedAside
<1>8. \A k \in 1..n : k # 1 => q[k] > s
  BY <1>1, <1>3
<1> HIDE DEF n
\* The next position on the path is a child of this one, the earlier one.
<1>9. ASSUME NEW k \in 1..(n - 1)
      PROVE  /\ q[k + 1] \in 2..Len(h) /\ q[k + 1] \div 2 = q[k]
             /\ \A i \in 2..Len(h) : i \div 2 = q[k] => h[q[k + 1]].tick <= h[i].tick
  <2>1. k \in 1..n /\ k + 1 \in 1..n
    BY <1>3
  <2>6. PICK a : a = q[k]
    OBVIOUS
  <2>7. a \in s..Len(h) /\ 2 * a <= Len(h)
    BY <1>1, <1>6, <2>1, <2>6
  <2>8. a \in 1..Len(h) /\ 2 * a \in 1..Len(h)
    BY <1>3, <2>7
  <2>2. q[k] \in 1..Len(h) /\ 2 * q[k] \in 1..Len(h)
    BY <2>6, <2>8
  <2>3. /\ q[k + 1] \in {2 * q[k], 2 * q[k] + 1} /\ q[k + 1] \in 1..Len(h)
        /\ h[q[k + 1]].tick <= h[2 * q[k]].tick
        /\ 2 * q[k] + 1 <= Len(h) => h[q[k + 1]].tick <= h[2 * q[k] + 1].tick
    BY <1>1, <2>2, SmallerChildIs
  <2>4. q[k + 1] \in 2..Len(h) /\ q[k + 1] \div 2 = q[k]
    <3>1. PICK b : b = q[k + 1]
      OBVIOUS
    <3>2. b \in {2 * a, 2 * a + 1} /\ b \in 1..Len(h)
      BY <2>3, <2>6, <3>1
    <3>3. b \in 2..Len(h) /\ b \div 2 = a
      <4>1. a \in Nat \ {0}
        BY <1>3, <2>8
      <4>2. b >= 2 /\ b \div 2 = a
        BY <3>2, <4>1, ParentOfChild
      <4> QED
        BY <1>3, <3>2, <4>2
    <3> QED
      BY <2>6, <3>1, <3>3
  <2>5. ASSUME NEW i \in 2..Len(h), i \div 2 = q[k]
        PROVE  h[q[k + 1]].tick <= h[i].tick
    <3>1. i \in {2 * q[k], 2 * q[k] + 1}
      BY <2>2, <2>5
    <3> QED
      BY <2>3, <3>1
  <2> QED
    BY <2>4, <2>5
<1>10. ASSUME NEW i \in 2..Len(h), i \div 2 = q[n]
       PROVE  x.tick <= h[i].tick
  <2>1. q[n] \in 1..Len(h)
    BY <1>3, <1>6
  <2>2. i \in {2 * q[n], 2 * q[n] + 1} /\ 2 * q[n] \in 1..Len(h)
    BY <1>10, <2>1
  <2>3. /\ SmallerChild(h, 2 * q[n]) \in 1..Len(h)
        /\ h[SmallerChild(h, 2 * q[n])].tick <= h[2 * q[n]].tick
        /\ 2 * q[n] + 1 <= Len(h)
              => h[SmallerChild(h, 2 * q[n])].tick <= h[2 * q[n] + 1].tick
    BY <2>2, SmallerChildIs
  <2>4. x.tick <= h[SmallerChild(h, 2 * q[n])].tick
    BY <1>1, <2>2 DEF n
  <2>5. h[SmallerChild(h, 2 * q[n])].tick <= h[i].tick
    BY <2>2, <2>3
  <2>6. i \in 1..Len(h)
    OBVIOUS
  <2> QED
    BY <1>4, <1>5, <2>3, <2>4, <2>5, <2>6
<1>11. ASSUME NEW i \in 2..Len(h), NEW j, j = i \div 2
       PROVE  g[j].tick <= g[i].tick
  <2>1. j \in 1..(i - 1) /\ j \in 1..Len(h) /\ i \in 1..Len(h)
    BY <1>11
  <2>2. CASE OffPath(q, i) /\ OffPath(q, j)
    <3>1. i # s /\ j # s
      BY <1>3, <2>2 DEF OffPath, n
    <3>2. g[i] = h[i] /\ g[j] = h[j]
      BY <1>2, <2>1, <2>2
    <3> QED
      BY <1>7, <1>11, <3>1, <3>2
  <2>3. ASSUME OffPath(q, i), NEW k \in 1..n, q[k] = j
        PROVE  g[j].tick <= g[i].tick
    <3>1. g[i] = h[i]
      BY <1>2, <2>1, <2>3
    <3>2. CASE k = n
      BY <1>2, <1>10, <1>11, <2>3, <3>1, <3>2
    <3>3. CASE k # n
      <4>1. k \in 1..(n - 1)
        BY <1>3, <3>3
      <4> QED
        BY <1>2, <1>9, <1>11, <2>3, <3>1, <4>1
    <3> QED
      BY <3>2, <3>3
  <2>4. ASSUME NEW k \in 1..n, q[k] = i, k # 1
        PROVE  g[j].tick <= g[i].tick
    <3>1. k - 1 \in 1..(n - 1) /\ (k - 1) + 1 = k
      BY <1>3, <2>4
    <3>2. q[k - 1] = j /\ h[i].tick < x.tick
      BY <1>1, <1>9, <1>11, <2>4, <3>1 DEF n
    <3>3. g[j] = h[i]
      BY <1>2, <2>4, <3>1, <3>2
    <3>4. CASE k = n
      BY <1>2, <1>4, <1>5, <2>1, <2>4, <3>2, <3>3, <3>4
    <3>5. CASE k # n
      <4>1. k \in 1..(n - 1) /\ k + 1 \in 1..n /\ k + 1 # 1
        BY <1>3, <3>5
      <4>2. g[i] = h[q[k + 1]]
        BY <1>2, <2>4, <4>1
      <4>3. q[k + 1] \in 2..Len(h) /\ q[k + 1] \div 2 = i /\ q[k + 1] # s /\ i # s
        BY <1>8, <1>9, <2>4, <4>1
      <4> QED
        BY <1>7, <3>3, <4>2, <4>3
    <3> QED
      BY <3>4, <3>5
  <2>5. ASSUME i = s
        PROVE  g[j].tick <= g[i].tick
    <3>1. OffPath(q, j)
      BY <1>6, <2>1, <2>5 DEF OffPath, n
    <3>2. g[j] = h[j] /\ s # 1
      BY <1>2, <2>1, <2>5, <3>1
    <3>3. CASE n = 1
      BY <1>2, <1>11, <2>5, <3>2, <3>3
    <3>4. CASE n # 1
      <4>1. 1 \in 1..(n - 1)
        BY <1>3, <3>4
      <4>2. g[i] = h[q[1 + 1]]
        BY <1>2, <2>5, <4>1
      <4>3. q[1 + 1] \in 2..Len(h) /\ q[1 + 1] \div 2 = s
        BY <1>9, <4>1
      <4> QED
        BY <1>7, <1>11, <2>5, <3>2, <4>2, <4>3
    <3> QED
      BY <3>3, <3>4
  <2>6. OffPath(q, i) \/ \E k \in 1..n : q[k] = i
    BY OffOrOn DEF n
  <2>7. OffPath(q, j) \/ \E k \in 1..n : q[k] = j
    BY OffOrOn DEF n
  <2> QED
    BY <2>2, <2>3, <2>4, <2>5, <2>6, <2>7
<1> QED
  BY <1>2, <1>11 DEF Ordered
-----------------------------------------------------------------------------
(* The operations *)

LEMMA EntryTicks ==
    ASSUME NEW h \in Seq(Entry)
    PROVE  \A i \in 1..Len(h) : h[i] \in Entry /\ h[i].tick \in Int
<1>1. \A i \in 1..Len(h) : h[i] \in Entry
  OBVIOUS
<1> QED
  BY <1>1, TickIsInt, Zenon

LEMMA PushedIs ==
    ASSUME NEW h \in Seq(Entry), OnePerTimer(h), NEW e \in Entry, e.id \notin Ids(h)
    PROVE  /\ Pushed(h, e) \in Seq(Entry) /\ OnePerTimer(Pushed(h, e))
           /\ Entries(Pushed(h, e)) = Entries(h) \cup {e}
           /\ Ordered(h) => Ordered(Pushed(h, e))
<1> DEFINE end == Len(h) + 1
           grown == Append(h, e)
           holes == HolesUp(grown, e, end)
           q == <<end>> \o holes
           g == Shifted(grown, end, holes, e)
<1>1. /\ grown \in Seq(Entry) /\ Len(grown) = end /\ end \in 1..Len(grown)
      /\ \A i \in 1..Len(h) : grown[i] = h[i]
      /\ grown[end] = e
      /\ Len(h) \in Nat
  OBVIOUS
<1>2. Pushed(h, e) = g
  BY DEF Pushed
<1> HIDE DEF grown, end
<1>3. UpPath(grown, e, end, q)
  BY <1>1, HolesUpIsUpPath
<1>4. IsPath(grown, q)
  BY <1>1, <1>3, UpPathIsPath
<1>5. IsShifted(g, grown, q, e)
  BY <1>1, <1>4, ShiftedIs
<1>6. \A i \in 1..Len(h) : i \in 1..Len(grown) /\ i # end /\ h[i].id # e.id
  BY <1>1 DEF Ids, end
<1>7. \A i \in (1..Len(grown)) \ {end} : i \in 1..Len(h)
  BY <1>1 DEF end
<1>8. /\ g \in Seq(Entry)
      /\ Entries(g) = OtherEntries(grown, end) \cup {e}
      /\ /\ OnePerTimer(grown)
         /\ \A i \in (1..Len(grown)) \ {end} : grown[i].id # e.id
         => OnePerTimer(g)
  BY <1>1, <1>4, ShiftedKeeps
<1>9. OtherEntries(grown, end) = Entries(h)
  BY <1>1, <1>6, <1>7 DEF OtherEntries, Entries
<1>10. \A i \in (1..Len(grown)) \ {end} : grown[i].id # e.id
  BY <1>1, <1>6, <1>7
<1>11. OnePerTimer(grown)
  <2> SUFFICES ASSUME NEW i \in 1..Len(grown), NEW j \in 1..Len(grown),
                      grown[i].id = grown[j].id
               PROVE  i = j
    BY DEF OnePerTimer
  <2>1. CASE i = end \/ j = end
    BY <1>1, <1>10, <2>1
  <2>2. CASE i # end /\ j # end
    BY <1>1, <1>7, <2>2 DEF OnePerTimer
  <2> QED
    BY <2>1, <2>2
<1>12. ASSUME Ordered(h)
       PROVE  Ordered(g)
  <2>1. ASSUME NEW i \in 2..Len(grown), i # end
        PROVE  grown[i \div 2].tick <= grown[i].tick
    <3>1. i \in 2..Len(h) /\ i \in 1..Len(h) /\ i \div 2 \in 1..Len(h)
      BY <1>1, <1>7, <2>1
    <3>2. h[i \div 2].tick <= h[i].tick
      BY <1>12, <3>1 DEF Ordered
    <3> QED
      BY <1>1, <3>1, <3>2
  <2>2. ASSUME NEW i \in 2..Len(grown), i \div 2 = end
        PROVE  FALSE
    BY <1>1, <2>2
  <2>3. OrderedAside(grown, end)
    BY <2>1, <2>2 DEF OrderedAside
  <2> HIDE DEF g, q
  <2> QED
    BY <1>1, <1>3, <1>5, <2>2, <2>3, RaisedIsOrdered
<1> QED
  BY <1>2, <1>8, <1>9, <1>10, <1>11, <1>12

LEMMA Prefix ==
    ASSUME NEW h \in Seq(Entry), NEW m \in Nat, m <= Len(h)
    PROVE  /\ SubSeq(h, 1, m) \in Seq(Entry)
           /\ Len(SubSeq(h, 1, m)) = m
           /\ \A i \in 1..m : SubSeq(h, 1, m)[i] = h[i]
OBVIOUS

LEMMA ButLastIs ==
    ASSUME NEW h \in Seq(Entry), h # <<>>
    PROVE  /\ ButLast(h) \in Seq(Entry)
           /\ Len(ButLast(h)) = Len(h) - 1 /\ Len(h) \in Nat \ {0}
           /\ \A i \in 1..(Len(h) - 1) : ButLast(h)[i] = h[i]
           /\ h[Len(h)] \in Entry
           /\ OnePerTimer(h) => OnePerTimer(ButLast(h))
           /\ Ordered(h) => Ordered(ButLast(h))
<1>1. Len(h) \in Nat \ {0}
  OBVIOUS
<1>2. /\ ButLast(h) \in Seq(Entry) /\ Len(ButLast(h)) = Len(h) - 1
      /\ \A i \in 1..(Len(h) - 1) : ButLast(h)[i] = h[i]
  <2>4. Len(h) - 1 \in Nat /\ Len(h) - 1 <= Len(h)
    BY <1>1
  <2> QED
    BY <2>4, Prefix DEF ButLast
<1>3. h[Len(h)] \in Entry
  BY <1>1
<1>4. \A i \in 1..(Len(h) - 1) : i \in 1..Len(h)
  BY <1>1
<1>5. ASSUME OnePerTimer(h) PROVE OnePerTimer(ButLast(h))
  BY <1>2, <1>4, <1>5 DEF OnePerTimer
<1>6. ASSUME Ordered(h), NEW i \in 2..(Len(h) - 1)
      PROVE  ButLast(h)[i \div 2].tick <= ButLast(h)[i].tick
  <2>1. i \in 2..Len(h) /\ i \in 1..(Len(h) - 1) /\ i \div 2 \in 1..(Len(h) - 1)
    BY <1>1
  <2> QED
    BY <1>2, <1>6, <2>1 DEF Ordered
<1> QED
  BY <1>1, <1>2, <1>3, <1>5, <1>6 DEF Ordered

\* Without the entry at i when the last one takes its place.
LEMMA OthersAre ==
    ASSUME NEW h \in Seq(Entry), OnePerTimer(h), NEW i \in 1..(Len(h) - 1)
    PROVE  /\ OtherEntries(ButLast(h), i) \cup {h[Len(h)]} = Entries(h) \ {h[i]}
           /\ \A j \in (1..Len(ButLast(h))) \ {i} : ButLast(h)[j].id # h[Len(h)].id
<1>1. h # <<>>
  OBVIOUS
<1>2. /\ Len(ButLast(h)) = Len(h) - 1 /\ Len(h) \in Nat \ {0}
      /\ \A k \in 1..(Len(h) - 1) : ButLast(h)[k] = h[k]
  BY <1>1, ButLastIs
<1>3. /\ \A j \in 1..(Len(h) - 1) : j \in 1..Len(h) /\ j # Len(h)
      /\ \A j \in 1..Len(h) : j # Len(h) => j \in 1..(Len(h) - 1)
      /\ Len(h) \in 1..Len(h)
  BY <1>2
<1>4. \A j, k \in 1..Len(h) : h[j] = h[k] => j = k
  BY Zenon DEF OnePerTimer
<1>5. ASSUME NEW e \in OtherEntries(ButLast(h), i) \cup {h[Len(h)]}
      PROVE  e \in Entries(h) \ {h[i]}
  <2>1. PICK j \in 1..Len(h) : e = h[j] /\ j # i
    <3>1. CASE e = h[Len(h)]
      BY <1>3, <3>1
    <3>2. CASE e \in OtherEntries(ButLast(h), i)
      BY <1>2, <1>3, <3>2 DEF OtherEntries
    <3> QED
      BY <3>1, <3>2
  <2> QED
    BY <1>3, <1>4, <2>1 DEF Entries
<1>6. ASSUME NEW e \in Entries(h) \ {h[i]}
      PROVE  e \in OtherEntries(ButLast(h), i) \cup {h[Len(h)]}
  <2>1. PICK j \in 1..Len(h) : e = h[j]
    BY DEF Entries
  <2>2. j # i
    BY <2>1
  <2>3. CASE j = Len(h)
    BY <2>1, <2>3
  <2>4. CASE j # Len(h)
    <3>1. j \in 1..(Len(h) - 1)
      BY <1>3, <2>4
    <3> QED
      BY <1>2, <2>1, <2>2, <3>1 DEF OtherEntries
  <2> QED
    BY <2>3, <2>4
<1>7. ASSUME NEW j \in (1..Len(ButLast(h))) \ {i}
      PROVE  ButLast(h)[j].id # h[Len(h)].id
  BY <1>2, <1>3 DEF OnePerTimer
<1> QED
  BY <1>5, <1>6, <1>7

LEMMA WithoutLast ==
    ASSUME NEW h \in Seq(Entry), OnePerTimer(h), h # <<>>
    PROVE  Entries(ButLast(h)) = Entries(h) \ {h[Len(h)]}
<1>1. /\ Len(ButLast(h)) = Len(h) - 1 /\ Len(h) \in Nat \ {0}
      /\ \A k \in 1..(Len(h) - 1) : ButLast(h)[k] = h[k]
  BY ButLastIs
<1>2. /\ \A j \in 1..(Len(h) - 1) : j \in 1..Len(h) /\ j # Len(h)
      /\ \A j \in 1..Len(h) : j # Len(h) => j \in 1..(Len(h) - 1)
      /\ Len(h) \in 1..Len(h)
  BY <1>1
<1>3. \A j, k \in 1..Len(h) : h[j] = h[k] => j = k
  BY Zenon DEF OnePerTimer
<1>4. ASSUME NEW e \in Entries(ButLast(h))
      PROVE  e \in Entries(h) \ {h[Len(h)]}
  <2>1. PICK j \in 1..(Len(h) - 1) : e = h[j]
    BY <1>1 DEF Entries
  <2> QED
    BY <1>2, <1>3, <2>1 DEF Entries
<1>5. ASSUME NEW e \in Entries(h) \ {h[Len(h)]}
      PROVE  e \in Entries(ButLast(h))
  <2>1. PICK j \in 1..Len(h) : e = h[j]
    BY DEF Entries
  <2>2. j \in 1..(Len(h) - 1)
    BY <1>2, <2>1
  <2> QED
    BY <1>1, <2>1, <2>2 DEF Entries
<1> QED
  BY <1>4, <1>5

LEMMA PoppedIs ==
    ASSUME NEW h \in Seq(Entry), OnePerTimer(h), h # <<>>
    PROVE  /\ Popped(h) \in Seq(Entry) /\ OnePerTimer(Popped(h))
           /\ Entries(Popped(h)) = Entries(h) \ {h[1]}
           /\ Ordered(h) => Ordered(Popped(h))
<1> DEFINE last == h[Len(h)]
           rest == ButLast(h)
           holes == Holes(rest, last, 2, FALSE)
           q == <<1>> \o holes
           g == Shifted(rest, 1, holes, last)
<1>1. /\ rest \in Seq(Entry)
      /\ Len(rest) = Len(h) - 1 /\ Len(h) \in Nat \ {0}
      /\ last \in Entry
      /\ OnePerTimer(rest)
      /\ Ordered(h) => Ordered(rest)
  BY ButLastIs
<1>2. Popped(h) = IF rest = <<>> THEN rest ELSE g
  BY DEF Popped
<1>3. CASE rest = <<>>
  <2>1. Len(h) = 1
    BY <1>1, <1>3
  <2>2. Entries(rest) = Entries(h) \ {h[1]}
    BY <2>1, WithoutLast
  <2> QED
    BY <1>1, <1>2, <1>3, <2>2
<1>4. CASE rest # <<>>
  <2>1. 1 \in 1..Len(rest) /\ 1 \in 1..(Len(h) - 1) /\ 2 * 1 = 2
    BY <1>1, <1>4
  <2>2. /\ OtherEntries(rest, 1) \cup {last} = Entries(h) \ {h[1]}
        /\ \A j \in (1..Len(rest)) \ {1} : rest[j].id # last.id
    BY <2>1, OthersAre
  <2> HIDE DEF rest, last
  <2>3. Grows(q, 1, Len(rest))
    BY <1>1, <2>1, HolesGrow
  <2>5. q # <<>> /\ q[1] = 1
    BY <1>1, <2>1, HolesType
  <2>6. IsPath(rest, q)
    BY <1>1, <2>1, <2>3, <2>5, GrowingIsPath
  <2>7. IsShifted(g, rest, q, last)
    BY <1>1, <2>6, ShiftedIs
  <2>8. /\ g \in Seq(Entry)
        /\ Entries(g) = OtherEntries(rest, 1) \cup {last}
        /\ /\ OnePerTimer(rest)
           /\ \A i \in (1..Len(rest)) \ {1} : rest[i].id # last.id
           => OnePerTimer(g)
    BY <1>1, <2>6, ShiftedKeeps
  <2>9. DownPath(rest, last, q)
    BY <1>1, <2>1, PoppedGoesDown
  <2>10. ASSUME Ordered(h)
         PROVE  Ordered(g)
    <3>1. OrderedAside(rest, 1)
      BY <1>1, <2>1, <2>10, OrderedIsOrderedAside
    <3> HIDE DEF g, q
    <3> QED
      BY <1>1, <2>1, <2>3, <2>5, <2>7, <2>9, <3>1, SunkIsOrdered
  <2> QED
    BY <1>1, <1>2, <1>4, <2>2, <2>8, <2>10
<1> QED
  BY <1>3, <1>4

LEMMA ShortPaths ==
    ASSUME NEW a, NEW b, NEW c
    PROVE  /\ <<a>> \o <<>> = <<a>>
           /\ <<a>> \o <<b>> = <<a, b>>
           /\ <<a>> \o <<b, c>> = <<a, b, c>>
<1>1. <<a>> \o <<>> = <<a>>
  OBVIOUS
<1> DEFINE V == {a, b, c}
<1>4. /\ <<b>> \in Seq(V) /\ Len(<<b>>) = 1 /\ <<b>>[1] = b
      /\ <<a, b>> \in Seq(V) /\ Len(<<a, b>>) = 2 /\ <<a, b>>[1] = a /\ <<a, b>>[2] = b
  OBVIOUS
<1>5. /\ <<b, c>> \in Seq(V) /\ Len(<<b, c>>) = 2 /\ <<b, c>>[1] = b /\ <<b, c>>[2] = c
      /\ <<a, b, c>> \in Seq(V) /\ Len(<<a, b, c>>) = 3
      /\ <<a, b, c>>[1] = a /\ <<a, b, c>>[2] = b /\ <<a, b, c>>[3] = c
  OBVIOUS
<1>6. a \in V
  OBVIOUS
<1> HIDE DEF V
<1>2. <<a>> \o <<b>> = <<a, b>>
  <2>1. PICK q : q = <<a>> \o <<b>>
    OBVIOUS
  <2>2. q \in Seq(V) /\ Len(q) = 1 + 1 /\ q[1] = a /\ \A k \in 1..1 : q[k + 1] = <<b>>[k]
    BY <1>4, <1>6, <2>1, Prepended
  <2>3. q[1 + 1] = b
    BY <1>4, <2>2
  <2>4. \A k \in 1..2 : q[k] = <<a, b>>[k]
    BY <1>4, <2>2, <2>3
  <2>5. PICK t : t = <<a, b>>
    OBVIOUS
  <2>6. q \in Seq(V) /\ t \in Seq(V) /\ Len(q) = Len(t) /\ \A k \in 1..Len(q) : q[k] = t[k]
    BY <1>4, <2>2, <2>4, <2>5
  <2>7. q = t
    BY <2>6, SeqEqual, Zenon
  <2> QED
    BY <2>1, <2>5, <2>7
<1>3. <<a>> \o <<b, c>> = <<a, b, c>>
  <2>1. PICK q : q = <<a>> \o <<b, c>>
    OBVIOUS
  <2>2. q \in Seq(V) /\ Len(q) = 2 + 1 /\ q[1] = a /\ \A k \in 1..2 : q[k + 1] = <<b, c>>[k]
    BY <1>5, <1>6, <2>1, Prepended
  <2>3. q[1 + 1] = b /\ q[2 + 1] = c
    BY <1>5, <2>2
  <2>4. \A k \in 1..3 : q[k] = <<a, b, c>>[k]
    BY <1>5, <2>2, <2>3
  <2>5. PICK t : t = <<a, b, c>>
    OBVIOUS
  <2>6. q \in Seq(V) /\ t \in Seq(V) /\ Len(q) = Len(t) /\ \A k \in 1..Len(q) : q[k] = t[k]
    BY <1>5, <2>2, <2>4, <2>5
  <2>7. q = t
    BY <2>6, SeqEqual, Zenon
  <2> QED
    BY <2>1, <2>5, <2>7
<1> QED
  BY <1>1, <1>2, <1>3

\* The path of a cancelled entry in a heap of five.
LEMMA CancelledGoesDown ==
    ASSUME NEW h \in Seq(Entry), Len(h) <= 5, NEW x \in Entry, NEW s \in 1..Len(h),
           NEW q, q = <<s>> \o Holes(h, x, 2 * s, TRUE)
    PROVE  \/ DownPath(h, x, q)
           \/ \E c \in 4..Len(h) :
                 /\ s = 1 /\ q = <<1, 3, c>> /\ c = SmallerChild(h, 4)
                 /\ h[3].tick < h[2].tick /\ h[c].tick < x.tick
<1>1. Len(h) \in Nat /\ Len(h) <= 5 /\ s \in 1..5 /\ 2 * s \in Nat \ {0}
  OBVIOUS
<1>2. PICK f : DownComputed(f, h, x, 2 * s, TRUE)
  BY <1>1, HolesUnfolds
<1>3. \A i \in 1..Len(h) : h[i] \in Entry /\ h[i].tick \in Int
  BY EntryTicks
<1>4. x.tick \in Int
  BY TickIsInt
<1>5. q = <<s>> \o f[2 * s]
  BY <1>2 DEF DownComputed
\* What the recursion does at p: the path ends, or goes on.
<1> DEFINE Ends(p) == f[p] = <<>> /\ (p <= Len(h) => x.tick <= h[SmallerChild(h, p)].tick)
           GoesOn(p, c) ==
               /\ p <= Len(h) /\ c = SmallerChild(h, p) /\ c \in {p, p + 1}
               /\ h[c].tick < x.tick /\ f[p] = <<c>> \o f[2 * p]
<1>6. ASSUME NEW p \in 1..10
      PROVE  Ends(p) \/ \E c \in 1..Len(h) : GoesOn(p, c)
  <2>1. p \in Nat \ {0}
    OBVIOUS
  <2>2. StepsDown(f, h, x, p, TRUE)
    BY <1>1, <1>2, <2>1, ComputedStep
  <2>3. NextPair(h, p, TRUE) = 2 * p
    BY DEF NextPair, BelowCancelled
  <2>4. CASE f[p] = <<>> /\ (p > Len(h) \/ x.tick <= h[SmallerChild(h, p)].tick)
    BY <1>1, <2>4
  <2>5. CASE /\ p \in 1..Len(h) /\ ~(x.tick <= h[SmallerChild(h, p)].tick)
             /\ f[p] = <<SmallerChild(h, p)>> \o f[NextPair(h, p, TRUE)]
    <3>1. PICK c : c = SmallerChild(h, p)
      OBVIOUS
    <3>2. c \in {p, p + 1} /\ c \in 1..Len(h)
      BY <2>5, <3>1, SmallerChildIs
    <3>3. h[c].tick < x.tick
      BY <1>3, <1>4, <2>5, <3>1, <3>2
    <3>4. p <= Len(h)
      BY <1>1, <2>5
    <3> QED
      BY <2>3, <2>5, <3>1, <3>2, <3>3, <3>4
  <2> QED
    BY <2>2, <2>4, <2>5 DEF StepsDown
<1>7. \A p \in 6..10 : f[p] = <<>>
  <2> SUFFICES ASSUME NEW p \in 6..10 PROVE f[p] = <<>>
    OBVIOUS
  <2>1. p \in 1..10 /\ ~(p <= Len(h))
    BY <1>1
  <2> QED
    BY <1>6, <2>1
<1>8. ASSUME Ends(2 * s)
      PROVE  DownPath(h, x, q)
  <2>1. q = <<s>>
    BY <1>5, <1>8, ShortPaths, Zenon
  <2>2. Len(<<s>>) = 1 /\ <<s>>[1] = s /\ \A k \in 1..(1 - 1) : FALSE
    OBVIOUS
  <2>3. DownPath(h, x, <<s>>)
    BY <1>8, <2>2 DEF DownPath
  <2> QED
    BY <2>1, <2>3
<1>9. ASSUME NEW c \in 1..Len(h), GoesOn(2 * s, c), f[2 * (2 * s)] = <<>>,
             2 * c <= Len(h) => x.tick <= h[SmallerChild(h, 2 * c)].tick
      PROVE  DownPath(h, x, q)
  <2>4. f[2 * s] = <<c>> \o f[2 * (2 * s)]
    BY <1>9, Zenon
  <2>5. f[2 * s] = <<c>>
    BY <1>9, <2>4, ShortPaths, Zenon
  <2>1. q = <<s, c>>
    BY <1>5, <2>5, ShortPaths, Zenon
  <2>2. Len(<<s, c>>) = 2 /\ <<s, c>>[1] = s /\ <<s, c>>[2] = c
    OBVIOUS
  <2> HIDE DEF Ends
  <2>3. \A k \in 1..(2 - 1) : k = 1 /\ k + 1 = 2
    OBVIOUS
  <2> QED
    BY <1>9, <2>1, <2>2, <2>3 DEF DownPath
<1>10. ASSUME NEW c \in 1..Len(h), GoesOn(2 * s, c), s # 1
       PROVE  DownPath(h, x, q)
  <2>1. 2 * (2 * s) \in 6..10 /\ ~(2 * c <= Len(h))
    BY <1>1, <1>10
  <2> QED
    BY <1>7, <1>9, <1>10, <2>1
<1>11. ASSUME NEW c \in 1..Len(h), GoesOn(2 * s, c), s = 1, Ends(4)
       PROVE  DownPath(h, x, q)
  <2>1. c \in {2, 3}
    BY <1>11
  <2>2. 2 * c <= Len(h) => 2 * c = 4
    BY <1>1, <2>1
  <2>3. 2 * (2 * s) = 4
    BY <1>11
  <2> QED
    BY <1>9, <1>11, <2>2, <2>3
<1>12. ASSUME NEW c \in 1..Len(h), GoesOn(2 * s, c), s = 1, NEW d \in 1..Len(h), GoesOn(4, d)
       PROVE  \/ DownPath(h, x, q)
              \/ \E e \in 4..Len(h) :
                    /\ s = 1 /\ q = <<1, 3, e>> /\ e = SmallerChild(h, 4)
                    /\ h[3].tick < h[2].tick /\ h[e].tick < x.tick
  <2>1. f[2 * 4] = <<>> /\ 2 * (2 * s) = 4 /\ 2 * s = 2
    BY <1>7, <1>12
  <2>2. f[4] = <<d>> \o <<>> /\ f[2] = <<c>> \o f[4] /\ q = <<1>> \o f[2]
    BY <1>5, <1>12, <2>1
  <2>7. f[4] = <<d>>
    BY <2>2, ShortPaths, Zenon
  <2>8. f[2] = <<c, d>>
    BY <2>2, <2>7, ShortPaths, Zenon
  <2>9. q = <<1>> \o <<c, d>>
    BY <2>2, <2>8, Zenon
  <2>3. q = <<1, c, d>>
    BY <2>9, ShortPaths, Zenon
  <2>4. d \in 4..Len(h) /\ d = SmallerChild(h, 4) /\ h[d].tick < x.tick
        /\ c \in {2, 3} /\ c = SmallerChild(h, 2) /\ h[c].tick < x.tick
        /\ 2 <= Len(h) /\ 4 <= Len(h)
    BY <1>1, <1>12, <2>1
  <2> HIDE DEF GoesOn, Ends
  <2>5. CASE c = 2
    <3>1. Len(<<1, 2, d>>) = 3 /\ <<1, 2, d>>[1] = 1 /\ <<1, 2, d>>[2] = 2 /\ <<1, 2, d>>[3] = d
      OBVIOUS
    <3>2. \A k \in 1..(3 - 1) : (k = 1 /\ k + 1 = 2) \/ (k = 2 /\ k + 1 = 3)
      OBVIOUS
    <3>3. ~(2 * d <= Len(h))
      BY <1>1, <2>4
    <3>4. DownPath(h, x, <<1, 2, d>>)
      BY <2>4, <2>5, <3>1, <3>2, <3>3 DEF DownPath
    <3> QED
      BY <2>3, <2>5, <3>4
  <2>6. CASE c = 3
    <3>1. h[2].tick > h[3].tick
      BY <2>4, <2>6 DEF SmallerChild
    <3>2. h[3].tick < h[2].tick
      BY <1>3, <2>4, <2>6, <3>1
    <3> QED
      BY <1>12, <2>3, <2>4, <2>6, <3>2
  <2> QED
    BY <2>4, <2>5, <2>6
<1> HIDE DEF Ends, GoesOn
<1>13. 2 * s \in 1..10 /\ 4 \in 1..10
  BY <1>1
<1> QED
  BY <1>6, <1>8, <1>10, <1>11, <1>12, <1>13

\* The entries that are cancelled are the ones of a heap of at most six: then
\* going on below the left child, as the code does, goes wrong nowhere.
LEMMA SettledIsOrdered ==
    ASSUME NEW h \in Seq(Entry), Len(h) <= 5, Ordered(h), NEW x \in Entry,
           NEW s \in 1..Len(h), s # 1 => h[s \div 2].tick <= x.tick,
           NEW q, q = <<s>> \o Holes(h, x, 2 * s, TRUE),
           NEW g, IsShifted(g, h, q, x)
    PROVE  Ordered(g)
<1>1. Grows(q, s, Len(h)) /\ q # <<>> /\ q[1] = s
  <2>1. Grows(<<s>> \o Holes(h, x, 2 * s, TRUE), s, Len(h))
    BY HolesGrow
  <2>2. /\ <<s>> \o Holes(h, x, 2 * s, TRUE) # <<>>
        /\ (<<s>> \o Holes(h, x, 2 * s, TRUE))[1] = s
    BY HolesType
  <2> QED
    BY <2>1, <2>2, Zenon
<1>2. CASE DownPath(h, x, q)
  BY <1>1, <1>2, OrderedIsOrderedAside, SunkIsOrdered
<1>3. ASSUME NEW c \in 4..Len(h), s = 1, q = <<1, 3, c>>,
             h[3].tick < h[2].tick, h[c].tick < x.tick
      PROVE  Ordered(g)
  <2>1. Len(h) \in Nat /\ Len(h) <= 5 /\ c \in {4, 5} /\ 4 <= Len(h)
    OBVIOUS
  <2>10. PICK r : r = <<1, 3, c>>
    OBVIOUS
  <2>11. Len(r) = 3 /\ r[1] = 1 /\ r[2] = 3 /\ r[3] = c
    BY ONLY <2>10
  <2>2. Len(q) = 3 /\ q[1] = 1 /\ q[2] = 3 /\ q[3] = c
    BY <1>3, <2>10, <2>11, Zenon
  <2>3. /\ Len(g) = Len(h)
        /\ \A p \in 1..Len(h) : OffPath(q, p) => g[p] = h[p]
        /\ \A k \in 1..(Len(q) - 1) : g[q[k]] = h[q[k + 1]]
        /\ g[q[Len(q)]] = x
    BY Zenon DEF IsShifted
  <2>4. g[1] = h[3] /\ g[3] = h[c] /\ g[c] = x
    <3>1. 1 \in 1..(3 - 1) /\ 2 \in 1..(3 - 1) /\ 1 + 1 = 2 /\ 2 + 1 = 3
      OBVIOUS
    <3>2. \A k \in 1..(3 - 1) : g[q[k]] = h[q[k + 1]]
      BY <2>2, <2>3, Zenon
    <3>3. g[q[1]] = h[q[2]] /\ g[q[2]] = h[q[3]] /\ g[q[3]] = x
      BY ONLY <2>2, <2>3, <3>1, <3>2
    <3> QED
      BY <2>2, <3>3, Zenon
  <2>5. \A p \in 1..Len(h) : p \notin {1, 3, c} => g[p] = h[p]
    <3>2. \A k \in 1..3 : k = 1 \/ k = 2 \/ k = 3
      OBVIOUS
    <3>1. \A k \in 1..Len(q) : q[k] \in {1, 3, c}
      BY <2>2, <3>2, Zenon
    <3> QED
      BY <2>3, <3>1 DEF OffPath
  <2>6. /\ h[2].tick <= h[4].tick
        /\ 5 <= Len(h) => h[2].tick <= h[5].tick
    <3>1. 4 \in 2..Len(h) /\ (5 <= Len(h) => 5 \in 2..Len(h)) /\ 4 \div 2 = 2 /\ 5 \div 2 = 2
      BY <2>1
    <3> QED
      BY <3>1 DEF Ordered
  <2>7. /\ h[2].tick \in Int /\ h[3].tick \in Int /\ h[c].tick \in Int /\ x.tick \in Int
    <3>1. 2 \in 1..Len(h) /\ 3 \in 1..Len(h) /\ c \in 1..Len(h)
      BY <2>1
    <3> QED
      BY <3>1, EntryTicks, TickIsInt
  <2>8. h[2].tick <= h[c].tick
    BY <2>1, <2>6
  <2>9. ASSUME NEW i \in 2..Len(g)
        PROVE  g[i \div 2].tick <= g[i].tick
    <3>1. i \in {2, 3, 4, 5} /\ i \in 1..Len(h)
      BY <2>1, <2>3
    <3>2. g[2] = h[2]
      BY <2>1, <2>5
    <3>3. CASE i = 2
      <4>1. i \div 2 = 1
        BY <3>3
      <4> QED
        BY <1>3, <2>4, <2>7, <3>2, <3>3, <4>1
    <3>4. CASE i = 3
      <4>1. i \div 2 = 1
        BY <3>4
      <4> QED
        BY <1>3, <2>4, <2>7, <2>8, <3>4, <4>1
    <3>5. CASE i = c
      <4>1. i \div 2 = 2
        BY <2>1, <3>5
      <4> QED
        BY <1>3, <2>4, <2>7, <2>8, <3>2, <3>5, <4>1
    <3>6. CASE i \in {4, 5} /\ i # c
      <4>1. i \div 2 = 2 /\ g[i] = h[i]
        BY <2>1, <2>5, <3>1, <3>6
      <4>2. h[2].tick <= h[i].tick
        BY <2>3, <2>6, <3>6
      <4> QED
        BY <3>2, <4>1, <4>2
    <3> QED
      BY <3>1, <3>3, <3>4, <3>5, <3>6
  <2> QED
    BY <2>9 DEF Ordered
<1> QED
  BY <1>2, <1>3, CancelledGoesDown

LEMMA CancelledIs ==
    ASSUME NEW h \in Seq(Entry), OnePerTimer(h), NEW i \in 1..Len(h)
    PROVE  /\ Cancelled(h, i) \in Seq(Entry) /\ OnePerTimer(Cancelled(h, i))
           /\ Entries(Cancelled(h, i)) = Entries(h) \ {h[i]}
           /\ Ordered(h) /\ Len(h) <= 6 => Ordered(Cancelled(h, i))
<1> DEFINE last == h[Len(h)]
           rest == ButLast(h)
           rises == i # 1 /\ rest[i \div 2].tick > last.tick
           holes == IF rises THEN HolesUp(rest, last, i) ELSE Holes(rest, last, 2 * i, TRUE)
           q == <<i>> \o holes
           g == Shifted(rest, i, holes, last)
<1>1. h # <<>>
  OBVIOUS
<1>2. /\ rest \in Seq(Entry)
      /\ Len(rest) = Len(h) - 1 /\ Len(h) \in Nat \ {0}
      /\ last \in Entry
      /\ OnePerTimer(rest)
      /\ Ordered(h) => Ordered(rest)
  BY <1>1, ButLastIs
<1>3. Cancelled(h, i) = IF i = Len(h) THEN rest ELSE g
  BY DEF Cancelled
<1>4. CASE i = Len(h)
  BY <1>1, <1>2, <1>3, <1>4, WithoutLast
<1>5. CASE i # Len(h)
  <2>1. i \in 1..Len(rest) /\ i \in 1..(Len(h) - 1)
    BY <1>2, <1>5
  <2>2. /\ OtherEntries(rest, i) \cup {last} = Entries(h) \ {h[i]}
        /\ \A j \in (1..Len(rest)) \ {i} : rest[j].id # last.id
    BY <2>1, OthersAre
  <2> HIDE DEF rest, last
  <2>3. rises => UpPath(rest, last, i, q)
    BY <1>2, <2>1, HolesUpIsUpPath
  <2>4. ~rises => Grows(q, i, Len(rest)) /\ q # <<>>
    <3>1. Grows(<<i>> \o Holes(rest, last, 2 * i, TRUE), i, Len(rest))
      BY <1>2, <2>1, HolesGrow
    <3>2. <<i>> \o Holes(rest, last, 2 * i, TRUE) # <<>>
      BY <1>2, <2>1, HolesType
    <3> QED
      BY <3>1, <3>2
  <2>5. IsPath(rest, q)
    <3> HIDE DEF rises, q
    <3> QED
      BY <1>2, <2>1, <2>3, <2>4, UpPathIsPath, GrowingIsPath
  <2>6. IsShifted(g, rest, q, last)
    <3> HIDE DEF holes
    <3> QED
      BY <1>2, <2>5, ShiftedIs
  <2>7. /\ g \in Seq(Entry)
        /\ Entries(g) = OtherEntries(rest, i) \cup {last}
        /\ /\ OnePerTimer(rest)
           /\ \A k \in (1..Len(rest)) \ {i} : rest[k].id # last.id
           => OnePerTimer(g)
    <3> HIDE DEF holes
    <3> QED
      BY <1>2, <2>5, ShiftedKeeps
  <2>8. ASSUME Ordered(h), Len(h) <= 6
        PROVE  Ordered(g)
    <3>1. Ordered(rest) /\ OrderedAside(rest, i) /\ Len(rest) <= 5
      BY <1>2, <2>1, <2>8, OrderedIsOrderedAside
    <3>2. /\ \A j \in 1..Len(rest) : rest[j].tick \in Int
          /\ last.tick \in Int
      BY <1>2, EntryTicks, TickIsInt
    <3>3. i # 1 => i \in 2..Len(rest) /\ i \div 2 \in 1..Len(rest)
      BY <2>1
    <3>4. CASE rises
      <4>1. /\ i # 1 /\ rest[i \div 2].tick > last.tick /\ rest[i \div 2].tick <= rest[i].tick
        BY <3>1, <3>3, <3>4 DEF Ordered
      <4>2. ASSUME NEW j \in 2..Len(rest), j \div 2 = i
            PROVE  last.tick <= rest[j].tick
        <5>1. rest[i].tick <= rest[j].tick
          BY <3>1, <4>2 DEF Ordered
        <5>2. j \in 1..Len(rest)
          OBVIOUS
        <5> QED
          BY <2>1, <3>2, <3>3, <4>1, <5>1, <5>2
      <4>3. UpPath(rest, last, i, q)
        BY <2>3, <3>4
      <4> HIDE DEF g, q
      <4> QED
        BY <1>2, <2>1, <2>6, <3>1, <4>2, <4>3, RaisedIsOrdered
    <3>5. CASE ~rises
      <4>1. i # 1 => rest[i \div 2].tick <= last.tick
        BY <3>2, <3>3, <3>5
      <4>2. q = <<i>> \o Holes(rest, last, 2 * i, TRUE)
        BY <3>5
      <4> HIDE DEF g, q
      <4> QED
        BY <1>2, <2>1, <2>6, <3>1, <4>1, <4>2, SettledIsOrdered
    <3> QED
      BY <3>4, <3>5
  <2> QED
    BY <1>2, <1>3, <1>5, <2>2, <2>7, <2>8
<1> QED
  BY <1>4, <1>5

-----------------------------------------------------------------------------
(* The specification *)

LEMMA PushKeeps ==
    ASSUME HTypeOK, Push
    PROVE  /\ HTypeOK' /\ Queue!QNext
           /\ HeapOrdered => HeapOrdered'
<1>1. heap \in Seq(Entry) /\ OnePerTimer(heap) /\ taken \subseteq Entry
  BY DEF HTypeOK, OnePerTimer
<1>2. PICK e \in Entry : e.id \notin Ids(heap) /\ heap' = Pushed(heap, e) /\ taken' = taken
  BY DEF Push
<1>3. /\ heap' \in Seq(Entry) /\ OnePerTimer(heap')
      /\ Entries(heap') = Entries(heap) \cup {e}
      /\ Ordered(heap) => Ordered(heap')
  BY <1>1, <1>2, PushedIs
<1>4. HTypeOK'
  BY <1>1, <1>2, <1>3 DEF HTypeOK, OnePerTimer
<1>5. Queue!Schedule(e)
  <2>1. \A f \in Entries(heap) : f.id # e.id
    BY <1>2 DEF Ids, Entries
  <2> QED
    BY <1>2, <1>3, <2>1 DEF Queue!Schedule, Entries
<1>6. Queue!QNext
  BY <1>5 DEF Queue!QNext, Queue!Entry, Entry
<1> QED
  BY <1>3, <1>4, <1>6 DEF HeapOrdered, Ordered

LEMMA QueueSteps ==
    ASSUME NEW e \in Entries(heap), Queue!TakeEarliest(e) \/ Queue!Remove(e)
    PROVE  Queue!QNext
<1>1. e \in {heap[i] : i \in 1..Len(heap)}
  BY DEF Entries
<1> SUFFICES \E f \in {heap[i] : i \in 1..Len(heap)} :
                Queue!TakeEarliest(f) \/ Queue!Remove(f)
  BY DEF Queue!QNext
<1> WITNESS e \in {heap[i] : i \in 1..Len(heap)}
<1> QED
  OBVIOUS

\* The top of a heap in order is an earliest entry of it.
LEMMA TopIsEarliest ==
    ASSUME NEW h \in Seq(Entry), Ordered(h)
    PROVE  \A i \in 1..Len(h) : h[1].tick <= h[i].tick
<1> DEFINE S == {i \in Nat : i \in 1..Len(h) => h[1].tick <= h[i].tick}
<1>1. \A i \in 1..Len(h) : h[i].tick \in Int
  BY EntryTicks
<1>2. ASSUME NEW i \in Nat, \A k \in 0..(i - 1) : k \in S
      PROVE  i \in S
  <2> SUFFICES ASSUME i \in 1..Len(h) PROVE h[1].tick <= h[i].tick
    OBVIOUS
  <2>1. CASE i = 1
    BY <1>1, <2>1
  <2>2. CASE i # 1
    <3>1. i \div 2 \in 0..(i - 1) /\ i \div 2 \in 1..Len(h) /\ i \in 2..Len(h) /\ 1 \in 1..Len(h)
      BY <2>2
    <3>2. h[1].tick <= h[i \div 2].tick
      BY <1>2, <3>1
    <3>3. h[i \div 2].tick <= h[i].tick
      BY <3>1 DEF Ordered
    <3> QED
      BY <1>1, <3>1, <3>2, <3>3
  <2> QED
    BY <2>1, <2>2
<1> HIDE DEF S
<1>3. \A i \in Nat : i \in S
  BY <1>2, CompleteInduction
<1> QED
  BY <1>3 DEF S

LEMMA PopKeeps ==
    ASSUME HTypeOK, Pop
    PROVE  /\ HTypeOK'
           /\ HeapOrdered => HeapOrdered' /\ Queue!QNext
<1>1. heap \in Seq(Entry) /\ OnePerTimer(heap) /\ heap # <<>>
      /\ taken' = {heap[1]} /\ heap' = Popped(heap)
  BY DEF HTypeOK, OnePerTimer, Pop
<1>2. /\ heap' \in Seq(Entry) /\ OnePerTimer(heap')
      /\ Entries(heap') = Entries(heap) \ {heap[1]}
      /\ Ordered(heap) => Ordered(heap')
  BY <1>1, PoppedIs
<1>3. 1 \in 1..Len(heap) /\ heap[1] \in Entry
  BY <1>1
<1>4. HTypeOK'
  BY <1>1, <1>2, <1>3 DEF HTypeOK, OnePerTimer
<1>5. ASSUME Ordered(heap) PROVE Queue!QNext
  <2>1. \A f \in Entries(heap) : heap[1].tick <= f.tick
    BY <1>1, <1>5, TopIsEarliest DEF Entries
  <2>2. PICK e : e = heap[1]
    OBVIOUS
  <2>3. Queue!TakeEarliest(e)
    BY <1>1, <1>2, <2>1, <2>2 DEF Queue!TakeEarliest, Entries
  <2>4. e \in Entries(heap)
    BY <1>3, <2>2 DEF Entries
  <2> QED
    BY <2>3, <2>4, QueueSteps
<1> QED
  BY <1>2, <1>4, <1>5 DEF HeapOrdered, Ordered

LEMMA CancelKeeps ==
    ASSUME HTypeOK, Cancel
    PROVE  /\ HTypeOK' /\ Queue!QNext
           /\ CancelSize <= 6 /\ HeapOrdered => HeapOrdered'
<1>1. heap \in Seq(Entry) /\ OnePerTimer(heap) /\ taken \subseteq Entry
  BY DEF HTypeOK, OnePerTimer
<1>2. PICK i \in 1..Len(heap) : heap' = Cancelled(heap, i) /\ taken' = taken
  BY DEF Cancel
<1>3. /\ heap' \in Seq(Entry) /\ OnePerTimer(heap')
      /\ Entries(heap') = Entries(heap) \ {heap[i]}
      /\ Ordered(heap) /\ Len(heap) <= 6 => Ordered(heap')
  BY <1>1, <1>2, CancelledIs
<1>4. HTypeOK'
  BY <1>1, <1>2, <1>3 DEF HTypeOK, OnePerTimer
<1>5. PICK e : e = heap[i]
  OBVIOUS
<1>6. Queue!QNext
  <2>1. Queue!Remove(e)
    BY <1>2, <1>3, <1>5 DEF Queue!Remove, Entries
  <2>2. e \in Entries(heap)
    BY <1>5 DEF Entries
  <2> QED
    BY <2>1, <2>2, QueueSteps
<1>7. CancelSize <= 6 => Len(heap) <= 6
  <2>1. Len(heap) <= CancelSize /\ Len(heap) \in Nat
    BY <1>1 DEF Cancel
  <2> QED
    BY <2>1, CancelSizeAssumption
<1> QED
  BY <1>3, <1>4, <1>6, <1>7 DEF HeapOrdered, Ordered

\* Every operation leaves a heap of entries with each timer in it once: push,
\* pop and cancel, for a heap of any size, whatever path the hole takes.
THEOREM HeapTypeCorrect == HSpec => []HTypeOK
<1>1. HInit => HTypeOK
  BY DEF HInit, HTypeOK
<1>2. HTypeOK /\ [HNext]_hvars => HTypeOK'
  <2> SUFFICES ASSUME HTypeOK, [HNext]_hvars PROVE HTypeOK'
    OBVIOUS
  <2>1. CASE Push
    BY <2>1, PushKeeps
  <2>2. CASE Pop
    BY <2>2, PopKeeps
  <2>3. CASE Cancel
    BY <2>3, CancelKeeps
  <2>4. CASE UNCHANGED hvars
    BY <2>4 DEF HTypeOK, hvars
  <2> QED
    BY <2>1, <2>2, <2>3, <2>4 DEF HNext
<1> QED
  BY <1>1, <1>2, PTL DEF HSpec

\* No entry is ever earlier than its parent, in a heap of any size, as long as
\* entries are only cancelled while there are at most six.
THEOREM StaysOrdered ==
    ASSUME CancelSize <= 6
    PROVE  HSpec => []HeapOrdered
<1>1. HInit => HeapOrdered
  BY DEF HInit, HeapOrdered
<1>2. HTypeOK /\ HeapOrdered /\ [HNext]_hvars => HeapOrdered'
  <2> SUFFICES ASSUME HTypeOK, HeapOrdered, [HNext]_hvars PROVE HeapOrdered'
    OBVIOUS
  <2>1. CASE Push
    BY <2>1, PushKeeps
  <2>2. CASE Pop
    BY <2>2, PopKeeps
  <2>3. CASE Cancel
    BY <2>3, CancelKeeps
  <2>4. CASE UNCHANGED hvars
    BY <2>4 DEF HeapOrdered, hvars
  <2> QED
    BY <2>1, <2>2, <2>3, <2>4 DEF HNext
<1> QED
  BY <1>1, <1>2, HeapTypeCorrect, PTL DEF HSpec

\* Then the heap is a timer queue: what is pushed is there until it is popped
\* or cancelled, once, and what is popped is an earliest one.
THEOREM ImplementsQueue ==
    ASSUME CancelSize <= 6
    PROVE  HSpec => IsTimerQueue
<1>1. HInit => Queue!QInit
  BY DEF HInit, Queue!QInit
<1>2. HTypeOK /\ HeapOrdered /\ [HNext]_hvars => [Queue!QNext]_Queue!qvars
  <2> SUFFICES ASSUME HTypeOK, HeapOrdered, [HNext]_hvars
               PROVE  [Queue!QNext]_Queue!qvars
    OBVIOUS
  <2>1. CASE Push
    BY <2>1, PushKeeps
  <2>2. CASE Pop
    BY <2>2, PopKeeps
  <2>3. CASE Cancel
    BY <2>3, CancelKeeps
  <2>4. CASE UNCHANGED hvars
    BY <2>4 DEF hvars, Queue!qvars
  <2> QED
    BY <2>1, <2>2, <2>3, <2>4 DEF HNext
<1> QED
  BY <1>1, <1>2, HeapTypeCorrect, StaysOrdered, PTL DEF HSpec, IsTimerQueue, Queue!QSpec

-----------------------------------------------------------------------------
(* The executor *)

USE DueAssumption, MaxTimeAssumption

(* The inductive invariant *)

\* An executable is in one place: not posted, queued, executed or cancelled.
OnePlace ==
    /\ \A t \in queue \cup Executed \cup cancelled : call[t] = "posted"
    /\ queue \cap Executed = {}
    /\ queue \cap cancelled = {}

\* The worker's idea of the time is behind the clock.
ClockBehind == tickNow <= now

\* The flag is off before process_destroy cancels, and stays off.
FlagIsOff == stopper # "idle" => ~flagRun

IInv ==
    /\ TypeOK
    /\ OnePlace
    /\ ClockBehind
    /\ FlagIsOff
    /\ ExecutedRightly
    /\ SleepsForTheTop

-----------------------------------------------------------------------------
(* Type correctness *)

LEMMA InitType == Init => TypeOK
BY DEF Init, TypeOK, WorkerPoints, StopPoints, CallPoints, Execution

LEMMA NotifyType ==
    ASSUME TypeOK,
           NotifyExist \/ NotifyInTime \/ UNCHANGED worker
    PROVE  worker' \in WorkerPoints
BY DEF TypeOK, NotifyExist, NotifyInTime, WorkerPoints

LEMMA CallerType ==
    ASSUME TypeOK, NEW t \in Executables, PostAt(t) \/ CancelExecutable(t)
    PROVE  TypeOK'
<1>1. worker' \in WorkerPoints
  BY NotifyType DEF PostAt, CancelExecutable, NotifyPushed
<1>2. queue' \subseteq Executables /\ cancelled' \subseteq Executables
  BY DEF TypeOK, PostAt, CancelExecutable
<1>3. call' \in [Executables -> CallPoints]
  BY DEF TypeOK, PostAt, CancelExecutable, CallPoints
<1> QED
  BY <1>1, <1>2, <1>3 DEF TypeOK, PostAt, CancelExecutable

LEMMA StopperType ==
    ASSUME TypeOK, StopFlag \/ StopStep
    PROVE  TypeOK'
<1>1. CASE StopFlag
  BY <1>1 DEF TypeOK, StopFlag, StopPoints
<1>2. CASE StopCancel
  <2>1. worker' \in WorkerPoints
    BY <1>2, NotifyType DEF StopCancel
  <2> QED
    BY <1>2, <2>1 DEF TypeOK, StopCancel, StopPoints
<1>3. CASE StopJoin
  BY <1>3 DEF TypeOK, StopJoin, StopPoints
<1> QED
  BY <1>1, <1>2, <1>3 DEF StopStep

LEMMA WorkerType ==
    ASSUME TypeOK, WorkerStep \/ WaitEnds
    PROVE  TypeOK'
<1> USE DEF TypeOK, WorkerPoints
<1>1. CASE WorkerCheck
  BY <1>1 DEF WorkerCheck
<1>2. CASE WorkerLock
  BY <1>2 DEF WorkerLock
<1>3. CASE WorkerResume
  BY <1>3 DEF WorkerResume
<1>4. CASE WorkerEmpty
  BY <1>4 DEF WorkerEmpty
<1>5. CASE WorkerWait
  <2>1. PICK t \in Executables : ~IsDue(t) /\ wakeAt' = now + (Due[t] - tickNow)
    BY <1>5 DEF WorkerWait
  <2>2. wakeAt' \in 0..(2 * MaxTime)
    <3>1. Due[t] \in 0..MaxTime /\ Due[t] > tickNow
      BY <2>1 DEF IsDue
    <3> QED
      BY <2>1, <3>1
  <2> QED
    BY <1>5, <2>2 DEF WorkerWait
<1>6. CASE WorkerExecute
  <2>1. executed' \in Seq(Execution)
    BY <1>6 DEF WorkerExecute, Execution
  <2> QED
    BY <1>6, <2>1 DEF WorkerExecute
<1>7. CASE WaitEnds
  BY <1>7 DEF WaitEnds
<1> QED
  BY <1>1, <1>2, <1>3, <1>4, <1>5, <1>6, <1>7 DEF WorkerStep

LEMMA StepType == TypeOK /\ [Next]_vars => TypeOK'
<1> SUFFICES ASSUME TypeOK, [Next]_vars PROVE TypeOK'
  OBVIOUS
<1>1. CASE ClockTicks
  BY <1>1 DEF TypeOK, ClockTicks
<1>2. CASE UNCHANGED vars
  BY <1>2 DEF TypeOK, vars
<1> QED
  BY <1>1, <1>2, CallerType, StopperType, WorkerType DEF Next

\* Every variable keeps its type: the wait of the worker ends at a time that
\* is neither before the clock's beginning nor further off than its end.
THEOREM TypeCorrect == Spec => []TypeOK
BY InitType, StepType, PTL DEF Spec

-----------------------------------------------------------------------------
(* What is executed *)

LEMMA ExecutedType == TypeOK => Executed \subseteq Executables
<1> SUFFICES ASSUME TypeOK, NEW i \in 1..Len(executed)
             PROVE  executed[i].id \in Executables
  BY DEF Executed
<1>1. executed[i] \in Execution
  BY DEF TypeOK
<1> QED
  BY <1>1 DEF Execution

\* The worker appends one execution.
LEMMA ExecuteAppends ==
    ASSUME TypeOK, NEW t \in Executables,
           executed' = Append(executed, [id |-> t, at |-> now])
    PROVE  /\ Executed' = Executed \cup {t}
           /\ Len(executed') = Len(executed) + 1
           /\ \A i \in 1..Len(executed) : executed'[i] = executed[i]
           /\ executed'[Len(executed')] = [id |-> t, at |-> now]
<1>1. Len(executed) \in Nat /\ Len(executed') = Len(executed) + 1
  BY DEF TypeOK
<1>2. \A i \in 1..Len(executed) : executed'[i] = executed[i]
  BY DEF TypeOK
<1>3. executed'[Len(executed')] = [id |-> t, at |-> now]
  BY <1>1 DEF TypeOK
<1>4. Executed' \subseteq Executed \cup {t}
  <2> SUFFICES ASSUME NEW i \in 1..Len(executed')
               PROVE  executed'[i].id \in Executed \cup {t}
    BY DEF Executed
  <2>1. CASE i = Len(executed')
    BY <2>1, <1>3
  <2>2. CASE i # Len(executed')
    <3>1. i \in 1..Len(executed)
      BY <2>2, <1>1
    <3> QED
      BY <3>1, <1>2 DEF Executed
  <2> QED
    BY <2>1, <2>2
<1>5. Executed \subseteq Executed'
  <2> SUFFICES ASSUME NEW i \in 1..Len(executed)
               PROVE  executed[i].id \in Executed'
    BY DEF Executed
  <2>1. i \in 1..Len(executed') /\ executed'[i].id = executed[i].id
    BY <1>1, <1>2
  <2> QED
    BY <2>1 DEF Executed
<1>6. t \in Executed'
  <2>1. Len(executed') \in 1..Len(executed') /\ executed'[Len(executed')].id = t
    BY <1>1, <1>3
  <2> QED
    BY <2>1 DEF Executed
<1> QED
  BY <1>1, <1>2, <1>3, <1>4, <1>5, <1>6

LEMMA InitInv == Init => IInv
<1> SUFFICES ASSUME Init PROVE IInv
  OBVIOUS
<1>1. Executed = {}
  BY DEF Init, Executed
<1>2. OnePlace /\ ClockBehind /\ FlagIsOff
  BY <1>1 DEF Init, OnePlace, ClockBehind, FlagIsOff
<1>3. ExecutedRightly
  BY <1>1 DEF Init, ExecutedRightly, NotEarly, ExecutedOnce, StoppedIsEmpty
<1>4. SleepsForTheTop
  BY DEF Init, SleepsForTheTop
<1> QED
  BY <1>2, <1>3, <1>4, InitType DEF IInv

\* post_at: a new executable is in no other place, and it is queued only
\* while the flag is on, that is before the cancelling.
LEMMA PushInv ==
    ASSUME IInv, NEW t \in Executables, PostAt(t)
    PROVE  IInv'
<1>1. TypeOK /\ TypeOK'
  BY CallerType DEF IInv
<1>2. Executed' = Executed
  BY DEF PostAt, Executed
<1>3. OnePlace'
  <2>1. t \notin queue \cup Executed \cup cancelled
    BY DEF IInv, OnePlace, PostAt
  <2>2. \A u \in Executables \ {t} : call'[u] = call[u]
    BY <1>1 DEF TypeOK, PostAt
  <2>3. queue \cup Executed \cup cancelled \subseteq Executables
    BY <1>1, ExecutedType DEF TypeOK
  <2>4. CASE flagRun
    BY <2>1, <2>2, <2>3, <2>4, <1>1, <1>2 DEF IInv, OnePlace, PostAt, TypeOK
  <2>5. CASE ~flagRun
    BY <2>1, <2>2, <2>3, <2>5, <1>2 DEF IInv, OnePlace, PostAt
  <2> QED
    BY <2>4, <2>5
<1>4. ClockBehind' /\ FlagIsOff'
  BY DEF IInv, PostAt, ClockBehind, FlagIsOff
<1>5. ExecutedRightly'
  <2>1. NotEarly' /\ ExecutedOnce'
    BY <1>2 DEF IInv, PostAt, ExecutedRightly, NotEarly, ExecutedOnce
  <2>2. StoppedIsEmpty'
    BY DEF IInv, PostAt, ExecutedRightly, FlagIsOff, StoppedIsEmpty
  <2> QED
    BY <2>1, <2>2 DEF ExecutedRightly
<1>6. SleepsForTheTop'
  <2>1. CASE ~flagRun
    BY <2>1 DEF IInv, PostAt, SleepsForTheTop, IsTop
  <2>2. CASE flagRun /\ worker' = "wait_exist"
    BY <2>2 DEF IInv, PostAt, NotifyPushed, NotifyExist, NotifyInTime,
                SleepsForTheTop
  <2>3. CASE flagRun /\ worker' = "wait_time"
    <3>1. PICK u \in queue : IsTop(u, queue) /\ wakeAt <= Due[u] + (begun - tickNow)
      BY <2>3 DEF IInv, PostAt, NotifyPushed, NotifyExist, NotifyInTime,
                  SleepsForTheTop
    <3>2. worker = "wait_time" /\ ~(\A v \in queue : Due[t] < Due[v])
      BY <2>3, <3>1 DEF PostAt, NotifyPushed, NotifyInTime, NotifyExist
    <3>3. Due[u] <= Due[t]
      <4>1. PICK v \in queue : ~(Due[t] < Due[v])
        BY <3>2
      <4>2. Due[u] <= Due[v]
        BY <3>1 DEF IsTop
      <4>3. Due[u] \in Nat /\ Due[v] \in Nat /\ Due[t] \in Nat
        BY <1>1 DEF TypeOK
      <4> QED
        BY <4>1, <4>2, <4>3
    <3>4. IsTop(u, queue') /\ u \in queue'
      BY <2>3, <3>1, <3>3 DEF PostAt, IsTop
    <3> QED
      BY <2>3, <3>1, <3>4 DEF SleepsForTheTop, PostAt, IsTop
  <2>4. CASE worker' \notin {"wait_exist", "wait_time"}
    BY <2>4 DEF SleepsForTheTop
  <2> QED
    BY <2>1, <2>2, <2>3, <2>4 DEF IInv, TypeOK
<1> QED
  BY <1>1, <1>3, <1>4, <1>5, <1>6 DEF IInv

\* cancel: the executable goes from the heap to the cancelled ones, and the
\* worker goes on sleeping only for another one that is due as soon.
LEMMA CancelInv ==
    ASSUME IInv, NEW t \in Executables, CancelExecutable(t)
    PROVE  IInv'
<1>1. TypeOK /\ TypeOK'
  BY CallerType DEF IInv
<1>2. Executed' = Executed
  BY DEF CancelExecutable, Executed
<1>3. OnePlace' /\ ClockBehind' /\ FlagIsOff'
  BY <1>2 DEF IInv, CancelExecutable, OnePlace, ClockBehind, FlagIsOff
<1>4. ExecutedRightly'
  BY <1>2 DEF IInv, OnePlace, CancelExecutable, ExecutedRightly, NotEarly, ExecutedOnce,
              StoppedIsEmpty
<1>5. SleepsForTheTop'
  <2>1. CASE worker' = "wait_exist"
    BY <2>1 DEF IInv, CancelExecutable, NotifyInTime, SleepsForTheTop
  <2>2. CASE worker' = "wait_time"
    <3>1. worker = "wait_time"
      BY <2>2 DEF CancelExecutable, NotifyInTime
    <3>2. PICK u \in queue : IsTop(u, queue) /\ wakeAt <= Due[u] + (begun - tickNow)
      BY <3>1 DEF IInv, SleepsForTheTop
    <3>3. CASE u # t
      BY <2>2, <3>2, <3>3 DEF CancelExecutable, SleepsForTheTop, IsTop
    <3>4. CASE u = t
      <4>1. PICK v \in queue \ {t} : Due[v] = Due[t]
        BY <2>2, <3>1, <3>2, <3>4 DEF CancelExecutable, NotifyInTime
      <4>2. IsTop(v, queue') /\ v \in queue'
        BY <3>2, <3>4, <4>1 DEF CancelExecutable, IsTop
      <4> QED
        BY <2>2, <3>2, <3>4, <4>1, <4>2 DEF CancelExecutable, SleepsForTheTop
    <3> QED
      BY <3>3, <3>4
  <2>3. CASE worker' \notin {"wait_exist", "wait_time"}
    BY <2>3 DEF SleepsForTheTop
  <2> QED
    BY <2>1, <2>2, <2>3
<1> QED
  BY <1>1, <1>3, <1>4, <1>5 DEF IInv

\* process_destroy: the cancelling empties the heap and wakes a sleeping worker.
LEMMA StopperInv ==
    ASSUME IInv, StopFlag \/ StopStep
    PROVE  IInv'
<1>1. TypeOK /\ TypeOK'
  BY StopperType DEF IInv
<1> USE DEF OnePlace, ClockBehind, FlagIsOff, ExecutedRightly, NotEarly,
            ExecutedOnce, StoppedIsEmpty, SleepsForTheTop
<1>2. CASE StopFlag
  BY <1>1, <1>2 DEF IInv, StopFlag, Executed, IsTop
<1>3. CASE StopCancel
  <2>1. Executed' = Executed
    BY <1>3 DEF StopCancel, Executed
  <2>2. OnePlace' /\ ClockBehind' /\ FlagIsOff'
    BY <1>3, <2>1 DEF IInv, StopCancel
  <2>3. ExecutedRightly'
    BY <1>3, <2>1 DEF IInv, StopCancel
  <2>4. worker' \notin {"wait_exist", "wait_time"}
    BY <1>3, <1>1 DEF IInv, StopCancel, NotifyExist, NotifyInTime
  <2>5. SleepsForTheTop'
    BY <2>4
  <2> QED
    BY <1>1, <2>2, <2>3, <2>5 DEF IInv
<1>4. CASE StopJoin
  BY <1>1, <1>4 DEF IInv, StopJoin, Executed, IsTop
<1> QED
  BY <1>2, <1>3, <1>4 DEF StopStep

\* The worker without an execution: it sleeps after a look at the heap.
LEMMA WorkerInv ==
    ASSUME IInv,
           \/ WorkerCheck \/ WorkerLock \/ WorkerResume \/ WorkerEmpty
           \/ WorkerWait \/ WaitEnds
    PROVE  IInv'
<1>1. TypeOK /\ TypeOK'
  BY WorkerType DEF IInv, WorkerStep
<1>2. /\ Executed' = Executed
      /\ UNCHANGED <<now, flagRun, queue, stopper, call, cancelled, executed>>
  BY DEF WorkerCheck, WorkerLock, WorkerResume, WorkerEmpty, WorkerWait,
         WaitEnds, Executed
<1>3. OnePlace' /\ FlagIsOff' /\ ExecutedRightly'
  BY <1>2 DEF IInv, OnePlace, FlagIsOff, ExecutedRightly, NotEarly,
              ExecutedOnce, StoppedIsEmpty
<1>4. ClockBehind'
  BY <1>1 DEF IInv, TypeOK, ClockBehind, WorkerCheck, WorkerLock, WorkerResume,
              WorkerEmpty, WorkerWait, WaitEnds
<1>5. SleepsForTheTop'
  <2>1. CASE WorkerWait
    <3>1. PICK t \in Executables : IsTop(t, queue) /\ wakeAt' = now + (Due[t] - tickNow)
      BY <2>1 DEF WorkerWait
    <3>2. Due[t] \in Nat /\ now \in Nat /\ tickNow \in Nat
      BY <1>1 DEF TypeOK
    <3>3. wakeAt' <= Due[t] + (now - tickNow)
      BY <3>1, <3>2
    <3> QED
      BY <2>1, <3>1, <3>3 DEF WorkerWait, SleepsForTheTop, IsTop
  <2>2. CASE WorkerLock
    BY <2>2 DEF WorkerLock, SleepsForTheTop
  <2>3. CASE WorkerCheck \/ WorkerResume \/ WorkerEmpty \/ WaitEnds
    BY <2>3 DEF WorkerCheck, WorkerResume, WorkerEmpty, WaitEnds, SleepsForTheTop
  <2> QED
    BY <2>1, <2>2, <2>3
<1> QED
  BY <1>1, <1>3, <1>4, <1>5 DEF IInv

\* The top is due by a clock that is behind, so it is not executed early.
LEMMA ExecuteInv ==
    ASSUME IInv, WorkerExecute
    PROVE  IInv'
<1>1. TypeOK /\ TypeOK'
  BY WorkerType DEF IInv, WorkerStep
<1>2. PICK t \in Executables :
          /\ t \in queue /\ Due[t] <= tickNow
          /\ queue' = queue \ {t}
          /\ executed' = Append(executed, [id |-> t, at |-> now])
  BY DEF WorkerExecute, IsTop, IsDue
<1>3. UNCHANGED <<now, flagRun, worker, tickNow, wakeAt, begun, stopper, call,
                  cancelled>>
  BY DEF WorkerExecute
<1>4. /\ Executed' = Executed \cup {t}
      /\ Len(executed') = Len(executed) + 1
      /\ \A i \in 1..Len(executed) : executed'[i] = executed[i]
      /\ executed'[Len(executed')] = [id |-> t, at |-> now]
  BY <1>1, <1>2, ExecuteAppends
<1>5. Len(executed) \in Nat
  BY <1>1 DEF TypeOK
<1>6. OnePlace' /\ ClockBehind' /\ FlagIsOff'
  BY <1>2, <1>3, <1>4 DEF IInv, OnePlace, ClockBehind, FlagIsOff
<1>7. NotEarly'
  <2> SUFFICES ASSUME NEW i \in 1..Len(executed')
               PROVE  executed'[i].at >= Due[executed'[i].id]
    BY DEF NotEarly
  <2>1. CASE i = Len(executed')
    <3>1. Due[t] \in Nat /\ tickNow \in Nat /\ now \in Nat /\ tickNow <= now
      BY <1>1 DEF IInv, TypeOK, ClockBehind
    <3> QED
      BY <2>1, <3>1, <1>2, <1>4
  <2>2. CASE i # Len(executed')
    <3>1. i \in 1..Len(executed)
      BY <2>2, <1>4, <1>5
    <3> QED
      BY <3>1, <1>4 DEF IInv, ExecutedRightly, NotEarly
  <2> QED
    BY <2>1, <2>2
<1>8. ExecutedOnce'
  <2>1. t \notin Executed /\ t \notin cancelled
    BY <1>2 DEF IInv, OnePlace
  <2>2. \A i \in 1..Len(executed) : executed'[i].id # t
    BY <2>1, <1>4 DEF Executed
  <2>3. ASSUME NEW i \in 1..Len(executed'), NEW j \in 1..Len(executed'),
               executed'[i].id = executed'[j].id
        PROVE  i = j
    <3>1. \A k \in 1..Len(executed') : k = Len(executed') \/ k \in 1..Len(executed)
      BY <1>4, <1>5
    <3>2. CASE i \in 1..Len(executed) /\ j \in 1..Len(executed)
      BY <2>3, <3>2, <1>4 DEF IInv, ExecutedRightly, ExecutedOnce
    <3>3. CASE i = Len(executed') \/ j = Len(executed')
      BY <2>2, <2>3, <3>1, <3>3, <1>4
    <3> QED
      BY <3>1, <3>2, <3>3
  <2>4. (Executed \cap cancelled)' = {}
    BY <2>1, <1>3, <1>4 DEF IInv, ExecutedRightly, ExecutedOnce
  <2> QED
    BY <2>3, <2>4 DEF ExecutedOnce
<1>9. StoppedIsEmpty'
  BY <1>2, <1>3 DEF IInv, ExecutedRightly, StoppedIsEmpty
<1>10. SleepsForTheTop'
  BY <1>3 DEF WorkerExecute, Locked, SleepsForTheTop
<1> QED
  BY <1>1, <1>6, <1>7, <1>8, <1>9, <1>10 DEF IInv, ExecutedRightly

LEMMA ClockInv ==
    ASSUME IInv, ClockTicks
    PROVE  IInv'
<1>1. TypeOK /\ TypeOK'
  BY StepType DEF IInv, Next
<1>2. Executed' = Executed
  BY DEF ClockTicks, Executed
<1>3. OnePlace' /\ FlagIsOff' /\ ExecutedRightly'
  BY <1>2 DEF IInv, ClockTicks, OnePlace, FlagIsOff, ExecutedRightly, NotEarly,
              ExecutedOnce, StoppedIsEmpty
<1>4. ClockBehind'
  BY <1>1 DEF IInv, TypeOK, ClockTicks, ClockBehind
<1>5. SleepsForTheTop'
  BY DEF IInv, ClockTicks, SleepsForTheTop, IsTop
<1> QED
  BY <1>1, <1>3, <1>4, <1>5 DEF IInv

-----------------------------------------------------------------------------
LEMMA StepInv == IInv /\ [Next]_vars => IInv'
<1> SUFFICES ASSUME IInv, [Next]_vars PROVE IInv'
  OBVIOUS
<1>1. CASE UNCHANGED vars
  <2>1. Executed' = Executed
    BY <1>1 DEF vars, Executed
  <2> QED
    BY <1>1, <2>1, StepType
       DEF IInv, vars, OnePlace, ClockBehind, FlagIsOff, ExecutedRightly,
           NotEarly, ExecutedOnce, StoppedIsEmpty, SleepsForTheTop, IsTop
<1> QED
  BY <1>1, PushInv, CancelInv, StopperInv, WorkerInv, ExecuteInv, ClockInv
     DEF Next, WorkerStep

\* The stages of an executable and what the worker sleeps for (IInv) hold in
\* every reachable state.
THEOREM Invariant == Spec => []IInv
BY InitInv, StepInv, PTL DEF Spec

\* However callers, worker and process_destroy interleave, an executable is
\* executed in its time, once, and never after its cancelling; nothing is left
\* in the heap that process_destroy has cancelled.
THEOREM RightlyExecuted == Spec => []ExecutedRightly
<1>1. IInv => ExecutedRightly
  BY DEF IInv
<1> QED
  BY <1>1, Invariant, PTL

\* No notification is lost: the worker sleeps without a timeout only on an empty
\* heap, and with one no longer than until the executable now at the top is due,
\* apart from the time between its last look at the clock and its wait.
THEOREM NoLostWakeup == Spec => []SleepsForTheTop
<1>1. IInv => SleepsForTheTop
  BY DEF IInv
<1> QED
  BY <1>1, Invariant, PTL

-----------------------------------------------------------------------------
(* What the executor asks of its heap *)

EntryOf(t) == [id |-> t, tick |-> Due[t]]
LastExecuted ==
    IF executed = <<>> THEN {} ELSE {EntryOf(executed[Len(executed)].id)}
Used == INSTANCE TimerQueue
            WITH Timers <- Executables, Ticks <- 0..MaxTime,
                 entries <- {EntryOf(t) : t \in queue}, taken <- LastExecuted

LEMMA CallerUses ==
    ASSUME IInv, NEW t \in Executables, PostAt(t) \/ CancelExecutable(t)
    PROVE  [Used!QNext]_Used!qvars
<1>1. LastExecuted' = LastExecuted
  BY DEF PostAt, CancelExecutable, LastExecuted
<1>2. EntryOf(t) \in Used!Entry
  BY DEF EntryOf, Used!Entry
<1>3. CASE PostAt(t) /\ queue' = queue \cup {t}
  <2>1. t \notin queue
    BY <1>3 DEF IInv, OnePlace, PostAt
  <2>2. \A u \in queue : EntryOf(u).id # EntryOf(t).id
    BY <2>1 DEF EntryOf
  <2>3. Used!Schedule(EntryOf(t))
    BY <1>1, <1>3, <2>2 DEF Used!Schedule
  <2> QED
    BY <1>2, <2>3 DEF Used!QNext
<1>4. CASE PostAt(t) /\ queue' = queue
  BY <1>1, <1>4 DEF Used!qvars
<1>5. CASE CancelExecutable(t)
  <2>1. queue' = queue \ {t} /\ t \in queue
    BY <1>5 DEF CancelExecutable
  <2>2. {EntryOf(u) : u \in queue'} = {EntryOf(u) : u \in queue} \ {EntryOf(t)}
    BY <2>1 DEF EntryOf
  <2>3. Used!Remove(EntryOf(t))
    BY <1>1, <2>2 DEF Used!Remove
  <2> QED
    BY <2>1, <2>3 DEF Used!QNext
<1> QED
  BY <1>3, <1>4, <1>5 DEF PostAt

LEMMA ExecuteUses ==
    ASSUME IInv, WorkerExecute
    PROVE  Used!QNext
<1>1. PICK t \in Executables :
          /\ IsTop(t, queue) /\ queue' = queue \ {t}
          /\ executed' = Append(executed, [id |-> t, at |-> now])
  BY DEF WorkerExecute
<1>2. /\ executed' # <<>> /\ executed'[Len(executed')] = [id |-> t, at |-> now]
  BY <1>1, ExecuteAppends DEF IInv
<1>3. LastExecuted' = {EntryOf(t)}
  BY <1>2 DEF LastExecuted
<1>4. {EntryOf(u) : u \in queue'} = {EntryOf(u) : u \in queue} \ {EntryOf(t)}
  BY <1>1 DEF EntryOf
<1>5. \A u \in queue : EntryOf(t).tick <= EntryOf(u).tick
  BY <1>1 DEF IsTop, EntryOf
<1>6. Used!TakeEarliest(EntryOf(t)) /\ t \in queue
  BY <1>1, <1>3, <1>4, <1>5 DEF Used!TakeEarliest, IsTop
<1> QED
  BY <1>6 DEF Used!QNext

\* The executor treats its heap as the timer queue that TimerHeap implements:
\* it never pushes what is in it, always takes an earliest executable, and
\* what it took last is what it executed last.
THEOREM UsesATimerQueue == Spec => Used!QSpec
<1>1. Init => Used!QInit
  BY DEF Init, LastExecuted, Used!QInit
<1>2. IInv /\ [Next]_vars => [Used!QNext]_Used!qvars
  <2> SUFFICES ASSUME IInv, [Next]_vars PROVE [Used!QNext]_Used!qvars
    OBVIOUS
  <2>1. CASE UNCHANGED <<queue, executed>>
    BY <2>1 DEF Used!qvars, LastExecuted
  <2>2. CASE StopCancel
    <3>1. {EntryOf(t) : t \in queue'} = {} /\ LastExecuted' = LastExecuted
      BY <2>2 DEF StopCancel, LastExecuted
    <3>2. Used!RemoveAll
      BY <3>1 DEF Used!RemoveAll
    <3> QED
      BY <3>2 DEF Used!QNext
  <2>3. CASE WorkerExecute
    BY <2>3, ExecuteUses
  <2>4. CASE \E t \in Executables : PostAt(t) \/ CancelExecutable(t)
    BY <2>4, CallerUses
  <2>5. StopFlag \/ StopJoin \/ WorkerCheck \/ WorkerLock \/ WorkerResume
            \/ WorkerEmpty \/ WorkerWait \/ WaitEnds \/ ClockTicks \/ UNCHANGED vars
        => UNCHANGED <<queue, executed>>
    BY DEF StopFlag, StopJoin, WorkerCheck, WorkerLock, WorkerResume,
           WorkerEmpty, WorkerWait, WaitEnds, ClockTicks, vars
  <2> QED
    BY <2>1, <2>2, <2>3, <2>4, <2>5 DEF Next, StopStep, WorkerStep
<1> QED
  BY <1>1, <1>2, Invariant, PTL DEF Spec, Used!QSpec

=============================================================================
