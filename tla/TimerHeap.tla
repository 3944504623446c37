------------------------------ MODULE TimerHeap ------------------------------
(***************************************************************************)
(* The binary heap that executor::single and schedulable_manager each keep *)
(* in a std::vector, earliest tick first.  Positions are counted from 1    *)
(* here: the children of i are 2i and 2i + 1.  The three operations move a *)
(* hole along a path and drop an entry into the hole at its end; Holes and *)
(* HolesUp are those paths.                                                *)
(***************************************************************************)
EXTENDS Integers, Sequences

CONSTANTS Timers,      \* what is scheduled
          Ticks,       \* the points in time they may be due at
          CancelSize   \* bound: the largest heap that entries are cancelled in

ASSUME TicksAssumption == Ticks \subseteq Nat
ASSUME CancelSizeAssumption == CancelSize \in Nat

VARIABLES heap,    \* m_priorityqueue_executable, m_priorityqueue_schedulable
          taken    \* the last entry that was taken from the top

hvars == <<heap, taken>>

Entry == [id : Timers, tick : Ticks]
Ids(h) == {h[i].id : i \in 1..Len(h)}

\* The earlier one of the children at p and p + 1, the left one if equal.
SmallerChild(h, p) ==
    IF p < Len(h) /\ h[p].tick > h[p + 1].tick THEN p + 1 ELSE p

\* A bug: pop goes on below the left child, as cancel does.
BelowPopped_Left(p, c) == 2 * p
\* Where pop goes on: below the chosen child c of the pair at p.
BelowPopped(p, c) == 2 * c

\* Where cancel goes on: below the left child of the pair, whichever of them
\* was chosen.
BelowCancelled(p, c) == 2 * p

\* The children that move up while the hole for x moves down from the pair at p.
Holes(h, x, first, cancelling) ==
    LET path[p \in Nat \ {0}] ==
            IF p > Len(h) THEN <<>>
            ELSE LET c == SmallerChild(h, p) IN
                 IF x.tick <= h[c].tick THEN <<>>
                 ELSE <<c>> \o path[IF cancelling THEN BelowCancelled(p, c)
                                          ELSE BelowPopped(p, c)]
    IN path[first]

\* The parents that move down while the hole for x moves up from p.
HolesUp(h, x, first) ==
    LET path[p \in 1..first] ==
            IF p = 1 THEN <<>>
            ELSE IF h[p \div 2].tick <= x.tick THEN <<>>
            ELSE <<p \div 2>> \o path[p \div 2]
    IN path[first]

\* The entries on the path move one place along it, towards its start, and x
\* goes where the path ends.
Shifted(h, start, holes, x) ==
    LET path == <<start>> \o holes
        moved == [i \in 1..(Len(path) - 1) |-> h[path[i + 1]]] \o <<x>>
        On(p) == {i \in 1..Len(path) : path[i] = p}
    IN [p \in 1..Len(h) |->
            IF On(p) = {} THEN h[p] ELSE moved[CHOOSE i \in On(p) : TRUE]]

ButLast(h) == SubSeq(h, 1, Len(h) - 1)

Pushed(h, x) ==
    LET end == Len(h) + 1
        grown == Append(h, x)
    IN Shifted(grown, end, HolesUp(grown, x, end), x)

Popped(h) ==
    LET last == h[Len(h)]
        rest == ButLast(h)
    IN IF rest = <<>> THEN rest
       ELSE Shifted(rest, 1, Holes(rest, last, 2, FALSE), last)

\* A bug: the last entry never moves up from the place of a cancelled one.
Cancelled_Sinks(h, i) ==
    LET last == h[Len(h)]
        rest == ButLast(h)
    IN IF i = Len(h) THEN rest
       ELSE Shifted(rest, i, Holes(rest, last, 2 * i, TRUE), last)

\* A bug: the last entry is copied, and stays at the end as well.
Cancelled_Copied(h, i) == [h EXCEPT ![i] = h[Len(h)]]

\* The entry at i is replaced by the last one, which then moves up or down.
Cancelled(h, i) ==
    LET last == h[Len(h)]
        rest == ButLast(h)
        rises == i # 1 /\ rest[i \div 2].tick > last.tick
    IN IF i = Len(h) THEN rest
       ELSE Shifted(rest, i,
                    IF rises THEN HolesUp(rest, last, i)
                    ELSE Holes(rest, last, 2 * i, TRUE),
                    last)

-----------------------------------------------------------------------------
HInit == heap = <<>> /\ taken = {}

\* An executable or schedulable that is in the heap already is not pushed
\* again by its owner.
Push ==
    \E e \in Entry :
        /\ e.id \notin Ids(heap)
        /\ heap' = Pushed(heap, e)
        /\ UNCHANGED taken

Pop ==
    /\ heap # <<>>
    /\ taken' = {heap[1]}
    /\ heap' = Popped(heap)

Cancel ==
    /\ Len(heap) <= CancelSize
    /\ \E i \in 1..Len(heap) :
          /\ heap' = Cancelled(heap, i)
          /\ UNCHANGED taken

HNext == Push \/ Pop \/ Cancel
HSpec == HInit /\ [][HNext]_hvars

-----------------------------------------------------------------------------
(* Properties *)

\* The heap holds one entry for each timer in it.
HTypeOK ==
    /\ heap \in Seq(Entry)
    /\ taken \subseteq Entry
    /\ \A i, j \in 1..Len(heap) : heap[i].id = heap[j].id => i = j

\* No entry is earlier than its parent, after every push, pop and cancel: the
\* "up heap" and "down heap" of the code restore it.
HeapOrdered ==
    \A i \in 2..Len(heap) : heap[i \div 2].tick <= heap[i].tick

\* Seen as a set, the heap is a timer queue: no operation loses or duplicates
\* an entry, and what is taken from the top is an earliest one.
Queue == INSTANCE TimerQueue
             WITH entries <- {heap[i] : i \in 1..Len(heap)}
IsTimerQueue == Queue!QSpec
=============================================================================
