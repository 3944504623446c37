---------------------------- MODULE System_proofs ----------------------------
(***************************************************************************)
(* Proofs about System and the schedulable managers in it, for any set of  *)
(* schedulables, any intervals, bounds and settings: type correctness, and *)
(* the inductive invariant IInv from which ListsAgree,                     *)
(* InstanceLivesRightly and UnregisteredIsNotExecuted follow.              *)
(***************************************************************************)
EXTENDS System, FiniteSetTheorems, TLAPS

USE IntervalAssumption, BoundsAssumption, SettingsAssumption, ManagersAssumption

-----------------------------------------------------------------------------
(* The inductive invariant *)

Early == {"none", "flag", "threads", "executor"}
Flagged == {"scheduler", "ready", "stop_flag"}
Joined == {"stop_executor", "stop_io", "stop_threads", "destroyed"}

\* What a call has was ready: the instance is still, the manager may be stopped.
Started == Stages \ (Early \cup {"scheduler"})
HasStarted(c) ==
    /\ creator[c].point \in {"have", "publish"} =>
          creator[c].system # 0 /\ stage[creator[c].system] = "ready"
    /\ creator[c].point = "publish" => holder = c
    /\ creator[c].point \in {"copy", "publish"} => pinstance # 0
    /\ creator[c].point = "destroy" =>
          creator[c].system # 0 /\ stage[creator[c].system] \in Started
    /\ creator[c].point = "call" => creator[c].manager # 0
    /\ creator[c].manager # 0 => stage[creator[c].manager] \in Started

\* Who holds the lock initialises a system of its own, or waits for another to
\* be destroyed in whose place it comes.  The second system is created only when
\* there is an instance and nobody else is about to create one.
Creation ==
    /\ holder # 0 =>
          /\ creator[holder].system # 0
          /\ \/ /\ creator[holder].point = "create"
                /\ stage[creator[holder].system] \in Early \cup {"scheduler"}
                /\ stage[creator[holder].system] # "none"
             \/ creator[holder].point = "publish"
    /\ \A c \in Creators : HasStarted(c)
    /\ pinstance # 0 => stage[pinstance] \in Started
    /\ stage[1] # "none" =>
          /\ pinstance # 0 \/ holder # 0
          /\ \E c \in Creators : creator[c].point # "create" \/ holder = c
    /\ stage[2] # "none" =>
          /\ pinstance # 0
          /\ \A c \in Creators : creator[c].point # "create" \/ holder = c

\* A manager that is not there yet has nothing.
Blank(m) ==
    /\ registered[m] = {}
    /\ \A s \in Schedulables :
          /\ manager[s] # m /\ queue[m][s] = 0
          /\ \A k \in Slots : ticks[s][k].of # m

\* What a system's stage says of its threads and its manager.
StageOf(y) ==
    /\ run[y] <=> stage[y] \in Flagged
    /\ stage[y] \in Early => Blank(y) /\ worker[y].point = "none"
    /\ stage[y] \in Joined => worker[y].point = "done"
    /\ stage[y] \in {"stop_threads", "destroyed"} => ~ioRun[y]
    /\ stage[y] = "destroyed" /\ pinstance = y =>
          \A s \in Schedulables, k \in Slots : Handler(s, k) => ticks[s][k].of # y
Stage == \A y \in Managers : StageOf(y)

\* A schedulable that is registered has its manager, and no hook to be called.
Registration ==
    \A m \in Managers, s \in Schedulables :
        s \in registered[m] => manager[s] = m /\ hook[s] = "none"

\* Without registration during a tick a schedulable has one entry or one tick
\* on its way, in the manager it belongs to.
Once ==
    ~setting.overlaps => \A s \in Schedulables :
        /\ \A m \in Managers :
              /\ queue[m][s] \in 0..1
              /\ queue[m][s] > 0 => manager[s] = m /\ InFlight(s) = {}
              /\ run[m] /\ queue[m][s] > 0 => s \in registered[m]
        /\ \A k, l \in InFlight(s) : k = l

\* Nor is one forgotten, or executed too early or after it was unregistered.
OnItsWay(s, k) ==
    LET m == ticks[s][k].of IN
    /\ manager[s] \in {0, m}
    /\ run[m] /\ manager[s] = m => s \in registered[m]
    /\ ticks[s][k].point \in {"posted", "checked"} =>
          \/ s \in registered[m] /\ tick[s] <= now
          \/ s \notin registered[m] /\ (hook[s] # "none" \/ tick[s] = Never)
NotForgotten(s) ==
    \A m \in Managers :
        run[m] /\ s \in registered[m] /\ tick[s] # Never =>
           queue[m][s] > 0 \/ \E k \in InFlight(s) : ticks[s][k].of = m
Remembered ==
    ~setting.overlaps => \A s \in Schedulables :
        /\ \A k \in InFlight(s) : OnItsWay(s, k)
        /\ ~Fails("post") => NotForgotten(s)

\* The ticks on their way are some manager's; the worker looks at the past.
Threads ==
    /\ \A s \in Schedulables, k \in Slots :
          ticks[s][k].point = "none" <=> ticks[s][k].of = 0
    /\ \A m \in Managers : worker[m].point = "hold" => worker[m].at <= now

\* Every entry and every tick on its way comes from a registration.
Bounded ==
    \A s \in Schedulables :
        queue[1][s] + queue[2][s] + Cardinality(InFlight(s)) <= attaches

TickRecord == [point : TickPoints, of : Managers \cup {0}]

\* The types as far as they hold by themselves; Bounded gives the rest.
CoreTypeOK ==
    /\ setting \in Settings
    /\ now \in 0..MaxTick
    /\ run \in [Managers -> BOOLEAN]
    /\ registered \in [Managers -> SUBSET Schedulables]
    /\ queue \in [Managers -> [Schedulables -> Nat]]
    /\ worker \in [Managers -> [point : WorkerPoints, at : 0..(MaxTick + Never)]]
    /\ manager \in [Schedulables -> Managers \cup {0}]
    /\ tick \in [Schedulables -> {Wrapped} \cup 0..Never]
    /\ ticks \in [Schedulables -> [Slots -> TickRecord]]
    /\ hook \in [Schedulables -> {"none", "detach", "cancel"}]
    /\ attaches \in 0..MaxAttaches
    /\ crashed \in BOOLEAN

MInv ==
    /\ CoreTypeOK
    /\ Threads
    /\ Bounded
    /\ Registration
    /\ Once
    /\ Remembered
    /\ ManagedIsRegistered

SystemTypeOK ==
    /\ pinstance \in Managers \cup {0}
    /\ creator \in [Creators -> [point : CreatorPoints, system : Managers \cup {0},
                                 manager : Managers \cup {0}]]
    /\ stage \in [Managers -> Stages]
    /\ holder \in Creators \cup {0}
    /\ ioRun \in [Managers -> BOOLEAN]

IInv ==
    /\ MInv
    /\ SystemTypeOK
    /\ Creation
    /\ Stage

-----------------------------------------------------------------------------
(* What a step does to the queue, the ticks and the workers, point by point *)

\* The slots in use are few, and a step uses one more or one less.
LEMMA SlotsFinite ==
    ASSUME NEW S \in SUBSET Slots
    PROVE  IsFiniteSet(S) /\ Cardinality(S) \in 0..MaxAttaches
<1>1. IsFiniteSet(Slots) /\ Cardinality(Slots) = MaxAttaches
  BY FS_Interval, MaxAttaches \in Int, 1 \in Int DEF Slots
<1>2. IsFiniteSet(S) /\ Cardinality(S) <= MaxAttaches
  BY <1>1, FS_Subset
<1> QED
  BY <1>2, FS_CardinalityType

LEMMA SlotAdded ==
    ASSUME NEW S \in SUBSET Slots, NEW k \in Slots \ S
    PROVE  /\ S \cup {k} \in SUBSET Slots
           /\ Cardinality(S \cup {k}) = Cardinality(S) + 1
BY SlotsFinite, FS_AddElement

LEMMA SlotRemoved ==
    ASSUME NEW S \in SUBSET Slots, NEW k \in S
    PROVE  Cardinality(S \ {k}) = Cardinality(S) - 1
BY SlotsFinite, FS_RemoveElement

LEMMA SlotFree ==
    ASSUME NEW S \in SUBSET Slots, Cardinality(S) < MaxAttaches
    PROVE  \E k \in Slots : k \notin S
<1>1. Cardinality(Slots) = MaxAttaches
  BY FS_Interval, MaxAttaches \in Int, 1 \in Int DEF Slots
<1>2. S # Slots
  BY <1>1
<1> QED
  BY <1>2

\* The slot k of s, and with it what is in flight and what is executed.
TickChange(s, k, p, m) ==
    /\ ticks' \in [Schedulables -> [Slots -> TickRecord]]
    /\ ticks'[s][k].point = p /\ ticks'[s][k].of = m
    /\ \A t \in Schedulables, l \in Slots :
          t # s \/ l # k => ticks'[t][l] = ticks[t][l]

LEMMA TickChanged ==
    ASSUME ticks \in [Schedulables -> [Slots -> TickRecord]],
           NEW s \in Schedulables, NEW k \in Slots,
           NEW p \in TickPoints, NEW m \in Managers \cup {0},
           ticks' = [ticks EXCEPT ![s][k] = [point |-> p, of |-> m]]
    PROVE  TickChange(s, k, p, m)
<1> DEFINE r == [point |-> p, of |-> m]
<1>1. r \in TickRecord /\ r.point = p /\ r.of = m
  BY DEF TickRecord
<1>2. ticks' = [ticks EXCEPT ![s][k] = r]
  OBVIOUS
<1> HIDE DEF r
<1>3. /\ ticks' \in [Schedulables -> [Slots -> TickRecord]]
      /\ ticks'[s][k] = r
      /\ \A t \in Schedulables, l \in Slots :
            t # s \/ l # k => ticks'[t][l] = ticks[t][l]
  BY <1>1, <1>2
<1> QED
  BY <1>1, <1>3 DEF TickChange

LEMMA TickCounted ==
    ASSUME ticks \in [Schedulables -> [Slots -> TickRecord]],
           NEW s \in Schedulables, NEW k \in Slots,
           NEW p \in TickPoints, NEW m \in Managers \cup {0},
           ticks' = [ticks EXCEPT ![s][k] = [point |-> p, of |-> m]]
    PROVE  /\ \A t \in Schedulables :
                 t # s => InFlight(t)' = InFlight(t)
           /\ InFlight(s)' = IF p = "none" THEN InFlight(s) \ {k} ELSE InFlight(s) \cup {k}
<1>1. /\ ticks'[s][k].point = p
      /\ \A t \in Schedulables, l \in Slots :
            t # s \/ l # k => ticks'[t][l] = ticks[t][l]
  BY TickChanged DEF TickChange
<1>2. \A t \in Schedulables :
         t # s => InFlight(t)' = InFlight(t)
  BY <1>1 DEF InFlight
<1>3. InFlight(s)' = IF p = "none" THEN InFlight(s) \ {k} ELSE InFlight(s) \cup {k}
  BY <1>1 DEF InFlight
<1> QED
  BY <1>2, <1>3

LEMMA TickMoved ==
    ASSUME ticks \in [Schedulables -> [Slots -> TickRecord]],
           NEW s \in Schedulables, NEW k \in Slots, NEW p \in TickPoints,
           TickGoto(s, k, p)
    PROVE  ticks' = [ticks EXCEPT ![s][k] = [point |-> p, of |-> ticks[s][k].of]]
<1>1. ticks[s][k] \in TickRecord
  OBVIOUS
<1>2. [ticks[s][k] EXCEPT !.point = p] = [point |-> p, of |-> ticks[s][k].of]
  BY <1>1 DEF TickRecord
<1> QED
  BY <1>1, <1>2 DEF TickGoto, TickRecord

\* Notifying a worker wakes one that waits, and does nothing else.
Woken ==
    /\ worker' \in [Managers -> [point : WorkerPoints, at : 0..(MaxTick + Never)]]
    /\ \A n \in Managers :
          \/ worker'[n] = worker[n]
          \/ worker[n].point \in {"exist", "time"} /\ worker'[n].point = "woken"

LEMMA NotifyWakes ==
    ASSUME CoreTypeOK, NEW m \in Managers,
           Notify(m, "exist") \/ Notify(m, "time") \/ UNCHANGED worker
    PROVE  Woken
<1>1. worker \in [Managers -> [point : WorkerPoints, at : 0..(MaxTick + Never)]]
  BY DEF CoreTypeOK
<1>2. CASE worker' = worker
  BY <1>1, <1>2 DEF Woken
<1>3. CASE /\ worker[m].point \in {"exist", "time"}
           /\ worker' = [worker EXCEPT ![m].point = "woken"]
  BY <1>1, <1>3 DEF WorkerPoints, Woken
<1> QED
  BY <1>2, <1>3 DEF Notify

\* One entry of s more, or one less.
QueueChange(m, s, d) ==
    /\ queue' \in [Managers -> [Schedulables -> Nat]]
    /\ queue'[m][s] = queue[m][s] + d
    /\ \A n \in Managers, t \in Schedulables :
          n # m \/ t # s => queue'[n][t] = queue[n][t]
    /\ \A t \in Schedulables :
          queue'[1][t] + queue'[2][t] =
             queue[1][t] + queue[2][t] + (IF t = s THEN d ELSE 0)

LEMMA QueueChanged ==
    ASSUME CoreTypeOK, NEW m \in Managers, NEW s \in Schedulables, NEW d \in {-1, 1},
           queue' = [queue EXCEPT ![m][s] = @ + d], queue[m][s] + d >= 0
    PROVE  QueueChange(m, s, d)
<1>0. queue \in [Managers -> [Schedulables -> Nat]]
  BY DEF CoreTypeOK
<1>1. queue'[m][s] = queue[m][s] + d
  BY <1>0
<1>2. \A n \in Managers, t \in Schedulables :
         n # m \/ t # s => queue'[n][t] = queue[n][t]
  BY <1>0
<1>3. queue' \in [Managers -> [Schedulables -> Nat]]
  BY <1>0
<1>4. ASSUME NEW t \in Schedulables
      PROVE  queue'[1][t] + queue'[2][t] =
                queue[1][t] + queue[2][t] + (IF t = s THEN d ELSE 0)
  <2>1. queue[1][t] \in Nat /\ queue[2][t] \in Nat
    BY <1>0
  <2>2. CASE m = 1
    BY <1>1, <1>2, <2>1, <2>2
  <2>3. CASE m = 2
    BY <1>1, <1>2, <2>1, <2>3
  <2> QED
    BY <2>2, <2>3
<1> QED
  BY <1>1, <1>2, <1>3, <1>4 DEF QueueChange

\* _push_schedulable adds an entry, unless there is no next tick.
LEMMA PushAdds ==
    ASSUME CoreTypeOK, NEW m \in Managers, NEW s \in Schedulables, NEW at,
           PushSchedulable(m, s, at)
    PROVE  /\ Woken
           /\ at = Never => queue' = queue
           /\ at # Never => QueueChange(m, s, 1)
<1>1. CASE at = Never
  BY <1>1, NotifyWakes DEF PushSchedulable
<1>2. CASE at # Never
  <2>1. queue' = [queue EXCEPT ![m][s] = @ + 1] /\ NotifyPushed(m, s, at)
    BY <1>2 DEF PushSchedulable
  <2>2. queue[m][s] + 1 >= 0
    BY DEF CoreTypeOK
  <2> QED
    BY <1>2, <2>1, <2>2, QueueChanged, NotifyWakes DEF NotifyPushed
<1> QED
  BY <1>1, <1>2

LEMMA RemoveRemoves ==
    ASSUME CoreTypeOK, NEW m \in Managers, NEW s \in Schedulables, RemoveQueued(m, s)
    PROVE  /\ Woken
           /\ queue[m][s] = 0 => queue' = queue
           /\ queue[m][s] > 0 => QueueChange(m, s, -1)
<1>0. queue[m][s] \in Nat
  BY DEF CoreTypeOK
<1>1. CASE queue[m][s] = 0
  BY <1>0, <1>1, NotifyWakes DEF RemoveQueued, Queued
<1>2. CASE queue[m][s] > 0
  <2>1. /\ queue' = [queue EXCEPT ![m][s] = @ - 1]
        /\ Notify(m, "time") \/ UNCHANGED worker
    BY <1>2 DEF RemoveQueued, Queued
  <2>2. queue[m][s] - 1 = queue[m][s] + (-1) /\ queue[m][s] + (-1) >= 0
    BY <1>0, <1>2
  <2>3. queue' = [queue EXCEPT ![m][s] = @ + (-1)]
    BY <2>1, <2>2, Zenon
  <2>4. QueueChange(m, s, -1)
    BY <2>2, <2>3, QueueChanged
  <2>5. Woken
    BY <2>1, NotifyWakes
  <2> QED
    BY <1>2, <2>4, <2>5
<1> QED
  BY <1>0, <1>1, <1>2

\* What IInv says of the parts is what the type invariant asks for.
LEMMA BoundedIsTyped ==
    ASSUME CoreTypeOK, Bounded
    PROVE  ManagerTypeOK
<1>2. \A s \in Schedulables : Cardinality(InFlight(s)) \in 0..MaxAttaches
  BY SlotsFinite DEF InFlight
<1>3. queue \in [Managers -> [Schedulables -> 0..MaxAttaches]]
  <2>1. \A s \in Schedulables : queue[1][s] \in 0..MaxAttaches /\ queue[2][s] \in 0..MaxAttaches
    BY <1>2 DEF CoreTypeOK, Bounded
  <2>2. \A m \in Managers : queue[m] \in [Schedulables -> Nat]
    BY DEF CoreTypeOK
  <2> QED
    BY <2>1, <2>2 DEF CoreTypeOK
<1> QED
  BY <1>3 DEF CoreTypeOK, ManagerTypeOK, TickRecord

-----------------------------------------------------------------------------
(* The application's calls *)

\* Without overlaps a schedulable that has no manager is nowhere else.
LEMMA UnmanagedIsNowhere ==
    ASSUME MInv, NEW s \in Schedulables, manager[s] = 0
    PROVE  /\ \A n \in Managers : s \notin registered[n]
           /\ ~setting.overlaps => \A n \in Managers : queue[n][s] = 0
BY DEF MInv, CoreTypeOK, Registration, Once

LEMMA NeverIsLast ==
    /\ Never \in Nat /\ Wrapped \in Int /\ Wrapped < 0 /\ Never > MaxTick
BY DEF Never, Wrapped

\* Whatever the interval, the next tick is a time point.
LEMMA PlusIsTimePoint ==
    ASSUME NEW at \in Int, NEW d \in Int
    PROVE  Plus(at, d) \in {Wrapped} \cup 0..Never
BY NeverIsLast DEF Plus

LEMMA AttachKeeps ==
    ASSUME MInv, NEW m \in Managers, NEW s \in Schedulables, Attach(m, s)
    PROVE  MInv'
<1>1. /\ CoreTypeOK /\ Threads /\ Bounded /\ Registration /\ Once /\ Remembered
      /\ ManagedIsRegistered
  BY DEF MInv
<1> DEFINE at == Plus(now, Interval[s])
<1>2. at \in {Wrapped} \cup 0..Never
  BY <1>1, PlusIsTimePoint DEF CoreTypeOK
<1>p. tick' = [tick EXCEPT ![s] = at] /\ PushSchedulable(m, s, at)
  BY DEF Attach
<1> HIDE DEF at
<1>3. /\ Woken
      /\ at = Never => queue' = queue
      /\ at # Never => QueueChange(m, s, 1)
      /\ tick' = [tick EXCEPT ![s] = at]
  BY <1>1, <1>p, PushAdds
<1>q. /\ queue' \in [Managers -> [Schedulables -> Nat]]
      /\ queue'[m][s] = queue[m][s] + (IF at = Never THEN 0 ELSE 1)
      /\ \A n \in Managers, t \in Schedulables :
            n # m \/ t # s => queue'[n][t] = queue[n][t]
      /\ \A t \in Schedulables :
            queue'[1][t] + queue'[2][t] <=
               queue[1][t] + queue[2][t] + (IF t = s THEN 1 ELSE 0)
  <2>1. queue \in [Managers -> [Schedulables -> Nat]]
    BY <1>1 DEF CoreTypeOK
  <2>2. CASE at = Never
    BY <1>3, <2>1, <2>2
  <2>3. CASE at # Never
    BY <1>3, <2>1, <2>3 DEF QueueChange
  <2> QED
    BY <2>2, <2>3
<1>4. /\ attaches < setting.registers /\ attaches' = attaches + 1
      /\ manager' = [manager EXCEPT ![s] = m]
      /\ registered' = [registered EXCEPT ![m] = @ \cup {s}]
      /\ manager[s] = 0 /\ hook[s] = "none"
      /\ setting.overlaps \/ InFlight(s) = {}
      /\ UNCHANGED <<setting, now, run, ticks, hook, crashed>>
  BY DEF Attach, MayAttach
<1>5. /\ \A n \in Managers : s \notin registered[n]
      /\ ~setting.overlaps => \A n \in Managers : queue[n][s] = 0
  <2>1. manager[s] = 0
    BY <1>4
  <2> QED
    BY <2>1, UnmanagedIsNowhere
<1>6. \A t \in Schedulables : InFlight(t)' = InFlight(t)
  BY <1>4 DEF InFlight
<1>7. setting.registers \in 1..MaxAttaches
  BY <1>1 DEF CoreTypeOK
<1>a. CoreTypeOK'
  BY <1>1, <1>2, <1>3, <1>4, <1>7, <1>q DEF CoreTypeOK, Woken
<1>b. Threads'
  BY <1>1, <1>3, <1>4 DEF Threads, Woken, CoreTypeOK
<1>c. Bounded'
  <2> SUFFICES ASSUME NEW t \in Schedulables
               PROVE  queue'[1][t] + queue'[2][t] + Cardinality(InFlight(t)') <= attaches'
    BY DEF Bounded
  <2>1. Cardinality(InFlight(t)) \in 0..MaxAttaches
    BY SlotsFinite DEF InFlight
  <2>2. queue[1][t] \in Nat /\ queue[2][t] \in Nat /\ queue'[1][t] \in Nat /\ queue'[2][t] \in Nat
    BY <1>1, <1>q DEF CoreTypeOK
  <2>3. queue'[1][t] + queue'[2][t] <= queue[1][t] + queue[2][t] + (IF t = s THEN 1 ELSE 0)
    BY <1>q
  <2> QED
    BY <1>1, <1>4, <1>6, <2>1, <2>2, <2>3 DEF Bounded, CoreTypeOK
<1>d. Registration'
  <2>1. /\ \A t \in Schedulables \ {s}, n \in Managers :
              t \in registered'[n] => t \in registered[n]
        /\ \A n \in Managers : s \in registered'[n] => n = m
    BY <1>1, <1>4, <1>5 DEF CoreTypeOK
  <2> QED
    BY <1>1, <1>4, <2>1 DEF Registration, CoreTypeOK
<1>e. Once'
  BY <1>1, <1>4, <1>5, <1>6, <1>q DEF Once, CoreTypeOK
<1>f. Remembered'
  <2>1. /\ \A t \in Schedulables \ {s} : tick'[t] = tick[t] /\ manager'[t] = manager[t]
        /\ tick'[s] = at
        /\ \A t \in Schedulables \ {s}, n \in Managers :
              t \in registered'[n] <=> t \in registered[n]
        /\ \A n \in Managers : s \in registered'[n] => n = m
    BY <1>1, <1>3, <1>4, <1>5 DEF CoreTypeOK
  <2> SUFFICES ASSUME ~setting'.overlaps, NEW t \in Schedulables
               PROVE  /\ \A k \in InFlight(t)' : OnItsWay(t, k)'
                      /\ ~Fails("post")' => NotForgotten(t)'
    BY DEF Remembered
  <2>2. CASE t = s
    <3>1. InFlight(t)' = {}
      BY <1>4, <1>6, <2>2
    <3>2. ~Fails("post")' => NotForgotten(t)'
      BY <1>1, <1>q, <2>1, <2>2 DEF NotForgotten, CoreTypeOK
    <3> QED
      BY <3>1, <3>2
  <2>3. CASE t # s
    <3>1. \A k \in InFlight(t) : OnItsWay(t, k)
      BY <1>1, <1>4 DEF Remembered
    <3>2. \A k \in InFlight(t)' : OnItsWay(t, k)'
      BY <1>4, <1>6, <2>1, <2>3, <3>1 DEF OnItsWay, InFlight, CoreTypeOK
    <3>3. ~Fails("post")' => NotForgotten(t)'
      BY <1>1, <1>4, <1>6, <1>q, <2>1, <2>3 DEF Remembered, NotForgotten, Fails
    <3> QED
      BY <3>2, <3>3
  <2> QED
    BY <2>2, <2>3
<1>g. ManagedIsRegistered'
  BY <1>1, <1>4, <1>5 DEF ManagedIsRegistered, CoreTypeOK, Fails
<1> QED
  BY <1>a, <1>b, <1>c, <1>d, <1>e, <1>f, <1>g DEF MInv

LEMMA AttachRefusedKeeps ==
    ASSUME MInv, NEW m \in Managers, NEW s \in Schedulables, AttachRefused(m, s)
    PROVE  MInv'
<1>1. /\ CoreTypeOK /\ Threads /\ Bounded /\ Registration /\ Once /\ Remembered
      /\ ManagedIsRegistered
  BY DEF MInv
<1>2. /\ attaches < setting.registers /\ attaches' = attaches + 1 /\ Fails("refuse")
      /\ manager' = [manager EXCEPT ![s] = m]
      /\ manager[s] = 0
      /\ setting.overlaps \/ InFlight(s) = {}
      /\ UNCHANGED <<setting, now, run, registered, queue, worker, tick, ticks,
                     hook, crashed>>
  BY DEF AttachRefused, MayAttach
<1>3. /\ \A n \in Managers : s \notin registered[n]
      /\ ~setting.overlaps => \A n \in Managers : queue[n][s] = 0
  <2>1. manager[s] = 0
    BY <1>2
  <2> QED
    BY <2>1, UnmanagedIsNowhere
<1>4. \A t \in Schedulables : InFlight(t)' = InFlight(t)
  BY <1>2 DEF InFlight
<1>5. setting.registers \in 1..MaxAttaches
  BY <1>1 DEF CoreTypeOK
<1>a. CoreTypeOK'
  BY <1>1, <1>2, <1>5 DEF CoreTypeOK
<1>b. Threads'
  BY <1>1, <1>2 DEF Threads
<1>c. Bounded'
  <2>1. \A t \in Schedulables : Cardinality(InFlight(t)) \in 0..MaxAttaches
    BY SlotsFinite DEF InFlight
  <2> QED
    BY <1>1, <1>2, <1>4, <2>1 DEF Bounded, CoreTypeOK
<1>d. Registration'
  BY <1>1, <1>2, <1>3 DEF Registration, CoreTypeOK
<1>e. Once'
  BY <1>1, <1>2, <1>3, <1>4 DEF Once, CoreTypeOK
<1>f. Remembered'
  BY <1>1, <1>2, <1>3, <1>4 DEF Remembered, OnItsWay, NotForgotten, CoreTypeOK, InFlight, Fails
<1>g. ManagedIsRegistered'
  BY <1>2 DEF ManagedIsRegistered, Fails
<1> QED
  BY <1>a, <1>b, <1>c, <1>d, <1>e, <1>f, <1>g DEF MInv

LEMMA AttachThrowsKeeps ==
    ASSUME MInv, NEW m \in Managers, NEW s \in Schedulables, AttachThrows(m, s)
    PROVE  MInv'
<1>1. /\ CoreTypeOK /\ Threads /\ Bounded /\ Registration /\ Once /\ Remembered
      /\ ManagedIsRegistered
  BY DEF MInv
<1> DEFINE at == Plus(now, Interval[s])
<1>2. at \in {Wrapped} \cup 0..Never
  BY <1>1, PlusIsTimePoint DEF CoreTypeOK
<1>3. /\ attaches < setting.registers /\ attaches' = attaches + 1
      /\ tick' = [tick EXCEPT ![s] = at]
      /\ manager[s] = 0
      /\ setting.overlaps \/ InFlight(s) = {}
      /\ UNCHANGED <<setting, now, run, registered, queue, worker, manager, ticks,
                     hook, crashed>>
  BY DEF AttachThrows, MayAttach
<1>4. \A n \in Managers : s \notin registered[n]
  <2>1. manager[s] = 0
    BY <1>3
  <2> QED
    BY <2>1, UnmanagedIsNowhere
<1>5. \A t \in Schedulables : InFlight(t)' = InFlight(t)
  BY <1>3 DEF InFlight
<1>6. setting.registers \in 1..MaxAttaches
  BY <1>1 DEF CoreTypeOK
<1> HIDE DEF at
<1>a. CoreTypeOK'
  BY <1>1, <1>2, <1>3, <1>6 DEF CoreTypeOK
<1>b. Threads'
  BY <1>1, <1>3 DEF Threads
<1>c. Bounded'
  <2>1. \A t \in Schedulables : Cardinality(InFlight(t)) \in 0..MaxAttaches
    BY SlotsFinite DEF InFlight
  <2> QED
    BY <1>1, <1>3, <1>5, <2>1 DEF Bounded, CoreTypeOK
<1>d. Registration'
  BY <1>1, <1>3, <1>4 DEF Registration, CoreTypeOK
<1>e. Once'
  BY <1>1, <1>3, <1>5 DEF Once
<1>f. Remembered'
  BY <1>1, <1>3, <1>4, <1>5 DEF Remembered, OnItsWay, NotForgotten, CoreTypeOK, InFlight, Fails
<1>g. ManagedIsRegistered'
  BY <1>1, <1>3 DEF ManagedIsRegistered, Fails
<1> QED
  BY <1>a, <1>b, <1>c, <1>d, <1>e, <1>f, <1>g DEF MInv

LEMMA DetachKeeps ==
    ASSUME MInv, NEW m \in Managers, NEW s \in Schedulables, Detach(m, s)
    PROVE  MInv'
<1>1. /\ CoreTypeOK /\ Threads /\ Bounded /\ Registration /\ Once /\ Remembered
      /\ ManagedIsRegistered
  BY DEF MInv
<1>2. /\ manager[s] = m /\ s \in registered[m]
      /\ registered' = [registered EXCEPT ![m] = @ \ {s}]
      /\ manager' = [manager EXCEPT ![s] = 0]
      /\ hook' = [hook EXCEPT ![s] = "detach"]
      /\ UNCHANGED <<setting, now, run, tick, ticks, attaches, crashed>>
  BY DEF Detach
<1>3. /\ Woken
      /\ queue[m][s] = 0 => queue' = queue
      /\ queue[m][s] > 0 => QueueChange(m, s, -1)
  BY <1>1, RemoveRemoves DEF Detach
<1>4. /\ queue' \in [Managers -> [Schedulables -> Nat]]
      /\ queue[m][s] = 0 => queue'[m][s] = 0
      /\ queue[m][s] > 0 => queue'[m][s] = queue[m][s] - 1
      /\ \A n \in Managers, t \in Schedulables :
            n # m \/ t # s => queue'[n][t] = queue[n][t]
      /\ \A t \in Schedulables :
            queue'[1][t] + queue'[2][t] <= queue[1][t] + queue[2][t]
  <2>1. queue \in [Managers -> [Schedulables -> Nat]]
    BY <1>1 DEF CoreTypeOK
  <2>2. CASE queue[m][s] = 0
    BY <1>3, <2>1, <2>2
  <2>3. CASE queue[m][s] > 0
    BY <1>3, <2>1, <2>3 DEF QueueChange
  <2> QED
    BY <2>1, <2>2, <2>3
<1>5. \A t \in Schedulables : InFlight(t)' = InFlight(t)
  BY <1>2 DEF InFlight
<1>6. \A n \in Managers : n # m => s \notin registered[n]
  BY <1>1, <1>2 DEF Registration
<1>a. CoreTypeOK'
  BY <1>1, <1>2, <1>3, <1>4 DEF CoreTypeOK, Woken
<1>b. Threads'
  BY <1>1, <1>2, <1>3 DEF Threads, Woken, CoreTypeOK
<1>c. Bounded'
  <2> SUFFICES ASSUME NEW t \in Schedulables
               PROVE  queue'[1][t] + queue'[2][t] + Cardinality(InFlight(t)) <= attaches
    BY <1>1, <1>2, <1>5 DEF Bounded
  <2>1. Cardinality(InFlight(t)) \in 0..MaxAttaches
    BY SlotsFinite DEF InFlight
  <2>2. queue[1][t] \in Nat /\ queue[2][t] \in Nat
    BY <1>1 DEF CoreTypeOK
  <2>3. queue'[1][t] \in Nat /\ queue'[2][t] \in Nat
    BY <1>4
  <2> QED
    BY <1>1, <1>4, <2>1, <2>2, <2>3 DEF Bounded, CoreTypeOK
<1>d. Registration'
  BY <1>1, <1>2, <1>6 DEF Registration, CoreTypeOK
<1>e. Once'
  <2> SUFFICES ASSUME ~setting.overlaps, NEW t \in Schedulables
               PROVE  /\ \A n \in Managers :
                            /\ queue'[n][t] \in 0..1
                            /\ queue'[n][t] > 0 => manager'[t] = n /\ InFlight(t) = {}
                            /\ run[n] /\ queue'[n][t] > 0 => t \in registered'[n]
                      /\ \A k, l \in InFlight(t) : k = l
    BY <1>2, <1>5 DEF Once
  <2>1. CASE t = s
    <3>1. /\ \A n \in Managers : queue[n][s] \in 0..1
          /\ \A n \in Managers : queue[n][s] > 0 => n = m
          /\ \A k, l \in InFlight(s) : k = l
      BY <1>1, <1>2 DEF Once
    <3>2. \A n \in Managers \ {m} : queue'[n][s] = 0
      BY <1>4, <3>1
    <3>3. queue'[m][s] = 0
      BY <1>4, <3>1
    <3>4. \A n \in Managers : queue'[n][s] = 0
      BY <3>2, <3>3
    <3> QED
      BY <2>1, <3>1, <3>4
  <2>2. CASE t # s
    <3>1. manager'[t] = manager[t]
      BY <1>1, <1>2, <2>2 DEF CoreTypeOK
    <3>2. \A n \in Managers : queue'[n][t] = queue[n][t]
      BY <1>4, <2>2
    <3>3. \A n \in Managers : t \in registered[n] => t \in registered'[n]
      BY <1>1, <1>2, <2>2 DEF CoreTypeOK
    <3> QED
      BY <1>1, <3>1, <3>2, <3>3 DEF Once
  <2> QED
    BY <2>1, <2>2
<1>f. Remembered'
  <2> SUFFICES ASSUME ~setting.overlaps, NEW t \in Schedulables
               PROVE  /\ \A k \in InFlight(t) : OnItsWay(t, k)'
                      /\ ~Fails("post") => NotForgotten(t)'
    BY <1>2, <1>5 DEF Remembered, Fails
  <2>1. CASE t = s
    <3>1. \A n \in Managers : s \notin registered'[n]
      BY <1>1, <1>2, <1>4, <1>5, <1>6, <2>1 DEF CoreTypeOK
    <3>2. hook'[s] # "none" \/ tick'[s] = Never
      BY <1>1, <1>2, <1>4, <1>5, <1>6, <2>1 DEF CoreTypeOK
    <3>3. ASSUME NEW k \in InFlight(t)
          PROVE  OnItsWay(t, k)'
      <4>1. ticks[t][k].of \in Managers
        BY <1>1 DEF Threads, CoreTypeOK, TickRecord, InFlight
      <4> QED
        BY <1>1, <1>2, <1>4, <1>5, <1>6, <2>1, <3>1, <3>2, <4>1 DEF OnItsWay, Remembered, CoreTypeOK
    <3> QED
      BY <2>1, <3>1, <3>3 DEF NotForgotten
  <2>2. CASE t # s
    BY <1>1, <1>2, <1>4, <1>5, <2>2
       DEF Remembered, OnItsWay, NotForgotten, CoreTypeOK, InFlight
  <2> QED
    BY <2>1, <2>2
<1>g. ManagedIsRegistered'
  BY <1>1, <1>2 DEF ManagedIsRegistered, CoreTypeOK, Fails
<1> QED
  BY <1>a, <1>b, <1>c, <1>d, <1>e, <1>f, <1>g DEF MInv

LEMMA OnUnregisterKeeps ==
    ASSUME MInv, NEW s \in Schedulables, OnUnregister(s)
    PROVE  MInv'
<1>1. /\ CoreTypeOK /\ Threads /\ Bounded /\ Registration /\ Once /\ Remembered
      /\ ManagedIsRegistered
  BY DEF MInv
<1>2. /\ hook[s] # "none"
      /\ tick' = [tick EXCEPT ![s] = Never]
      /\ hook' = [hook EXCEPT ![s] = "none"]
      /\ UNCHANGED <<setting, now, run, registered, queue, worker, manager, ticks,
                     attaches, crashed>>
  BY DEF OnUnregister
<1>3. \A n \in Managers : s \notin registered[n]
  BY <1>1, <1>2 DEF Registration
<1>4. \A t \in Schedulables : InFlight(t)' = InFlight(t)
  BY <1>2 DEF InFlight
<1>a. CoreTypeOK'
  BY <1>1, <1>2, NeverIsLast DEF CoreTypeOK
<1>b. Threads'
  BY <1>1, <1>2 DEF Threads
<1>c. Bounded'
  BY <1>1, <1>2, <1>4 DEF Bounded, CoreTypeOK
<1>d. Registration'
  BY <1>1, <1>2, <1>3 DEF Registration, CoreTypeOK
<1>e. Once'
  BY <1>1, <1>2, <1>4 DEF Once
<1>f. Remembered'
  <2> SUFFICES ASSUME ~setting.overlaps, NEW t \in Schedulables
               PROVE  /\ \A k \in InFlight(t) : OnItsWay(t, k)'
                      /\ ~Fails("post") => NotForgotten(t)'
    BY <1>2, <1>4 DEF Remembered, Fails
  <2>1. CASE t = s
    <3>1. \A n \in Managers : s \notin registered'[n]
      BY <1>1, <1>2, <1>3, <1>4, <2>1 DEF CoreTypeOK
    <3>2. hook'[s] # "none" \/ tick'[s] = Never
      BY <1>1, <1>2, <1>3, <1>4, <2>1 DEF CoreTypeOK
    <3>3. ASSUME NEW k \in InFlight(t)
          PROVE  OnItsWay(t, k)'
      <4>1. ticks[t][k].of \in Managers
        BY <1>1 DEF Threads, CoreTypeOK, TickRecord, InFlight
      <4> QED
        BY <1>1, <1>2, <1>3, <1>4, <2>1, <3>1, <3>2, <4>1 DEF OnItsWay, Remembered, CoreTypeOK
    <3> QED
      BY <2>1, <3>1, <3>3 DEF NotForgotten
  <2>2. CASE t # s
    BY <1>1, <1>2, <1>4, <2>2
       DEF Remembered, OnItsWay, NotForgotten, CoreTypeOK, InFlight
  <2> QED
    BY <2>1, <2>2
<1>g. ManagedIsRegistered'
  BY <1>1, <1>2 DEF ManagedIsRegistered, Fails
<1> QED
  BY <1>a, <1>b, <1>c, <1>d, <1>e, <1>f, <1>g DEF MInv

-----------------------------------------------------------------------------
(* The worker and the clock *)

\* Where the worker is matters to the invariant only for the time it holds.
LEMMA WorkerMoves ==
    ASSUME MInv, NEW m \in Managers, NEW p \in WorkerPoints,
           NEW at \in 0..(MaxTick + Never),
           WorkerGoto(m, p, at), p = "hold" => at <= now,
           UNCHANGED <<Others, queue, ticks, crashed>>
    PROVE  MInv'
<1>1. /\ CoreTypeOK /\ Threads /\ Bounded /\ Registration /\ Once /\ Remembered
      /\ ManagedIsRegistered
  BY DEF MInv
<1>2. UNCHANGED <<setting, now, run, registered, manager, tick, hook, attaches,
                  queue, ticks, crashed>>
  BY DEF Others
<1>3. \A t \in Schedulables : InFlight(t)' = InFlight(t)
  BY <1>2 DEF InFlight
<1>4. /\ worker' \in [Managers -> [point : WorkerPoints, at : 0..(MaxTick + Never)]]
      /\ \A n \in Managers : worker'[n] = IF n = m THEN [point |-> p, at |-> at] ELSE worker[n]
  BY <1>1 DEF WorkerGoto, CoreTypeOK
<1>a. CoreTypeOK'
  BY <1>1, <1>2, <1>4 DEF CoreTypeOK
<1>b. Threads'
  BY <1>1, <1>2, <1>4 DEF Threads
<1>c. Bounded'
  BY <1>1, <1>2, <1>3 DEF Bounded
<1>d. Registration'
  BY <1>1, <1>2 DEF Registration
<1>e. Once'
  BY <1>1, <1>2, <1>3 DEF Once
<1>f. Remembered'
  BY <1>1, <1>2, <1>3 DEF Remembered, OnItsWay, NotForgotten, Fails
<1>g. ManagedIsRegistered'
  BY <1>1, <1>2 DEF ManagedIsRegistered, Fails
<1> QED
  BY <1>a, <1>b, <1>c, <1>d, <1>e, <1>f, <1>g DEF MInv

LEMMA WorkerMovesKeep ==
    ASSUME MInv, NEW m \in Managers,
           \/ WorkerCheck(m) \/ WorkerLock(m) \/ SpuriousWakeup(m) \/ Timeout(m)
           \/ WorkerResume(m) \/ WorkerEmpty(m) \/ WorkerWait(m)
    PROVE  MInv'
<1>1. /\ now \in 0..(MaxTick + Never) /\ 0 \in 0..(MaxTick + Never)
      /\ now <= now /\ now \in 0..MaxTick
  BY NeverIsLast DEF MInv, CoreTypeOK
<1>2. CASE WorkerCheck(m)
  BY <1>1, <1>2, WorkerMoves DEF WorkerCheck, WorkerPoints
<1>3. CASE WorkerLock(m)
  BY <1>1, <1>3, WorkerMoves DEF WorkerLock, WorkerPoints
<1>4. CASE SpuriousWakeup(m)
  BY <1>1, <1>4, WorkerMoves DEF SpuriousWakeup, WorkerPoints
<1>5. CASE Timeout(m)
  BY <1>1, <1>5, WorkerMoves DEF Timeout, WorkerPoints
<1>6. CASE WorkerResume(m)
  BY <1>1, <1>6, WorkerMoves DEF WorkerResume, WorkerPoints
<1>7. CASE WorkerEmpty(m)
  BY <1>1, <1>7, WorkerMoves DEF WorkerEmpty, WorkerPoints
<1>8. CASE WorkerWait(m)
  <2>1. PICK s \in Schedulables :
          /\ tick[s] > worker[m].at
          /\ WorkerGoto(m, "time", now + (tick[s] - worker[m].at))
    BY <1>8 DEF WorkerWait
  <2>2. /\ tick[s] \in {Wrapped} \cup 0..Never
        /\ worker[m].at \in 0..(MaxTick + Never) /\ worker[m].at <= now
    BY <1>8 DEF MInv, CoreTypeOK, Threads, WorkerWait, WorkerAt
  <2>3. now + (tick[s] - worker[m].at) \in 0..(MaxTick + Never)
    BY <1>1, <2>1, <2>2, NeverIsLast
  <2> QED
    BY <1>8, <2>1, <2>3, WorkerMoves DEF WorkerWait, WorkerPoints
<1> QED
  BY <1>2, <1>3, <1>4, <1>5, <1>6, <1>7, <1>8

\* There is a slot for the entry that is popped.
LEMMA SlotForPopped ==
    ASSUME MInv, NEW m \in Managers, NEW s \in Schedulables, queue[m][s] > 0
    PROVE  \E k \in Slots : k \notin InFlight(s)
<1>1. InFlight(s) \in SUBSET Slots
  BY DEF InFlight
<1>2. Cardinality(InFlight(s)) \in 0..MaxAttaches
  BY <1>1, SlotsFinite
<1>3. queue[1][s] \in Nat /\ queue[2][s] \in Nat /\ attaches \in 0..MaxAttaches
  BY DEF MInv, CoreTypeOK
<1>4. queue[1][s] + queue[2][s] > 0
  BY <1>3
<1>5. Cardinality(InFlight(s)) < MaxAttaches
  BY <1>2, <1>3, <1>4 DEF MInv, Bounded
<1> QED
  BY <1>1, <1>5, SlotFree

LEMMA PoppedTakes ==
    ASSUME MInv, NEW m \in Managers, NEW s \in Schedulables, IsDue(m, s), Popped(m, s)
    PROVE  /\ QueueChange(m, s, -1)
           /\ queue[m][s] > 0
           /\ tick[s] <= worker[m].at
<1>0. CoreTypeOK /\ queue[m][s] \in Nat
  BY DEF MInv, CoreTypeOK
<1>1. queue[m][s] > 0 /\ tick[s] <= worker[m].at
  BY DEF IsDue, IsTop, Queued
<1>2. queue[m][s] - 1 = queue[m][s] + (-1) /\ queue[m][s] + (-1) >= 0
  BY <1>0, <1>1
<1>3. queue' = [queue EXCEPT ![m][s] = @ + (-1)]
  BY <1>2, Zenon DEF Popped
<1> QED
  BY <1>0, <1>1, <1>2, <1>3, QueueChanged

\* An entry that is lost, though that of a registered one only to an exception.
LEMMA EntryLost ==
    ASSUME MInv, NEW m \in Managers, NEW s \in Schedulables,
           queue' \in [Managers -> [Schedulables -> Nat]],
           queue'[m][s] = queue[m][s] - 1,
           \A n \in Managers, t \in Schedulables :
              n # m \/ t # s => queue'[n][t] = queue[n][t],
           \A t \in Schedulables :
              queue'[1][t] + queue'[2][t] =
                queue[1][t] + queue[2][t] + (IF t = s THEN -1 ELSE 0),
           Fails("post") \/ s \notin registered[m],
           worker' \in [Managers -> [point : WorkerPoints, at : 0..(MaxTick + Never)]],
           \A n \in Managers : worker'[n].point = "hold" => worker'[n].at <= now,
           crashed' \in BOOLEAN,
           UNCHANGED <<setting, now, run, registered, manager, tick, hook, attaches, ticks>>
    PROVE  MInv'
<1>1. /\ CoreTypeOK /\ Threads /\ Bounded /\ Registration /\ Once /\ Remembered
      /\ ManagedIsRegistered
  BY DEF MInv
<1>2. \A t \in Schedulables : InFlight(t)' = InFlight(t)
  BY DEF InFlight
<1>3. \A n \in Managers, t \in Schedulables : queue'[n][t] <= queue[n][t]
  <2> SUFFICES ASSUME NEW n \in Managers, NEW t \in Schedulables
               PROVE  queue'[n][t] <= queue[n][t]
    OBVIOUS
  <2>1. queue[n][t] \in Nat
    BY <1>1 DEF CoreTypeOK
  <2>2. CASE n = m /\ t = s
    BY <2>1, <2>2
  <2>3. CASE n # m \/ t # s
    BY <2>1, <2>3
  <2> QED
    BY <2>2, <2>3
<1>a. CoreTypeOK'
  BY <1>1 DEF CoreTypeOK
<1>b. Threads'
  BY <1>1 DEF Threads
<1>c. Bounded'
  <2> SUFFICES ASSUME NEW t \in Schedulables
               PROVE  queue'[1][t] + queue'[2][t] + Cardinality(InFlight(t)) <= attaches
    BY <1>1, <1>2 DEF Bounded
  <2>1. Cardinality(InFlight(t)) \in 0..MaxAttaches
    BY SlotsFinite DEF InFlight
  <2>2. queue[1][t] \in Nat /\ queue[2][t] \in Nat
    BY <1>1 DEF CoreTypeOK
  <2>3. queue'[1][t] + queue'[2][t] <= queue[1][t] + queue[2][t]
    <3>1. 1 \in Managers /\ 2 \in Managers
      OBVIOUS
    <3>2. /\ queue'[1][t] <= queue[1][t] /\ queue'[2][t] <= queue[2][t]
          /\ queue'[1][t] \in Nat /\ queue'[2][t] \in Nat
      BY <1>3, <3>1
    <3> QED
      BY <2>2, <3>2
  <2> QED
    BY <1>1, <2>1, <2>2, <2>3 DEF Bounded, CoreTypeOK
<1>d. Registration'
  BY <1>1 DEF Registration
<1>e. Once'
  BY <1>1, <1>2, <1>3 DEF Once, CoreTypeOK
<1>f. Remembered'
  BY <1>1, <1>2 DEF Remembered, OnItsWay, NotForgotten, Fails
<1>g. ManagedIsRegistered'
  BY <1>1 DEF ManagedIsRegistered, Fails
<1> QED
  BY <1>a, <1>b, <1>c, <1>d, <1>e, <1>f, <1>g DEF MInv

LEMMA WorkerPostKeeps ==
    ASSUME MInv, NEW m \in Managers, WorkerPost(m)
    PROVE  MInv'
<1>1. /\ CoreTypeOK /\ Threads /\ Bounded /\ Registration /\ Once /\ Remembered
      /\ ManagedIsRegistered
  BY DEF MInv
<1>2. PICK s \in Schedulables :
        /\ IsDue(m, s) /\ Popped(m, s)
        /\ \/ /\ s \in registered[m]
              /\ LET k == CHOOSE k \in Slots \ InFlight(s) : TRUE
                 IN ticks' = [ticks EXCEPT ![s][k] = [point |-> "posted", of |-> m]]
              /\ UNCHANGED crashed
           \/ /\ s \notin registered[m]
              /\ crashed' = TRUE
              /\ UNCHANGED ticks
  BY DEF WorkerPost
<1>3. /\ worker[m].point = "hold"
      /\ UNCHANGED <<setting, now, run, registered, manager, tick, hook, attaches, worker>>
  BY DEF WorkerPost, WorkerAt, Others
<1>4. QueueChange(m, s, -1) /\ queue[m][s] > 0 /\ tick[s] <= worker[m].at
  BY <1>2, PoppedTakes
<1>5. tick[s] <= now /\ worker[m].at <= now
  <2>1. tick[s] \in Int /\ now \in Int /\ worker[m].at \in Int
    BY <1>1 DEF CoreTypeOK, Wrapped, Never
  <2> QED
    BY <1>1, <1>3, <1>4, <2>1 DEF Threads
<1>6. /\ queue' \in [Managers -> [Schedulables -> Nat]]
      /\ queue'[m][s] = queue[m][s] - 1
      /\ \A n \in Managers, t \in Schedulables :
            n # m \/ t # s => queue'[n][t] = queue[n][t]
      /\ \A t \in Schedulables :
            queue'[1][t] + queue'[2][t] =
              queue[1][t] + queue[2][t] + (IF t = s THEN -1 ELSE 0)
  BY <1>1, <1>4 DEF QueueChange, CoreTypeOK
<1>7. CASE s \in registered[m]
  <2>1. PICK k \in Slots :
          /\ k \notin InFlight(s)
          /\ ticks' = [ticks EXCEPT ![s][k] = [point |-> "posted", of |-> m]]
    <3>1. \E k \in Slots : k \notin InFlight(s)
      BY <1>4, SlotForPopped
    <3> DEFINE free == CHOOSE k \in Slots \ InFlight(s) : TRUE
    <3>2. free \in Slots /\ free \notin InFlight(s)
      BY <3>1
    <3>3. ticks' = [ticks EXCEPT ![s][free] = [point |-> "posted", of |-> m]]
      BY <1>2, <1>7
    <3> HIDE DEF free
    <3> QED
      BY <3>2, <3>3
  <2>2. crashed' = crashed
    BY <1>2, <1>7
  <2>3. /\ ticks' \in [Schedulables -> [Slots -> TickRecord]]
        /\ ticks'[s][k].point = "posted" /\ ticks'[s][k].of = m
        /\ \A t \in Schedulables, l \in Slots :
              t # s \/ l # k => ticks'[t][l] = ticks[t][l]
    <3>1. TickChange(s, k, "posted", m)
      BY <1>1, <2>1, TickChanged DEF CoreTypeOK, TickPoints
    <3> QED
      BY <3>1 DEF TickChange
  <2>4. /\ \A t \in Schedulables : t # s => InFlight(t)' = InFlight(t)
        /\ InFlight(s)' = InFlight(s) \cup {k}
    BY <1>1, <2>1, TickCounted DEF CoreTypeOK, TickPoints
  <2>6. ~setting.overlaps =>
          /\ InFlight(s)' = {k}
          /\ manager[s] = m
          /\ \A n \in Managers : queue'[n][s] = 0
    <3>1. ~setting.overlaps => InFlight(s) = {} /\ manager[s] = m
      BY <1>1, <1>4 DEF Once
    <3>2. ~setting.overlaps => \A n \in Managers : queue[n][s] \in 0..1
                                  /\ (n # m => queue[n][s] = 0)
      BY <1>1, <3>1 DEF Once
    <3> QED
      BY <1>4, <1>6, <2>4, <3>1, <3>2
  <2>a. CoreTypeOK'
    BY <1>1, <1>3, <1>6, <2>2, <2>3 DEF CoreTypeOK
  <2>b. Threads'
    BY <1>1, <1>3, <2>1, <2>3 DEF Threads
  <2>c. Bounded'
    <3> SUFFICES ASSUME NEW t \in Schedulables
                 PROVE  queue'[1][t] + queue'[2][t] + Cardinality(InFlight(t)') <= attaches
      BY <1>1, <1>3 DEF Bounded
    <3>1. Cardinality(InFlight(t)) \in 0..MaxAttaches
      BY SlotsFinite DEF InFlight
    <3>2. Cardinality(InFlight(s) \cup {k}) = Cardinality(InFlight(s)) + 1
      <4>1. InFlight(s) \in SUBSET Slots
        BY DEF InFlight
      <4> QED
        BY <2>1, <4>1, SlotAdded
    <3>3. queue[1][t] \in Nat /\ queue[2][t] \in Nat
      BY <1>1 DEF CoreTypeOK
    <3>4. queue'[1][t] + queue'[2][t] = queue[1][t] + queue[2][t] + (IF t = s THEN -1 ELSE 0)
      BY <1>6
    <3>5. Cardinality(InFlight(t)') = Cardinality(InFlight(t)) + (IF t = s THEN 1 ELSE 0)
      <4>1. CASE t = s
        BY <2>4, <3>2, <4>1
      <4>2. CASE t # s
        <5>1. InFlight(t)' = InFlight(t)
          BY <2>4, <4>2
        <5> QED
          BY <3>1, <4>2, <5>1
      <4> QED
        BY <4>1, <4>2
    <3> QED
      BY <1>1, <3>1, <3>3, <3>4, <3>5 DEF Bounded, CoreTypeOK
  <2>d. Registration'
    BY <1>1, <1>3 DEF Registration
  <2>e. Once'
    <3> SUFFICES ASSUME ~setting.overlaps, NEW t \in Schedulables
                 PROVE  /\ \A n \in Managers :
                              /\ queue'[n][t] \in 0..1
                              /\ queue'[n][t] > 0 => manager[t] = n /\ InFlight(t)' = {}
                              /\ run[n] /\ queue'[n][t] > 0 => t \in registered[n]
                        /\ \A i, j \in InFlight(t)' : i = j
      BY <1>3 DEF Once
    <3>1. CASE t = s
      BY <2>6, <3>1
    <3>2. CASE t # s
      <4>1. InFlight(t)' = InFlight(t) /\ \A n \in Managers : queue'[n][t] = queue[n][t]
        BY <1>6, <2>4, <3>2
      <4> QED
        BY <1>1, <4>1 DEF Once
    <3> QED
      BY <3>1, <3>2
  <2>f. Remembered'
    <3> SUFFICES ASSUME ~setting.overlaps, NEW t \in Schedulables
                 PROVE  /\ \A i \in InFlight(t)' : OnItsWay(t, i)'
                        /\ ~Fails("post") => NotForgotten(t)'
      BY <1>3 DEF Remembered, Fails
    <3>1. CASE t = s
      <4>1. OnItsWay(s, k)'
        BY <1>1, <1>3, <1>5, <1>7, <2>3 DEF OnItsWay, Registration
      <4>2. NotForgotten(s)'
        BY <1>1, <1>3, <1>7, <2>3, <2>6 DEF NotForgotten, Registration
      <4> QED
        BY <2>6, <3>1, <4>1, <4>2
    <3>2. CASE t # s
      <4>1. /\ InFlight(t)' = InFlight(t) /\ \A n \in Managers : queue'[n][t] = queue[n][t]
            /\ \A l \in Slots : ticks'[t][l] = ticks[t][l]
        BY <1>6, <2>3, <2>4, <3>2
      <4> QED
        BY <1>1, <1>3, <4>1 DEF Remembered, OnItsWay, NotForgotten, InFlight
    <3> QED
      BY <3>1, <3>2
  <2>g. ManagedIsRegistered'
    BY <1>1, <1>3 DEF ManagedIsRegistered, Fails
  <2> QED
    BY <2>a, <2>b, <2>c, <2>d, <2>e, <2>f, <2>g DEF MInv
<1>8. CASE s \notin registered[m]
  <2>1. crashed' \in BOOLEAN /\ ticks' = ticks
    BY <1>2, <1>8
  <2>2. /\ worker' \in [Managers -> [point : WorkerPoints, at : 0..(MaxTick + Never)]]
        /\ \A n \in Managers : worker'[n].point = "hold" => worker'[n].at <= now
    BY <1>1, <1>3 DEF CoreTypeOK, Threads
  <2> QED
    BY <1>3, <1>6, <1>8, <2>1, <2>2, EntryLost
<1> QED
  BY <1>7, <1>8

LEMMA WorkerPostThrowsKeeps ==
    ASSUME MInv, NEW m \in Managers, WorkerPostThrows(m)
    PROVE  MInv'
<1>1. PICK s \in registered[m] : IsDue(m, s) /\ Popped(m, s)
  BY DEF WorkerPostThrows
<1>2. s \in Schedulables
  BY DEF MInv, CoreTypeOK
<1>3. /\ Fails("post") /\ WorkerGoto(m, "check", 0)
      /\ UNCHANGED <<setting, now, run, registered, manager, tick, hook, attaches, ticks, crashed>>
  BY DEF WorkerPostThrows, Others
<1>4. QueueChange(m, s, -1)
  BY <1>1, <1>2, PoppedTakes
<1>5. /\ queue' \in [Managers -> [Schedulables -> Nat]]
      /\ queue'[m][s] = queue[m][s] - 1
      /\ \A n \in Managers, t \in Schedulables :
            n # m \/ t # s => queue'[n][t] = queue[n][t]
      /\ \A t \in Schedulables :
            queue'[1][t] + queue'[2][t] =
              queue[1][t] + queue[2][t] + (IF t = s THEN -1 ELSE 0)
  BY <1>2, <1>4 DEF QueueChange, MInv, CoreTypeOK
<1>6. /\ worker' \in [Managers -> [point : WorkerPoints, at : 0..(MaxTick + Never)]]
      /\ \A n \in Managers : worker'[n].point = "hold" => worker'[n].at <= now
  BY <1>3, NeverIsLast DEF WorkerGoto, MInv, CoreTypeOK, Threads, WorkerPoints
<1>7. crashed' \in BOOLEAN
  BY <1>3 DEF MInv, CoreTypeOK
<1> QED
  BY <1>2, <1>3, <1>5, <1>6, <1>7, EntryLost

LEMMA ClockTicksKeeps ==
    ASSUME MInv, ClockTicks
    PROVE  MInv'
<1>1. /\ CoreTypeOK /\ Threads /\ Bounded /\ Registration /\ Once /\ Remembered
      /\ ManagedIsRegistered
  BY DEF MInv
<1>0. setting.until \in 0..MaxTick
  BY <1>1, SettingsAssumption DEF CoreTypeOK
<1>2. /\ now < MaxTick /\ now' = now + 1
      /\ UNCHANGED <<setting, run, registered, queue, worker, manager, tick, ticks,
                     hook, attaches, crashed>>
  <2>1. /\ now < setting.until /\ now' = now + 1
        /\ UNCHANGED <<setting, run, registered, queue, worker, manager, tick, ticks,
                       hook, attaches, crashed>>
    BY DEF ClockTicks
  <2>2. now \in 0..MaxTick /\ MaxTick \in Nat
    BY <1>1, BoundsAssumption DEF CoreTypeOK
  <2> QED
    BY <1>0, <2>1, <2>2
<1>3. \A t \in Schedulables : InFlight(t)' = InFlight(t)
  BY <1>2 DEF InFlight
<1>a. CoreTypeOK'
  BY <1>1, <1>2 DEF CoreTypeOK
<1>b. Threads'
  BY <1>1, <1>2 DEF Threads, CoreTypeOK
<1>c. Bounded'
  BY <1>1, <1>2, <1>3 DEF Bounded
<1>d. Registration'
  BY <1>1, <1>2 DEF Registration
<1>e. Once'
  BY <1>1, <1>2, <1>3 DEF Once
<1>f. Remembered'
  <2>1. \A t \in Schedulables : tick[t] <= now => tick[t] <= now'
    BY <1>1, <1>2 DEF CoreTypeOK, Wrapped
  <2> QED
    BY <1>1, <1>2, <1>3, <2>1 DEF Remembered, OnItsWay, NotForgotten, Fails
<1>g. ManagedIsRegistered'
  BY <1>1, <1>2 DEF ManagedIsRegistered, Fails
<1> QED
  BY <1>a, <1>b, <1>c, <1>d, <1>e, <1>f, <1>g DEF MInv

-----------------------------------------------------------------------------
(* A tick on its way *)

LEMMA TickIsSomeones ==
    ASSUME MInv, NEW s \in Schedulables, NEW k \in Slots, ticks[s][k].point # "none"
    PROVE  /\ ticks[s][k].of \in Managers
           /\ k \in InFlight(s)
           /\ ~setting.overlaps =>
                 /\ InFlight(s) = {k}
                 /\ \A n \in Managers : queue[n][s] = 0
<1>1. ticks[s][k].of \in Managers /\ k \in InFlight(s)
  BY DEF MInv, CoreTypeOK, TickRecord, Threads, InFlight
<1>2. ~setting.overlaps => InFlight(s) = {k}
  BY <1>1 DEF MInv, Once
<1>3. ~setting.overlaps => \A n \in Managers : queue[n][s] = 0
  BY <1>1 DEF MInv, Once
<1> QED
  BY <1>1, <1>2, <1>3

\* One slot of s is given back; nothing of another schedulable moves.
LEMMA TickGivenBack ==
    ASSUME MInv, NEW s \in Schedulables, NEW k \in Slots, ticks[s][k].point # "none",
           TickEnds(s, k)
    PROVE  /\ ticks' \in [Schedulables -> [Slots -> TickRecord]]
           /\ ticks'[s][k].point = "none" /\ ticks'[s][k].of = 0
           /\ \A t \in Schedulables, l \in Slots :
                 t # s \/ l # k => ticks'[t][l] = ticks[t][l]
           /\ \A t \in Schedulables : t # s => InFlight(t)' = InFlight(t)
           /\ InFlight(s)' = InFlight(s) \ {k}
           /\ \A t \in Schedulables :
                 /\ Cardinality(InFlight(t)') = Cardinality(InFlight(t)) - (IF t = s THEN 1 ELSE 0)
                 /\ Cardinality(InFlight(t)) \in 0..MaxAttaches
<1>1. ticks \in [Schedulables -> [Slots -> TickRecord]]
  BY DEF MInv, CoreTypeOK
<1>2. ticks' = [ticks EXCEPT ![s][k] = [point |-> "none", of |-> 0]]
  BY DEF TickEnds
<1>3. "none" \in TickPoints /\ 0 \in Managers \cup {0}
  BY DEF TickPoints
<1>4. /\ ticks' \in [Schedulables -> [Slots -> TickRecord]]
      /\ ticks'[s][k].point = "none" /\ ticks'[s][k].of = 0
      /\ \A t \in Schedulables, l \in Slots :
            t # s \/ l # k => ticks'[t][l] = ticks[t][l]
  <2>1. TickChange(s, k, "none", 0)
    BY <1>1, <1>2, <1>3, TickChanged
  <2> QED
    BY <2>1 DEF TickChange
<1>5. /\ \A t \in Schedulables :
            t # s => InFlight(t)' = InFlight(t)
      /\ InFlight(s)' = InFlight(s) \ {k}
  BY <1>1, <1>2, <1>3, TickCounted
<1>6. ASSUME NEW t \in Schedulables
      PROVE  /\ Cardinality(InFlight(t)') = Cardinality(InFlight(t)) - (IF t = s THEN 1 ELSE 0)
             /\ Cardinality(InFlight(t)) \in 0..MaxAttaches
  <2>1. InFlight(t) \in SUBSET Slots
    BY DEF InFlight
  <2>2. Cardinality(InFlight(t)) \in 0..MaxAttaches
    BY <2>1, SlotsFinite
  <2>3. CASE t = s
    <3>1. k \in InFlight(t)
      BY <2>3, TickIsSomeones
    <3>2. Cardinality(InFlight(t) \ {k}) = Cardinality(InFlight(t)) - 1
      BY <2>1, <3>1, SlotRemoved
    <3> QED
      BY <1>5, <2>2, <2>3, <3>2
  <2>4. CASE t # s
    <3>1. InFlight(t)' = InFlight(t)
      BY <1>5, <2>4
    <3> QED
      BY <2>2, <2>4, <3>1
  <2> QED
    BY <2>3, <2>4
<1> QED
  BY <1>4, <1>5, <1>6

\* A tick ends without another: its schedulable is not registered any more, or
\* has no next tick.
LEMMA TickDropped ==
    ASSUME MInv, NEW s \in Schedulables, NEW k \in Slots, ticks[s][k].point # "none",
           TickEnds(s, k),
           setting.overlaps \/ s \notin registered[ticks[s][k].of] \/ tick[s] = Never,
           UNCHANGED <<setting, now, run, registered, manager, tick, hook, attaches,
                       queue, worker, crashed>>
    PROVE  MInv'
<1>1. /\ CoreTypeOK /\ Threads /\ Bounded /\ Registration /\ Once /\ Remembered
      /\ ManagedIsRegistered
  BY DEF MInv
<1>2. /\ ticks' \in [Schedulables -> [Slots -> TickRecord]]
      /\ ticks'[s][k].point = "none" /\ ticks'[s][k].of = 0
      /\ \A t \in Schedulables, l \in Slots :
            t # s \/ l # k => ticks'[t][l] = ticks[t][l]
  BY TickGivenBack
<1>3. /\ \A t \in Schedulables : t # s => InFlight(t)' = InFlight(t)
      /\ InFlight(s)' = InFlight(s) \ {k}
  BY TickGivenBack
<1>4. ~setting.overlaps =>
         InFlight(s)' = {} /\ InFlight(s) = {k} /\ \A n \in Managers : queue[n][s] = 0
  BY <1>3, TickIsSomeones
<1>a. CoreTypeOK'
  BY <1>1, <1>2 DEF CoreTypeOK
<1>b. Threads'
  BY <1>1, <1>2 DEF Threads
<1>c. Bounded'
  <2> SUFFICES ASSUME NEW t \in Schedulables
               PROVE  queue[1][t] + queue[2][t] + Cardinality(InFlight(t)') <= attaches
    BY DEF Bounded
  <2>1. /\ Cardinality(InFlight(t)') <= Cardinality(InFlight(t))
        /\ Cardinality(InFlight(t)) \in Int /\ Cardinality(InFlight(t)') \in Int
    BY TickGivenBack
  <2>2. queue[1][t] \in Nat /\ queue[2][t] \in Nat /\ attaches \in Int
    BY <1>1 DEF CoreTypeOK
  <2> QED
    BY <1>1, <2>1, <2>2 DEF Bounded
<1>d. Registration'
  BY <1>1 DEF Registration
<1>e. Once'
  BY <1>1, <1>3, <1>4 DEF Once
<1>f. Remembered'
  <2> SUFFICES ASSUME ~setting.overlaps, NEW t \in Schedulables
               PROVE  /\ \A i \in InFlight(t)' : OnItsWay(t, i)'
                      /\ ~Fails("post") => NotForgotten(t)'
    BY DEF Remembered, Fails
  <2>1. CASE t = s
    <3>1. ~Fails("post") => NotForgotten(s)'
      BY <1>1, <1>4 DEF Remembered, NotForgotten
    <3> QED
      BY <1>4, <2>1, <3>1
  <2>2. CASE t # s
    <3>1. /\ InFlight(t)' = InFlight(t)
          /\ \A l \in Slots : ticks'[t][l] = ticks[t][l]
      BY <1>2, <1>3, <2>2
    <3> QED
      BY <1>1, <3>1 DEF Remembered, OnItsWay, NotForgotten, InFlight
  <2> QED
    BY <2>1, <2>2
<1>g. ManagedIsRegistered'
  BY <1>1 DEF ManagedIsRegistered, Fails
<1> QED
  BY <1>a, <1>b, <1>c, <1>d, <1>e, <1>f, <1>g DEF MInv

\* A tick goes on with its manager; what it executes may put off the next one.
LEMMA TickGoesOn ==
    ASSUME MInv, NEW s \in Schedulables, NEW k \in Slots, ticks[s][k].point # "none",
           NEW p \in {"checked", "executing", "again"}, TickGoto(s, k, p),
           p = "checked" => ticks[s][k].point = "posted" /\ tick'[s] = tick[s],
           tick' \in [Schedulables -> {Wrapped} \cup 0..Never],
           \A t \in Schedulables : t # s => tick'[t] = tick[t],
           UNCHANGED <<setting, now, run, registered, manager, hook, attaches,
                       queue, worker, crashed>>
    PROVE  MInv'
<1>1. /\ CoreTypeOK /\ Threads /\ Bounded /\ Registration /\ Once /\ Remembered
      /\ ManagedIsRegistered
  BY DEF MInv
<1> DEFINE m == ticks[s][k].of
<1>2. m \in Managers /\ k \in InFlight(s) /\ (~setting.overlaps => InFlight(s) = {k})
  BY TickIsSomeones
<1>3. /\ ticks' \in [Schedulables -> [Slots -> TickRecord]]
      /\ ticks'[s][k].point = p /\ ticks'[s][k].of = m
      /\ \A t \in Schedulables, l \in Slots :
            t # s \/ l # k => ticks'[t][l] = ticks[t][l]
      /\ \A t \in Schedulables : InFlight(t)' = InFlight(t)
  <2>1. ticks \in [Schedulables -> [Slots -> TickRecord]] /\ p \in TickPoints /\ p # "none"
    BY <1>1 DEF CoreTypeOK, TickPoints
  <2>2. ticks' = [ticks EXCEPT ![s][k] = [point |-> p, of |-> m]]
    BY <2>1, TickMoved
  <2>3. /\ ticks' \in [Schedulables -> [Slots -> TickRecord]]
        /\ ticks'[s][k].point = p /\ ticks'[s][k].of = m
        /\ \A t \in Schedulables, l \in Slots :
              t # s \/ l # k => ticks'[t][l] = ticks[t][l]
    <3>1. TickChange(s, k, p, m)
      BY <1>2, <2>1, <2>2, TickChanged
    <3> QED
      BY <3>1 DEF TickChange
  <2>4. \A t \in Schedulables : InFlight(t)' = InFlight(t)
    <3>1. /\ \A t \in Schedulables : t # s => InFlight(t)' = InFlight(t)
          /\ InFlight(s)' = InFlight(s) \cup {k}
      BY <1>2, <2>1, <2>2, TickCounted
    <3> QED
      BY <1>2, <3>1
  <2> QED
    BY <2>3, <2>4
<1>a. CoreTypeOK'
  BY <1>1, <1>3 DEF CoreTypeOK
<1>b. Threads'
  BY <1>1, <1>2, <1>3 DEF Threads
<1>c. Bounded'
  BY <1>1, <1>3 DEF Bounded
<1>d. Registration'
  BY <1>1 DEF Registration
<1>e. Once'
  BY <1>1, <1>3 DEF Once
<1>f. Remembered'
  <2> SUFFICES ASSUME ~setting.overlaps, NEW t \in Schedulables
               PROVE  /\ \A i \in InFlight(t) : OnItsWay(t, i)'
                      /\ ~Fails("post") => NotForgotten(t)'
    BY <1>3 DEF Remembered, Fails
  <2>1. \A i \in InFlight(t) : i \in Slots /\ ticks'[t][i].of = ticks[t][i].of
    BY <1>3 DEF InFlight
  <2>3. CASE t = s
    <3>1. OnItsWay(s, k)
      BY <1>1, <1>2 DEF Remembered
    <3>2. OnItsWay(s, k)'
      BY <1>3, <3>1 DEF OnItsWay
    <3>3. NotForgotten(s)'
      BY <1>1, <1>2, <1>3, <3>1 DEF NotForgotten, Registration, OnItsWay
    <3> QED
      BY <1>2, <2>3, <3>2, <3>3
  <2>4. CASE t # s
    <3>1. /\ \A i \in InFlight(t) : OnItsWay(t, i)
          /\ \A i \in Slots : ticks'[t][i] = ticks[t][i]
          /\ tick'[t] = tick[t]
      BY <1>1, <1>3, <2>4 DEF Remembered
    <3>2. ~Fails("post") => NotForgotten(t)'
      BY <1>1, <1>3, <2>1, <3>1 DEF Remembered, NotForgotten
    <3> QED
      BY <2>1, <3>1, <3>2 DEF OnItsWay
  <2> QED
    BY <2>3, <2>4
<1>g. ManagedIsRegistered'
  BY <1>1 DEF ManagedIsRegistered, Fails
<1> QED
  BY <1>a, <1>b, <1>c, <1>d, <1>e, <1>f, <1>g DEF MInv

LEMMA TickCheckKeeps ==
    ASSUME MInv, NEW s \in Schedulables, NEW k \in Slots, TickCheck(s, k)
    PROVE  MInv'
<1>1. /\ CoreTypeOK /\ Threads /\ Bounded /\ Registration /\ Once /\ Remembered
      /\ ManagedIsRegistered
  BY DEF MInv
<1>2. /\ ticks[s][k].point = "posted" /\ ticks[s][k].point # "none"
      /\ UNCHANGED <<setting, now, run, registered, manager, tick, hook, attaches,
                     queue, worker, crashed>>
  BY DEF TickCheck, TickAt, Others
<1>3. ticks[s][k].of \in Managers
  BY <1>2, TickIsSomeones
<1>4. CASE manager[s] # ticks[s][k].of \/ tick[s] = Never
  <2>1. TickEnds(s, k)
    BY <1>4 DEF TickCheck
  <2>2. s \notin registered[ticks[s][k].of] \/ tick[s] = Never
    BY <1>1, <1>3, <1>4 DEF Registration
  <2> QED
    BY <1>2, <2>1, <2>2, TickDropped
<1>5. CASE ~(manager[s] # ticks[s][k].of \/ tick[s] = Never)
  <2>1. TickGoto(s, k, "checked")
    BY <1>5 DEF TickCheck
  <2>3. tick \in [Schedulables -> {Wrapped} \cup 0..Never]
    BY <1>1 DEF CoreTypeOK
  <2> QED
    BY <1>2, <2>1, <2>3, TickGoesOn
<1> QED
  BY <1>4, <1>5

LEMMA TickStartsKeeps ==
    ASSUME MInv, NEW s \in Schedulables, NEW k \in Slots, TickStarts(s, k)
    PROVE  MInv'
<1>1. /\ CoreTypeOK /\ Threads /\ Bounded /\ Registration /\ Once /\ Remembered
      /\ ManagedIsRegistered
  BY DEF MInv
<1>2. /\ ticks[s][k].point = "checked" /\ ticks[s][k].point # "none"
      /\ UNCHANGED <<setting, now, run, registered, manager, tick, hook, attaches,
                     queue, worker, crashed>>
  BY DEF TickStarts, TickAt, Others
<1>3. ticks[s][k].of \in Managers /\ k \in InFlight(s)
  BY <1>2, TickIsSomeones
<1>4. now \in 0..MaxTick /\ tick[s] \in Int
  BY <1>1 DEF CoreTypeOK, Wrapped
<1>5. CASE now < tick[s]
  <2>1. TickEnds(s, k)
    BY <1>5 DEF TickStarts
  <2>2. setting.overlaps \/ s \notin registered[ticks[s][k].of]
    <3>1. ~setting.overlaps => OnItsWay(s, k)
      BY <1>1, <1>3 DEF Remembered
    <3> QED
      BY <1>2, <1>4, <1>5, <3>1 DEF OnItsWay
  <2> QED
    BY <1>2, <2>1, <2>2, TickDropped
<1>6. CASE ~(now < tick[s])
  <2>1. TickGoto(s, k, "executing")
    BY <1>6 DEF TickStarts
  <2>3. tick \in [Schedulables -> {Wrapped} \cup 0..Never]
    BY <1>1 DEF CoreTypeOK
  <2> QED
    BY <1>2, <2>1, <2>3, TickGoesOn
<1> QED
  BY <1>5, <1>6

LEMMA TickExecutedKeeps ==
    ASSUME MInv, NEW s \in Schedulables, NEW k \in Slots, TickExecuted(s, k)
    PROVE  MInv'
<1>1. /\ CoreTypeOK /\ Threads /\ Bounded /\ Registration /\ Once /\ Remembered
      /\ ManagedIsRegistered
  BY DEF MInv
<1>2. /\ ticks[s][k].point = "executing" /\ ticks[s][k].point # "none"
      /\ TickGoto(s, k, "again")
      /\ tick' = [tick EXCEPT ![s] = NextTick(s)]
      /\ UNCHANGED <<setting, now, run, registered, queue, worker, manager, hook,
                     attaches, crashed>>
  BY DEF TickExecuted, TickAt
<1>3. NextTick(s) \in {Wrapped} \cup 0..Never
  <2>1. tick[s] \in Int /\ Interval[s] \in Int
    BY <1>1, NeverIsLast DEF CoreTypeOK
  <2> QED
    BY <2>1, PlusIsTimePoint DEF NextTick
<1>4. /\ tick' \in [Schedulables -> {Wrapped} \cup 0..Never]
      /\ \A t \in Schedulables : t # s => tick'[t] = tick[t]
  BY <1>1, <1>2, <1>3 DEF CoreTypeOK
<1> QED
  BY <1>2, <1>4, TickGoesOn

LEMMA TickAgainKeeps ==
    ASSUME MInv, NEW s \in Schedulables, NEW k \in Slots, TickAgain(s, k)
    PROVE  MInv'
<1>1. /\ CoreTypeOK /\ Threads /\ Bounded /\ Registration /\ Once /\ Remembered
      /\ ManagedIsRegistered
  BY DEF MInv
<1> DEFINE m == ticks[s][k].of
<1>2. /\ ticks[s][k].point = "again" /\ ticks[s][k].point # "none"
      /\ TickEnds(s, k)
      /\ UNCHANGED <<setting, now, run, registered, manager, tick, hook, attaches, crashed>>
  BY DEF TickAgain, TickAt, Others
<1>3. /\ m \in Managers /\ k \in InFlight(s)
      /\ ~setting.overlaps => InFlight(s) = {k} /\ \A n \in Managers : queue[n][s] = 0
  BY <1>2, TickIsSomeones
<1>4. CASE manager[s] # m
  <2>1. UNCHANGED <<queue, worker>>
    BY <1>4 DEF TickAgain
  <2>2. s \notin registered[m]
    BY <1>1, <1>3, <1>4 DEF Registration
  <2> QED
    BY <1>2, <2>1, <2>2, TickDropped
<1>5. CASE manager[s] = m /\ tick[s] = Never
  <2>1. UNCHANGED <<queue, worker>>
    BY <1>5 DEF TickAgain, PushSchedulable
  <2> QED
    BY <1>2, <1>5, <2>1, TickDropped
<1>6. CASE manager[s] = m /\ tick[s] # Never
  <2>1. /\ Woken
        /\ QueueChange(m, s, 1)
    <3>1. PushSchedulable(m, s, tick[s])
      BY <1>6 DEF TickAgain
    <3> QED
      BY <1>1, <1>3, <1>6, <3>1, PushAdds
  <2>2. /\ ticks' \in [Schedulables -> [Slots -> TickRecord]]
        /\ ticks'[s][k].point = "none" /\ ticks'[s][k].of = 0
        /\ \A t \in Schedulables, l \in Slots :
              t # s \/ l # k => ticks'[t][l] = ticks[t][l]
    BY <1>2, TickGivenBack
  <2>3. /\ \A t \in Schedulables : t # s => InFlight(t)' = InFlight(t)
        /\ InFlight(s)' = InFlight(s) \ {k}
    BY <1>2, TickGivenBack
  <2>4. /\ queue' \in [Managers -> [Schedulables -> Nat]]
        /\ queue'[m][s] = queue[m][s] + 1
        /\ \A n \in Managers, t \in Schedulables :
              n # m \/ t # s => queue'[n][t] = queue[n][t]
        /\ \A t \in Schedulables :
              queue'[1][t] + queue'[2][t] =
                queue[1][t] + queue[2][t] + (IF t = s THEN 1 ELSE 0)
    BY <2>1 DEF QueueChange
  <2>a. CoreTypeOK'
    BY <1>1, <1>2, <2>1, <2>2, <2>4 DEF CoreTypeOK, Woken
  <2>b. Threads'
    BY <1>1, <1>2, <2>1, <2>2 DEF Threads, Woken
  <2>c. Bounded'
    <3> SUFFICES ASSUME NEW t \in Schedulables
                 PROVE  queue'[1][t] + queue'[2][t] + Cardinality(InFlight(t)') <= attaches
      BY <1>2 DEF Bounded
    <3>1. /\ Cardinality(InFlight(t)') = Cardinality(InFlight(t)) - (IF t = s THEN 1 ELSE 0)
          /\ Cardinality(InFlight(t)) \in Int
      BY <1>2, TickGivenBack
    <3>2. queue[1][t] \in Nat /\ queue[2][t] \in Nat /\ attaches \in Int
      BY <1>1 DEF CoreTypeOK
    <3>3. queue'[1][t] + queue'[2][t] = queue[1][t] + queue[2][t] + (IF t = s THEN 1 ELSE 0)
      BY <2>4
    <3> QED
      BY <1>1, <3>1, <3>2, <3>3 DEF Bounded
  <2>d. Registration'
    BY <1>1, <1>2 DEF Registration
  <2>e. Once'
    <3> SUFFICES ASSUME ~setting.overlaps, NEW t \in Schedulables
                 PROVE  /\ \A n \in Managers :
                              /\ queue'[n][t] \in 0..1
                              /\ queue'[n][t] > 0 => manager[t] = n /\ InFlight(t)' = {}
                              /\ run[n] /\ queue'[n][t] > 0 => t \in registered[n]
                        /\ \A i, j \in InFlight(t)' : i = j
      BY <1>2 DEF Once
    <3>1. CASE t = s
      <4>1. InFlight(s)' = {} /\ \A n \in Managers : queue'[n][s] = IF n = m THEN 1 ELSE 0
        BY <1>3, <2>3, <2>4
      <4>2. run[m] => s \in registered[m]
        <5>1. OnItsWay(s, k)
          BY <1>1, <1>3 DEF Remembered
        <5> QED
          BY <1>6, <5>1 DEF OnItsWay
      <4> QED
        BY <1>6, <3>1, <4>1, <4>2
    <3>2. CASE t # s
      <4>1. InFlight(t)' = InFlight(t) /\ \A n \in Managers : queue'[n][t] = queue[n][t]
        BY <2>3, <2>4, <3>2
      <4> QED
        BY <1>1, <4>1 DEF Once
    <3> QED
      BY <3>1, <3>2
  <2>f. Remembered'
    <3> SUFFICES ASSUME ~setting.overlaps, NEW t \in Schedulables
                 PROVE  /\ \A i \in InFlight(t)' : OnItsWay(t, i)'
                        /\ ~Fails("post") => NotForgotten(t)'
      BY <1>2 DEF Remembered, Fails
    <3>1. CASE t = s
      <4>1. InFlight(s)' = {} /\ queue'[m][s] > 0
        BY <1>3, <2>3, <2>4
      <4>2. NotForgotten(s)'
        BY <1>1, <1>2, <1>6, <4>1 DEF NotForgotten, Registration
      <4> QED
        BY <3>1, <4>1, <4>2
    <3>2. CASE t # s
      <4>1. /\ InFlight(t)' = InFlight(t) /\ \A n \in Managers : queue'[n][t] = queue[n][t]
            /\ \A l \in Slots : ticks'[t][l] = ticks[t][l]
        BY <2>2, <2>3, <2>4, <3>2
      <4> QED
        BY <1>1, <1>2, <4>1 DEF Remembered, OnItsWay, NotForgotten, InFlight
    <3> QED
      BY <3>1, <3>2
  <2>g. ManagedIsRegistered'
    BY <1>1, <1>2 DEF ManagedIsRegistered, Fails
  <2> QED
    BY <2>a, <2>b, <2>c, <2>d, <2>e, <2>f, <2>g DEF MInv
<1> QED
  BY <1>4, <1>5, <1>6

-----------------------------------------------------------------------------
(* The system starts and stops its manager *)

LEMMA StartManagerKeeps ==
    ASSUME MInv, NEW m \in Managers, Blank(m), StartManager(m)
    PROVE  MInv'
<1>1. /\ CoreTypeOK /\ Threads /\ Bounded /\ Registration /\ Once /\ Remembered
      /\ ManagedIsRegistered
  BY DEF MInv
<1>2. UNCHANGED <<setting, now, registered, queue, manager, tick, ticks, hook,
                  attaches, crashed>>
  BY DEF StartManager
<1>3. /\ run' \in [Managers -> BOOLEAN]
      /\ \A n \in Managers : n # m => run'[n] = run[n]
      /\ worker' \in [Managers -> [point : WorkerPoints, at : 0..(MaxTick + Never)]]
      /\ \A n \in Managers : worker'[n].point = "hold" => worker'[n].at <= now
  <2>1. run' \in [Managers -> BOOLEAN] /\ \A n \in Managers : n # m => run'[n] = run[n]
    BY <1>1 DEF StartManager, CoreTypeOK
  <2>2. /\ worker' \in [Managers -> [point : WorkerPoints, at : 0..(MaxTick + Never)]]
        /\ \A n \in Managers :
              worker'[n] = IF n = m THEN [point |-> "check", at |-> 0] ELSE worker[n]
    BY <1>1, NeverIsLast DEF StartManager, WorkerGoto, CoreTypeOK, WorkerPoints
  <2>3. \A n \in Managers : worker'[n].point = "hold" => worker'[n].at <= now
    BY <1>1, <2>2 DEF Threads
  <2> QED
    BY <2>1, <2>2, <2>3
<1>4. \A t \in Schedulables : InFlight(t)' = InFlight(t)
  BY <1>2 DEF InFlight
<1>a. CoreTypeOK'
  BY <1>1, <1>2, <1>3 DEF CoreTypeOK
<1>b. Threads'
  BY <1>1, <1>2, <1>3 DEF Threads
<1>c. Bounded'
  BY <1>1, <1>2, <1>4 DEF Bounded
<1>d. Registration'
  BY <1>1, <1>2 DEF Registration
<1>e. Once'
  BY <1>1, <1>2, <1>3, <1>4 DEF Once, Blank
<1>f. Remembered'
  <2> SUFFICES ASSUME ~setting.overlaps, NEW t \in Schedulables
               PROVE  /\ \A i \in InFlight(t) : OnItsWay(t, i)'
                      /\ ~Fails("post") => NotForgotten(t)'
    BY <1>2, <1>4 DEF Remembered, Fails
  <2>1. ASSUME NEW i \in InFlight(t)
        PROVE  OnItsWay(t, i)'
    <3>1. OnItsWay(t, i) /\ i \in Slots /\ ticks[t][i].point # "none"
      BY <1>1 DEF Remembered, InFlight
    <3>2. ticks[t][i].of \in Managers /\ ticks[t][i].of # m
      BY <3>1, TickIsSomeones DEF Blank
    <3> QED
      BY <1>2, <1>3, <3>1, <3>2 DEF OnItsWay
  <2>2. ~Fails("post") => NotForgotten(t)'
    BY <1>1, <1>2, <1>3, <1>4 DEF Remembered, NotForgotten, Blank
  <2> QED
    BY <2>1, <2>2
<1>g. ManagedIsRegistered'
  BY <1>1, <1>2, <1>3 DEF ManagedIsRegistered, Fails, Blank, CoreTypeOK
<1> QED
  BY <1>a, <1>b, <1>c, <1>d, <1>e, <1>f, <1>g DEF MInv

LEMMA StopFlagKeeps ==
    ASSUME MInv, NEW m \in Managers, StopFlag(m)
    PROVE  MInv'
<1>1. /\ CoreTypeOK /\ Threads /\ Bounded /\ Registration /\ Once /\ Remembered
      /\ ManagedIsRegistered
  BY DEF MInv
<1>2. UNCHANGED <<setting, now, registered, queue, worker, manager, tick, ticks,
                  hook, attaches, crashed>>
  BY DEF StopFlag
<1>3. /\ run' \in [Managers -> BOOLEAN]
      /\ \A n \in Managers : run'[n] => run[n]
  BY <1>1 DEF StopFlag, CoreTypeOK
<1>4. \A t \in Schedulables : InFlight(t)' = InFlight(t)
  BY <1>2 DEF InFlight
<1>a. CoreTypeOK'
  BY <1>1, <1>2, <1>3 DEF CoreTypeOK
<1>b. Threads'
  BY <1>1, <1>2 DEF Threads
<1>c. Bounded'
  BY <1>1, <1>2, <1>4 DEF Bounded
<1>d. Registration'
  BY <1>1, <1>2 DEF Registration
<1>e. Once'
  BY <1>1, <1>2, <1>3, <1>4 DEF Once
<1>f. Remembered'
  <2> SUFFICES ASSUME ~setting.overlaps, NEW t \in Schedulables
               PROVE  /\ \A i \in InFlight(t) : OnItsWay(t, i)'
                      /\ ~Fails("post") => NotForgotten(t)'
    BY <1>2, <1>4 DEF Remembered, Fails
  <2>1. ASSUME NEW i \in InFlight(t)
        PROVE  OnItsWay(t, i)'
    <3>1. OnItsWay(t, i) /\ i \in Slots /\ ticks[t][i].point # "none"
      BY <1>1 DEF Remembered, InFlight
    <3>2. ticks[t][i].of \in Managers
      BY <3>1, TickIsSomeones
    <3> QED
      BY <1>2, <1>3, <3>1, <3>2 DEF OnItsWay
  <2>2. ~Fails("post") => NotForgotten(t)'
    BY <1>1, <1>2, <1>3, <1>4 DEF Remembered, NotForgotten
  <2> QED
    BY <2>1, <2>2
<1>g. ManagedIsRegistered'
  BY <1>1, <1>2, <1>3 DEF ManagedIsRegistered, Fails, CoreTypeOK
<1> QED
  BY <1>a, <1>b, <1>c, <1>d, <1>e, <1>f, <1>g DEF MInv

LEMMA CancelAllKeeps ==
    ASSUME MInv, NEW m \in Managers, ~run[m], CancelAll(m)
    PROVE  MInv'
<1>1. /\ CoreTypeOK /\ Threads /\ Bounded /\ Registration /\ Once /\ Remembered
      /\ ManagedIsRegistered
  BY DEF MInv
<1>2. /\ UNCHANGED <<setting, now, run, manager, tick, ticks, attaches, crashed>>
      /\ Woken
  <2>1. Notify(m, "exist") \/ Notify(m, "time")
    BY DEF CancelAll
  <2> QED
    BY <1>1, <2>1, NotifyWakes DEF CancelAll
<1>3. /\ registered' = [registered EXCEPT ![m] = {}]
      /\ hook' = [s \in Schedulables |-> IF s \in registered[m] THEN "cancel" ELSE hook[s]]
  BY DEF CancelAll
<1>4. /\ queue' \in [Managers -> [Schedulables -> Nat]]
      /\ \A s \in Schedulables : queue'[m][s] = 0
      /\ \A n \in Managers, s \in Schedulables : n # m => queue'[n][s] = queue[n][s]
  <2>1. queue' = [queue EXCEPT ![m] = [s \in Schedulables |-> 0]]
    BY DEF CancelAll
  <2> QED
    BY <1>1, <2>1 DEF CoreTypeOK
<1>5. \A t \in Schedulables : InFlight(t)' = InFlight(t)
  BY <1>2 DEF InFlight
<1>6. /\ registered'[m] = {}
      /\ \A n \in Managers : n # m => registered'[n] = registered[n]
      /\ \A t \in Schedulables, n \in Managers :
            n # m /\ t \in registered[n] => t \notin registered[m]
  BY <1>1, <1>3 DEF CoreTypeOK, Registration
<1>a. CoreTypeOK'
  BY <1>1, <1>2, <1>3, <1>4 DEF CoreTypeOK, Woken
<1>b. Threads'
  BY <1>1, <1>2 DEF Threads, Woken
<1>c. Bounded'
  <2> SUFFICES ASSUME NEW t \in Schedulables
               PROVE  queue'[1][t] + queue'[2][t] + Cardinality(InFlight(t)) <= attaches
    BY <1>1, <1>2, <1>5 DEF Bounded
  <2>1. Cardinality(InFlight(t)) \in 0..MaxAttaches
    BY SlotsFinite DEF InFlight
  <2>2. queue[1][t] \in Nat /\ queue[2][t] \in Nat /\ attaches \in Int
    BY <1>1 DEF CoreTypeOK
  <2>3. /\ queue'[1][t] \in Nat /\ queue'[2][t] \in Nat
        /\ queue'[1][t] <= queue[1][t] /\ queue'[2][t] <= queue[2][t]
    <3>1. CASE m = 1
      BY <1>4, <2>2, <3>1
    <3>2. CASE m = 2
      BY <1>4, <2>2, <3>2
    <3> QED
      BY <3>1, <3>2
  <2> QED
    BY <1>1, <2>1, <2>2, <2>3 DEF Bounded
<1>d. Registration'
  BY <1>1, <1>2, <1>3, <1>6 DEF Registration
<1>e. Once'
  <2> SUFFICES ASSUME ~setting.overlaps, NEW t \in Schedulables, NEW n \in Managers
               PROVE  /\ queue'[n][t] \in 0..1
                      /\ queue'[n][t] > 0 => manager[t] = n /\ InFlight(t) = {}
                      /\ run[n] /\ queue'[n][t] > 0 => t \in registered'[n]
    BY <1>1, <1>2, <1>5 DEF Once
  <2>1. CASE n = m
    BY <1>4, <2>1
  <2>2. CASE n # m
    BY <1>1, <1>4, <1>6, <2>2 DEF Once
  <2> QED
    BY <2>1, <2>2
<1>f. Remembered'
  <2> SUFFICES ASSUME ~setting.overlaps, NEW t \in Schedulables
               PROVE  /\ \A i \in InFlight(t) : OnItsWay(t, i)'
                      /\ ~Fails("post") => NotForgotten(t)'
    BY <1>2, <1>5 DEF Remembered, Fails
  <2>1. ASSUME NEW i \in InFlight(t)
        PROVE  OnItsWay(t, i)'
    <3> DEFINE n == ticks[t][i].of
    <3>1. OnItsWay(t, i) /\ i \in Slots /\ ticks[t][i].point # "none"
      BY <1>1 DEF Remembered, InFlight
    <3>2. n \in Managers
      BY <3>1, TickIsSomeones
    <3>3. hook'[t] = "cancel" \/ (t \notin registered[m] /\ hook'[t] = hook[t])
      BY <1>3
    <3>4. CASE n = m
      BY <1>2, <1>6, <3>1, <3>2, <3>3, <3>4 DEF OnItsWay
    <3>5. CASE n # m
      BY <1>2, <1>6, <3>1, <3>2, <3>3, <3>5 DEF OnItsWay
    <3> QED
      BY <3>4, <3>5
  <2>2. ~Fails("post") => NotForgotten(t)'
    BY <1>1, <1>2, <1>4, <1>5, <1>6 DEF Remembered, NotForgotten
  <2> QED
    BY <2>1, <2>2
<1>g. ManagedIsRegistered'
  BY <1>1, <1>2, <1>6 DEF ManagedIsRegistered, Fails, CoreTypeOK
<1> QED
  BY <1>a, <1>b, <1>c, <1>d, <1>e, <1>f, <1>g DEF MInv

-----------------------------------------------------------------------------
(* A step of a manager, as its system sees it *)

\* It neither starts nor stops a manager, nor begins a tick that no thread of
\* the system is there for.
Respects ==
    /\ run' = run
    /\ \A y \in Managers :
          /\ worker[y].point \in {"none", "done"} => worker'[y].point = worker[y].point
          /\ stage[y] \in Early /\ Blank(y) /\ worker[y].point = "none" => Blank(y)'
          /\ pinstance = y /\ ~ioRun[y] =>
                \A s \in Schedulables, k \in Slots :
                   Handler(s, k)' /\ ticks'[s][k].of = y =>
                      Handler(s, k) /\ ticks[s][k].of = y

LEMMA RespectsStage ==
    ASSUME Stage, Respects, UNCHANGED <<pinstance, stage, ioRun>>
    PROVE  Stage'
<1> SUFFICES ASSUME NEW y \in Managers
             PROVE  StageOf(y)'
  BY DEF Stage
<1>1. StageOf(y)
  BY DEF Stage
<1>2. stage' = stage /\ ioRun' = ioRun /\ pinstance' = pinstance
  OBVIOUS
<1>3. /\ run'[y] <=> stage'[y] \in Flagged
      /\ stage'[y] \in {"stop_threads", "destroyed"} => ~ioRun'[y]
  BY <1>1, <1>2 DEF StageOf, Respects
<1>4. stage'[y] \in Early => Blank(y)' /\ worker'[y].point = "none"
  BY <1>1, <1>2 DEF StageOf, Respects
<1>6. stage'[y] \in Joined => worker'[y].point = "done"
  BY <1>1, <1>2 DEF StageOf, Respects
<1>7. stage'[y] = "destroyed" /\ pinstance' = y =>
         \A s \in Schedulables, k \in Slots : Handler(s, k)' => ticks'[s][k].of # y
  BY <1>1, <1>2 DEF StageOf, Respects
<1> QED
  BY <1>3, <1>4, <1>6, <1>7 DEF StageOf

LEMMA WokenRespects ==
    ASSUME Woken, NEW y \in Managers, worker[y].point \in {"none", "done"}
    PROVE  worker'[y].point = worker[y].point
BY DEF Woken

\* The calls of the application, of a manager that may be stopped.
LEMMA CallRespects ==
    ASSUME MInv, NEW m \in Managers, NEW s \in Schedulables, stage[m] \in Started,
           \/ Attach(m, s) \/ AttachRefused(m, s) \/ AttachThrows(m, s) \/ Detach(m, s)
    PROVE  Respects
<1>1. CoreTypeOK
  BY DEF MInv
<1>2. /\ Woken
      /\ \A n \in Managers, t \in Schedulables : n # m => queue'[n][t] = queue[n][t]
  <2>1. CASE Attach(m, s)
    <3>1. PushSchedulable(m, s, Plus(now, Interval[s]))
      BY <2>1 DEF Attach
    <3> QED
      BY <1>1, <3>1, PushAdds DEF QueueChange
  <2>2. CASE Detach(m, s)
    <3>1. RemoveQueued(m, s) /\ queue[m][s] \in Nat
      BY <1>1, <2>2 DEF Detach, CoreTypeOK
    <3> QED
      BY <1>1, <3>1, RemoveRemoves DEF QueueChange
  <2>3. CASE AttachRefused(m, s) \/ AttachThrows(m, s)
    <3>1. worker' = worker /\ queue' = queue
      BY <2>3 DEF AttachRefused, AttachThrows
    <3> QED
      BY <1>1, <3>1, NotifyWakes
  <2> QED
    BY <2>1, <2>2, <2>3
<1>3. /\ \A n \in Managers : n # m => registered'[n] = registered[n]
      /\ \A t \in Schedulables, n \in Managers :
            n # m => (manager'[t] = n => manager[t] = n)
      /\ run' = run /\ ticks' = ticks
  <2>1. CASE Attach(m, s)
    BY <1>1, <2>1 DEF Attach, CoreTypeOK
  <2>2. CASE AttachRefused(m, s)
    BY <1>1, <2>2 DEF AttachRefused, CoreTypeOK
  <2>3. CASE AttachThrows(m, s)
    BY <1>1, <2>3 DEF AttachThrows, CoreTypeOK
  <2>4. CASE Detach(m, s)
    BY <1>1, <2>4 DEF Detach, CoreTypeOK
  <2> QED
    BY <2>1, <2>2, <2>3, <2>4
<1>4. \A y \in Managers : stage[y] \in Early => y # m
  BY DEF Started
<1> QED
  BY <1>2, <1>3, <1>4, WokenRespects DEF Respects, Blank, Handler

\* The worker.
LEMMA WorkerPosts ==
    ASSUME MInv, NEW m \in Managers,
           WorkerStep(m) \/ WorkerPostThrows(m) \/ SpuriousWakeup(m)
    PROVE  \A s \in Schedulables, k \in Slots :
              ticks'[s][k] = ticks[s][k] \/ ticks'[s][k] = [point |-> "posted", of |-> m]
<1>1. CoreTypeOK
  BY DEF MInv
<1>2. CASE WorkerPost(m)
  <2> DEFINE r == [point |-> "posted", of |-> m]
  <2>1. PICK t \in Schedulables :
          \/ ticks' = ticks
          \/ ticks' = [ticks EXCEPT ![t][CHOOSE k \in Slots \ InFlight(t) : TRUE] = r]
    BY <1>2 DEF WorkerPost
  <2> DEFINE free == CHOOSE k \in Slots \ InFlight(t) : TRUE
  <2>2. ticks' = ticks \/ ticks' = [ticks EXCEPT ![t][free] = r]
    BY <2>1
  <2> HIDE DEF free, r
  <2>3. \A s \in Schedulables, k \in Slots : ticks'[s][k] = ticks[s][k] \/ ticks'[s][k] = r
    <3>1. CASE ticks' = ticks
      BY <3>1
    <3>2. CASE ticks' = [ticks EXCEPT ![t][free] = r]
      <4>1. ticks \in [Schedulables -> [Slots -> TickRecord]]
        BY <1>1 DEF CoreTypeOK
      <4>2. \A s \in Schedulables :
               ticks'[s] = IF s = t THEN [ticks[t] EXCEPT ![free] = r] ELSE ticks[s]
        BY <3>2, <4>1
      <4> QED
        BY <4>1, <4>2
    <3> QED
      BY <2>2, <3>1, <3>2
  <2> QED
    BY <2>3 DEF r
<1>3. CASE ~WorkerPost(m)
  BY <1>3 DEF WorkerStep, WorkerPostThrows, SpuriousWakeup, WorkerCheck, WorkerLock, Timeout,
            WorkerResume, WorkerEmpty, WorkerWait
<1> QED
  BY <1>2, <1>3

LEMMA WorkerRespects ==
    ASSUME MInv, NEW m \in Managers,
           WorkerStep(m) \/ WorkerPostThrows(m) \/ SpuriousWakeup(m)
    PROVE  Respects
<1>1. CoreTypeOK
  BY DEF MInv
<1>2. worker[m].point \notin {"none", "done"}
  BY DEF WorkerStep, WorkerPostThrows, SpuriousWakeup, WorkerCheck, WorkerLock, Timeout,
         WorkerResume, WorkerEmpty, WorkerWait, WorkerPost, WorkerAt
<1>3. UNCHANGED Others
  BY DEF WorkerStep, WorkerPostThrows, SpuriousWakeup, WorkerCheck, WorkerLock, Timeout,
         WorkerResume, WorkerEmpty, WorkerWait, WorkerPost
<1>4. run' = run /\ registered' = registered /\ manager' = manager
  BY <1>3 DEF Others
<1>5. \A y \in Managers : y # m => worker'[y] = worker[y]
  BY <1>1 DEF WorkerStep, WorkerPostThrows, SpuriousWakeup, WorkerCheck, WorkerLock, Timeout,
              WorkerResume, WorkerEmpty, WorkerWait, WorkerPost, WorkerGoto, CoreTypeOK
<1>6. \A y \in Managers, s \in Schedulables : y # m => queue'[y][s] = queue[y][s]
  BY <1>1 DEF WorkerStep, WorkerPostThrows, SpuriousWakeup, WorkerCheck, WorkerLock, Timeout,
              WorkerResume, WorkerEmpty, WorkerWait, WorkerPost, Popped, CoreTypeOK
<1>7. \A s \in Schedulables, k \in Slots :
         ticks'[s][k] = ticks[s][k] \/ ticks'[s][k] = [point |-> "posted", of |-> m]
  BY WorkerPosts
<1> QED
  BY <1>2, <1>4, <1>5, <1>6, <1>7 DEF Respects, Blank, Handler

\* The io threads.
LEMMA TickRespects ==
    ASSUME MInv, NEW s \in Schedulables, NEW k \in Slots, IoTick(s, k)
    PROVE  Respects
<1>1. CoreTypeOK
  BY DEF MInv
<1>2. TickStep(s, k) /\ ticks[s][k].point # "none"
  BY DEF IoTick, TickStep, TickCheck, TickStarts, TickExecuted, TickAgain, TickAt
<1>3. ticks[s][k].of \in Managers
  BY <1>2, TickIsSomeones
<1>4. run' = run /\ registered' = registered /\ manager' = manager
  BY <1>2 DEF TickStep, TickCheck, TickStarts, TickExecuted, TickAgain, Others
<1>5. /\ \A y \in Managers : worker[y].point \in {"none", "done"} => worker'[y].point = worker[y].point
      /\ \A y \in Managers, t \in Schedulables : y # ticks[s][k].of => queue'[y][t] = queue[y][t]
  <2>1. CASE UNCHANGED <<queue, worker>>
    BY <2>1
  <2>2. CASE PushSchedulable(ticks[s][k].of, s, tick[s])
    <3>1. Woken
      BY <1>1, <1>3, <2>2, PushAdds
    <3>2. queue' = queue \/ QueueChange(ticks[s][k].of, s, 1)
      BY <1>1, <1>3, <2>2, PushAdds
    <3> QED
      BY <3>1, <3>2, WokenRespects DEF QueueChange
  <2> QED
    BY <1>2, <2>1, <2>2 DEF TickStep, TickCheck, TickStarts, TickExecuted, TickAgain
<1>6. \/ TickEnds(s, k)
      \/ \E p \in {"checked", "executing", "again"} : TickGoto(s, k, p)
  BY <1>2 DEF TickStep, TickCheck, TickStarts, TickExecuted, TickAgain
<1>7. \A t \in Schedulables, l \in Slots :
         \/ ticks'[t][l] = ticks[t][l]
         \/ ticks'[t][l].point = "none" /\ ticks'[t][l].of = 0
         \/ t = s /\ l = k /\ ticks'[t][l].of = ticks[t][l].of
  <2>1. CASE TickEnds(s, k)
    BY <1>2, <2>1, TickGivenBack
  <2>2. ASSUME NEW p \in {"checked", "executing", "again"}, TickGoto(s, k, p)
        PROVE  \A t \in Schedulables, l \in Slots :
                  \/ ticks'[t][l] = ticks[t][l]
                  \/ t = s /\ l = k /\ ticks'[t][l].of = ticks[t][l].of
    <3>1. p \in TickPoints
      BY DEF TickPoints
    <3>2. ticks' = [ticks EXCEPT ![s][k] = [point |-> p, of |-> ticks[s][k].of]]
      BY <1>1, <2>2, <3>1, TickMoved DEF CoreTypeOK
    <3>3. TickChange(s, k, p, ticks[s][k].of)
      BY <1>1, <1>3, <3>1, <3>2, TickChanged DEF CoreTypeOK
    <3> QED
      BY <3>3 DEF TickChange
  <2> QED
    BY <1>6, <2>1, <2>2
<1>8. \A y \in Managers :
         stage[y] \in Early /\ Blank(y) /\ worker[y].point = "none" => Blank(y)'
  BY <1>3, <1>4, <1>5, <1>7 DEF Blank
<1>9. ASSUME NEW y \in Managers, pinstance = y, ~ioRun[y],
             NEW t \in Schedulables, NEW l \in Slots, Handler(t, l)', ticks'[t][l].of = y
      PROVE  Handler(t, l) /\ ticks[t][l].of = y
  <2>1. CASE ticks'[t][l] = ticks[t][l]
    BY <1>9, <2>1 DEF Handler
  <2>2. CASE t = s /\ l = k /\ ticks'[t][l].of = ticks[t][l].of
    <3>1. ticks[s][k].of = y /\ ticks[s][k].point # "posted"
      BY <1>9, <2>2 DEF IoTick
    <3> QED
      BY <1>2, <2>2, <3>1 DEF Handler
  <2>3. ticks'[t][l].point # "none"
    BY <1>9 DEF Handler
  <2> QED
    BY <1>7, <2>1, <2>2, <2>3
<1> QED
  BY <1>4, <1>5, <1>8, <1>9 DEF Respects

LEMMA RestRespects ==
    ASSUME MInv, ClockTicks \/ \E s \in Schedulables : OnUnregister(s)
    PROVE  Respects
<1>1. UNCHANGED <<run, registered, queue, worker, manager, ticks>>
  BY DEF ClockTicks, OnUnregister
<1> QED
  BY <1>1 DEF Respects, Blank, Handler

-----------------------------------------------------------------------------
(* A step of a system *)

\* The steps of get_instance() and of process_destroy that touch no manager.
LEMMA ManagerUntouched ==
    ASSUME MInv, UNCHANGED managerVars
    PROVE  MInv'
<1>1. /\ CoreTypeOK' <=> CoreTypeOK
      /\ Threads' <=> Threads
      /\ Registration' <=> Registration
      /\ ManagedIsRegistered' <=> ManagedIsRegistered
  BY DEF managerVars, CoreTypeOK, Threads, Registration, ManagedIsRegistered, Fails
<1>2. \A t \in Schedulables : InFlight(t)' = InFlight(t)
  BY DEF managerVars, InFlight
<1>3. (Bounded' <=> Bounded) /\ (Once' <=> Once)
  BY <1>2 DEF managerVars, Bounded, Once
<1>4. Remembered' <=> Remembered
  BY <1>2 DEF managerVars, Remembered, OnItsWay, NotForgotten, Fails
<1> QED
  BY <1>1, <1>3, <1>4 DEF MInv

\* One system goes on; what is asked of its new stage is said of it alone.
LEMMA StageMoves ==
    ASSUME SystemTypeOK, Stage, NEW y \in Managers, NEW next \in Stages,
           StageGoto(y, next), UNCHANGED managerVars,
           \A z \in Managers \ {y} : ioRun'[z] = ioRun[z],
           pinstance' \in {pinstance, y},
           next \in Early => stage[y] \in Early,
           next \in Flagged <=> stage[y] \in Flagged,
           next \in Joined => worker[y].point = "done",
           next \in {"stop_threads", "destroyed"} => ~ioRun'[y],
           next = "destroyed" /\ pinstance' = y =>
              \A s \in Schedulables, k \in Slots : ~Handler(s, k)
    PROVE  Stage'
<1>1. /\ stage' \in [Managers -> Stages]
      /\ stage'[y] = next /\ \A z \in Managers \ {y} : stage'[z] = stage[z]
  BY DEF StageGoto, SystemTypeOK
<1>2. UNCHANGED <<run, registered, queue, worker, manager, ticks>>
  BY DEF managerVars
<1>3. \A z \in Managers : Blank(z)' <=> Blank(z)
  BY <1>2 DEF Blank
<1>4. \A s \in Schedulables, k \in Slots : Handler(s, k)' <=> Handler(s, k)
  BY <1>2 DEF Handler
<1>5. StageOf(y)'
  <2>1. StageOf(y)
    BY DEF Stage
  <2> QED
    BY <1>1, <1>2, <1>3, <1>4, <2>1 DEF StageOf
<1>6. ASSUME NEW z \in Managers \ {y}
      PROVE  StageOf(z)'
  <2>1. StageOf(z)
    BY DEF Stage
  <2> QED
    BY <1>1, <1>2, <1>3, <1>4, <2>1 DEF StageOf
<1> QED
  BY <1>5, <1>6 DEF Stage

\* What a thread has stays started when only what has not started goes on.
LEMMA StartedStays ==
    ASSUME SystemTypeOK, NEW c \in Creators, HasStarted(c), creator'[c] = creator[c],
           \A y \in Managers : stage[y] \in Started => stage'[y] = stage[y],
           creator[c].point = "publish" => holder' = c,
           creator[c].point \in {"copy", "publish"} => pinstance' # 0
    PROVE  HasStarted(c)'
<1>1. creator[c].system \in Managers \cup {0} /\ creator[c].manager \in Managers \cup {0}
  BY DEF SystemTypeOK
<1>2. "ready" \in Started
  BY DEF Started, Stages, Early
<1> QED
  BY <1>1, <1>2 DEF HasStarted

\* The thread that creates a system holds the lock and a system of its own.
LEMMA CreatingFacts ==
    ASSUME SystemTypeOK, Creation, NEW c \in Creators,
           NEW at \in {"flag", "threads", "executor", "scheduler"}, Creating(c, at)
    PROVE  /\ holder = c /\ holder # 0 /\ creator[c].point = "create"
           /\ creator[c].system \in Managers /\ stage[creator[c].system] = at
           /\ at \notin Started
           /\ creator[c].system # pinstance
           /\ \A d \in Creators \ {c} : creator[d].point # "publish"
<1>1. holder = c /\ holder # 0 /\ stage[creator[c].system] = at
  BY DEF Creating, Creators
<1>2. at \notin Started /\ at # "ready"
  BY DEF Started, Early
<1>3. creator[c].point = "create" /\ creator[c].system \in Managers
  BY <1>1, <1>2 DEF Creation, HasStarted, SystemTypeOK
<1> QED
  BY <1>1, <1>2, <1>3 DEF Creation, HasStarted

\* A stage of the initialisation that leads to the next one.
LEMMA CreationGoesOn ==
    ASSUME SystemTypeOK, Creation, NEW c \in Creators,
           NEW at \in {"flag", "threads", "executor", "scheduler"}, Creating(c, at),
           NEW next \in {"threads", "executor", "scheduler"},
           StageGoto(creator[c].system, next), UNCHANGED <<pinstance, creator, holder>>
    PROVE  Creation'
<1> DEFINE y == creator[c].system
<1>1. /\ holder = c /\ y \in Managers /\ stage[y] = at /\ at \notin Started /\ at # "none"
      /\ y # pinstance /\ creator[c].point = "create"
  BY CreatingFacts
<1>2. stage'[y] = next /\ \A z \in Managers \ {y} : stage'[z] = stage[z]
  BY <1>1 DEF StageGoto, SystemTypeOK
<1>3. holder' # 0 =>
          /\ creator'[holder'].system # 0
          /\ \/ /\ creator'[holder'].point = "create"
                /\ stage'[creator'[holder'].system] \in Early \cup {"scheduler"}
                /\ stage'[creator'[holder'].system] # "none"
             \/ creator'[holder'].point = "publish"
  BY <1>1, <1>2 DEF Early
<1>4. ASSUME NEW d \in Creators
      PROVE  HasStarted(d)'
  <2>1. HasStarted(d)
    BY DEF Creation
  <2>2. \A z \in Managers : stage[z] \in Started => stage'[z] = stage[z]
    BY <1>1, <1>2
  <2> QED
    BY <2>1, <2>2, StartedStays DEF HasStarted
<1>5. pinstance' # 0 => stage'[pinstance'] \in Started
  BY <1>1, <1>2 DEF Creation, SystemTypeOK
<1>6. \A z \in {1, 2} : stage'[z] # "none" => stage[z] # "none"
  BY <1>1, <1>2
<1> QED
  BY <1>3, <1>4, <1>5, <1>6 DEF Creation

LEMMA InitializesRightly ==
    ASSUME IInv, NEW c \in Creators, InitializeThreads(c) \/ InitializeExecutor(c)
    PROVE  IInv'
<1>1. MInv /\ SystemTypeOK /\ Creation /\ Stage
  BY DEF IInv
<1>2. CASE InitializeThreads(c)
  <2> DEFINE y == creator[c].system
  <2>1. /\ Creating(c, "flag") /\ StageGoto(y, "threads")
        /\ ioRun' = [ioRun EXCEPT ![y] = TRUE]
        /\ UNCHANGED <<managerVars, pinstance, creator, holder>>
    BY <1>2 DEF InitializeThreads
  <2>2. "threads" \in Stages
    BY DEF Stages
  <2>3. y \in Managers /\ stage[y] = "flag"
    BY <1>1, <2>1, <2>2, CreatingFacts
  <2>4. SystemTypeOK'
    BY <1>1, <2>1, <2>2, <2>3 DEF SystemTypeOK, StageGoto
  <2>5. Creation'
    BY <1>1, <2>1, <2>2, CreationGoesOn
  <2>6. Stage'
    <3>1. \A z \in Managers \ {y} : ioRun'[z] = ioRun[z]
      BY <1>1, <2>1 DEF SystemTypeOK
    <3> QED
      BY <1>1, <2>1, <2>2, <2>3, <3>1, StageMoves DEF Early, Flagged, Joined
  <2> QED
    BY <1>1, <2>1, <2>4, <2>5, <2>6, ManagerUntouched DEF IInv
<1>3. CASE InitializeExecutor(c)
  <2> DEFINE y == creator[c].system
  <2>1. /\ Creating(c, "threads") /\ StageGoto(y, "executor")
        /\ UNCHANGED <<managerVars, pinstance, creator, holder, ioRun>>
    BY <1>3 DEF InitializeExecutor
  <2>2. "executor" \in Stages
    BY DEF Stages
  <2>3. y \in Managers /\ stage[y] = "threads"
    BY <1>1, <2>1, <2>2, CreatingFacts
  <2>4. SystemTypeOK'
    BY <1>1, <2>1, <2>2, <2>3 DEF SystemTypeOK, StageGoto
  <2>5. Creation'
    BY <1>1, <2>1, <2>2, CreationGoesOn
  <2>6. Stage'
    BY <1>1, <2>1, <2>2, <2>3, StageMoves DEF Early, Flagged, Joined
  <2> QED
    BY <1>1, <2>1, <2>4, <2>5, <2>6, ManagerUntouched DEF IInv
<1> QED
  BY <1>2, <1>3

LEMMA InitializeSchedulerRightly ==
    ASSUME IInv, NEW c \in Creators, InitializeScheduler(c)
    PROVE  IInv'
<1>1. MInv /\ SystemTypeOK /\ Creation /\ Stage /\ CoreTypeOK
  BY DEF IInv, MInv
<1>2. Creating(c, "executor")
  BY DEF InitializeScheduler
<1>3. "scheduler" \in Stages
  BY DEF Stages
<1>4. PICK y \in Managers :
        /\ y = creator[c].system /\ stage[y] = "executor" /\ y # pinstance
        /\ StageGoto(y, "scheduler") /\ StartManager(y)
        /\ UNCHANGED <<pinstance, creator, holder, ioRun>>
  BY <1>1, <1>2, <1>3, CreatingFacts DEF InitializeScheduler
<1>5. SystemTypeOK'
  BY <1>1, <1>3, <1>4 DEF SystemTypeOK, StageGoto
<1>6. Creation'
  BY <1>1, <1>2, <1>3, <1>4, CreationGoesOn
<1>7. StageOf(y)
  BY <1>1, <1>4 DEF Stage
<1>8. Blank(y)
  BY <1>4, <1>7 DEF StageOf, Early
<1>9. MInv'
  BY <1>1, <1>4, <1>8, StartManagerKeeps
<1>10. Stage'
  <2>1. /\ stage'[y] = "scheduler" /\ \A z \in Managers \ {y} : stage'[z] = stage[z]
        /\ run'[y] = TRUE /\ \A z \in Managers \ {y} : run'[z] = run[z]
        /\ \A z \in Managers \ {y} : worker'[z] = worker[z]
        /\ UNCHANGED <<registered, queue, manager, ticks, pinstance, ioRun>>
    BY <1>1, <1>4 DEF StageGoto, SystemTypeOK, StartManager, WorkerGoto, CoreTypeOK
  <2>2. \A z \in Managers : Blank(z)' <=> Blank(z)
    BY <2>1 DEF Blank
  <2>3. \A s \in Schedulables, k \in Slots : Handler(s, k)' <=> Handler(s, k)
    BY <2>1 DEF Handler
  <2>4. StageOf(y)'
    BY <2>1 DEF StageOf, Early, Flagged, Joined
  <2>5. ASSUME NEW z \in Managers \ {y}
        PROVE  StageOf(z)'
    <3>1. StageOf(z)
      BY <1>1 DEF Stage
    <3> QED
      BY <2>1, <2>2, <2>3, <3>1 DEF StageOf
  <2> QED
    BY <2>4, <2>5 DEF Stage
<1> QED
  BY <1>5, <1>6, <1>9, <1>10 DEF IInv

LEMMA PublishRightly ==
    ASSUME IInv, NEW c \in Creators, Publish(c)
    PROVE  IInv'
<1>1. MInv /\ SystemTypeOK /\ Creation /\ Stage
  BY DEF IInv
<1> DEFINE y == creator[c].system
<1>2. /\ Creating(c, "scheduler") /\ pinstance' = y /\ StageGoto(y, "ready")
      /\ \/ CreatorGoto(c, "publish", y, 0) /\ holder' = holder
         \/ CreatorGoto(c, "have", y, 0) /\ holder' = 0
      /\ UNCHANGED <<managerVars, ioRun>>
  BY DEF Publish
<1>3. "ready" \in Stages /\ "ready" \in Started
  BY DEF Stages, Started, Early
<1>4. /\ holder = c /\ y \in Managers /\ stage[y] = "scheduler" /\ "scheduler" \notin Started
      /\ \A d \in Creators \ {c} : creator[d].point # "publish"
  BY <1>1, <1>2, CreatingFacts
<1>5. /\ stage'[y] = "ready" /\ \A z \in Managers \ {y} : stage'[z] = stage[z]
      /\ creator'[c].system = y /\ creator'[c].manager = 0
      /\ \/ creator'[c].point = "publish" /\ holder' = c
         \/ creator'[c].point = "have" /\ holder' = 0
      /\ \A d \in Creators \ {c} : creator'[d] = creator[d]
  BY <1>1, <1>2, <1>4 DEF SystemTypeOK, StageGoto, CreatorGoto
<1>6. SystemTypeOK'
  <2>1. creator' \in [Creators -> [point : CreatorPoints, system : Managers \cup {0},
                                   manager : Managers \cup {0}]]
    BY <1>1, <1>2, <1>4 DEF SystemTypeOK, CreatorGoto, CreatorPoints
  <2>2. stage' \in [Managers -> Stages] /\ holder' \in Creators \cup {0}
    BY <1>1, <1>2, <1>3, <1>4 DEF SystemTypeOK, StageGoto
  <2> QED
    BY <1>1, <1>2, <1>4, <2>1, <2>2 DEF SystemTypeOK
<1>7. Creation'
  <2>1. ASSUME NEW d \in Creators
        PROVE  HasStarted(d)'
    <3>1. CASE d = c
      BY <1>2, <1>4, <1>5, <3>1 DEF HasStarted
    <3>2. CASE d # c
      <4>1. HasStarted(d) /\ creator'[d] = creator[d] /\ creator[d].point # "publish"
        BY <1>1, <1>4, <1>5, <3>2 DEF Creation
      <4>2. \A z \in Managers : stage[z] \in Started => stage'[z] = stage[z]
        BY <1>4, <1>5
      <4>3. pinstance' # 0
        BY <1>2, <1>4
      <4> QED
        BY <1>1, <4>1, <4>2, <4>3, StartedStays
    <3> QED
      BY <3>1, <3>2
  <2>2. pinstance' # 0 /\ stage'[pinstance'] \in Started
    BY <1>2, <1>3, <1>4, <1>5
  <2>3. stage'[2] # "none" => \A d \in Creators : creator'[d].point # "create" \/ holder' = d
    <3>1. stage'[2] # "none" => stage[2] # "none"
      BY <1>4, <1>5
    <3> QED
      BY <1>1, <1>4, <1>5, <3>1 DEF Creation
  <2>4. holder' # 0 => creator'[holder'].system # 0 /\ creator'[holder'].point = "publish"
    BY <1>4, <1>5
  <2>5. creator'[c].point # "create"
    BY <1>5
  <2> QED
    BY <2>1, <2>2, <2>3, <2>4, <2>5 DEF Creation
<1>8. Stage'
  BY <1>1, <1>2, <1>3, <1>4, StageMoves DEF Early, Flagged, Joined
<1> QED
  BY <1>1, <1>2, <1>6, <1>7, <1>8, ManagerUntouched DEF IInv

\* The lock is given back when the system before is destroyed.
LEMMA PublishedRightly ==
    ASSUME IInv, NEW c \in Creators, Published(c)
    PROVE  IInv'
<1>1. MInv /\ SystemTypeOK /\ Creation /\ Stage
  BY DEF IInv
<1> DEFINE y == creator[c].system
<1>2. /\ creator[c].point = "publish" /\ CreatorGoto(c, "have", y, 0) /\ holder' = 0
      /\ UNCHANGED <<managerVars, pinstance, stage, ioRun>>
  BY DEF Published, CreatorAt
<1>3. /\ holder = c /\ pinstance # 0 /\ y \in Managers /\ stage[y] = "ready"
      /\ \A d \in Creators \ {c} : creator[d].point # "publish"
  BY <1>1, <1>2 DEF Creation, HasStarted, SystemTypeOK
<1>4. /\ creator'[c].point = "have" /\ creator'[c].system = y /\ creator'[c].manager = 0
      /\ \A d \in Creators \ {c} : creator'[d] = creator[d]
  BY <1>1, <1>2 DEF SystemTypeOK, CreatorGoto
<1>5. SystemTypeOK'
  <2>1. creator' \in [Creators -> [point : CreatorPoints, system : Managers \cup {0},
                                   manager : Managers \cup {0}]]
    BY <1>1, <1>2, <1>3 DEF SystemTypeOK, CreatorGoto, CreatorPoints
  <2> QED
    BY <1>1, <1>2, <2>1 DEF SystemTypeOK
<1>6. Creation'
  <2>1. ASSUME NEW d \in Creators
        PROVE  HasStarted(d)'
    <3>1. CASE d = c
      BY <1>2, <1>3, <1>4, <3>1 DEF HasStarted
    <3>2. CASE d # c
      <4>1. HasStarted(d) /\ creator'[d] = creator[d] /\ creator[d].point # "publish"
        BY <1>1, <1>3, <1>4, <3>2 DEF Creation
      <4>2. pinstance' # 0
        BY <1>2, <1>3
      <4> QED
        BY <1>1, <1>2, <4>1, <4>2, StartedStays
    <3> QED
      BY <3>1, <3>2
  <2>2. pinstance' # 0 /\ stage'[pinstance'] \in Started
    BY <1>1, <1>2, <1>3 DEF Creation
  <2>3. stage'[2] # "none" => \A d \in Creators : creator'[d].point # "create" \/ holder' = d
    BY <1>1, <1>2, <1>3, <1>4 DEF Creation
  <2>4. creator'[c].point # "create" /\ holder' = 0
    BY <1>2, <1>4
  <2> QED
    BY <2>1, <2>2, <2>3, <2>4 DEF Creation
<1>7. Stage'
  <2>1. Respects
    BY <1>2 DEF managerVars, Respects, Blank, Handler
  <2> QED
    BY <1>1, <1>2, <2>1, RespectsStage
<1> QED
  BY <1>1, <1>2, <1>5, <1>6, <1>7, ManagerUntouched DEF IInv

LEMMA CreateInstanceRightly ==
    ASSUME IInv, NEW c \in Creators, CreateInstance(c)
    PROVE  IInv'
<1>1. MInv /\ SystemTypeOK /\ Creation /\ Stage
  BY DEF IInv
<1> DEFINE y == IF stage[1] = "none" THEN 1 ELSE 2
<1>2. /\ creator[c].point = "create" /\ holder = 0 /\ holder' = c
      /\ CreatorGoto(c, "create", y, 0) /\ StageGoto(y, "flag")
      /\ UNCHANGED <<managerVars, pinstance, ioRun>>
  BY DEF CreateInstance, CreatorAt
<1>3. y \in Managers /\ stage[y] = "none"
  <2>1. c # 0
    BY DEF Creators
  <2>2. stage[2] = "none"
    BY <1>1, <1>2, <2>1 DEF Creation
  <2> QED
    BY <2>2
<1>4. stage[1] # "none" =>
         pinstance # 0 /\ \E d \in Creators \ {c} : creator[d].point # "create"
  BY <1>1, <1>2 DEF Creation, Creators
<1>5. y = 2 => stage[1] # "none"
  OBVIOUS
<1>6. y = 1 => stage[2] = "none"
  BY <1>1, <1>2 DEF Creation, Creators
<1> HIDE DEF y
<1>7. /\ stage'[y] = "flag" /\ \A z \in Managers \ {y} : stage'[z] = stage[z]
      /\ creator'[c].point = "create" /\ creator'[c].system = y /\ creator'[c].manager = 0
      /\ \A d \in Creators \ {c} : creator'[d] = creator[d]
  BY <1>1, <1>2, <1>3 DEF SystemTypeOK, StageGoto, CreatorGoto
<1>8. SystemTypeOK'
  <2>1. creator' \in [Creators -> [point : CreatorPoints, system : Managers \cup {0},
                                   manager : Managers \cup {0}]]
    BY <1>1, <1>2, <1>3 DEF SystemTypeOK, CreatorGoto, CreatorPoints
  <2> QED
    BY <1>1, <1>2, <1>3, <2>1 DEF SystemTypeOK, StageGoto, Stages
<1>n. "none" \notin Started /\ "flag" \in Early
  BY DEF Started, Early
<1>9. Creation'
  <2>1. /\ holder' # 0 /\ creator'[holder'].point = "create"
        /\ creator'[holder'].system # 0
        /\ stage'[creator'[holder'].system] \in Early
        /\ stage'[creator'[holder'].system] # "none"
    BY <1>2, <1>3, <1>7, <1>n DEF Creators
  <2>2. ASSUME NEW d \in Creators
        PROVE  HasStarted(d)'
    <3>1. CASE d = c
      BY <1>7, <3>1 DEF HasStarted
    <3>2. CASE d # c
      <4>1. HasStarted(d) /\ creator'[d] = creator[d] /\ creator[d].point # "publish"
        <5>1. HasStarted(d)
          BY <1>1 DEF Creation
        <5>2. d # 0
          BY DEF Creators
        <5> QED
          BY <1>2, <1>7, <3>2, <5>1, <5>2 DEF HasStarted
      <4>2. \A z \in Managers : stage[z] \in Started => stage'[z] = stage[z]
        BY <1>3, <1>7, <1>n
      <4>3. creator[d].point = "copy" => pinstance' # 0
        BY <1>2, <4>1 DEF HasStarted
      <4> QED
        BY <1>1, <4>1, <4>2, <4>3, StartedStays
    <3> QED
      BY <3>1, <3>2
  <2>3. pinstance' # 0 => stage'[pinstance'] \in Started
    <3>1. pinstance # 0 => pinstance \in Managers \ {y}
      BY <1>1, <1>3, <1>n DEF Creation, SystemTypeOK
    <3> QED
      BY <1>1, <1>2, <1>7, <3>1 DEF Creation
  <2>4. stage'[2] # "none" =>
           pinstance' # 0 /\ \A d \in Creators : creator'[d].point # "create" \/ holder' = d
    <3>1. CASE y = 2
      <4>1. PICK d \in Creators \ {c} : creator[d].point # "create"
        BY <1>4, <1>5, <3>1
      <4>2. creator'[d].point # "create"
        BY <1>7, <4>1
      <4>3. \A e \in Creators : e = c \/ e = d
        BY <4>1 DEF Creators
      <4> QED
        BY <1>2, <1>4, <1>5, <3>1, <4>2, <4>3
    <3>2. CASE y = 1
      BY <1>6, <1>7, <3>2
    <3> QED
      BY <1>3, <3>1, <3>2
  <2>5. \E d \in Creators : creator'[d].point # "create" \/ holder' = d
    BY <1>2
  <2> QED
    BY <2>1, <2>2, <2>3, <2>4, <2>5 DEF Creation
<1>10. Stage'
  <2>1. "flag" \in Stages
    BY DEF Stages
  <2> QED
    BY <1>1, <1>2, <1>3, <2>1, StageMoves DEF Early, Flagged, Joined
<1> QED
  BY <1>1, <1>2, <1>8, <1>9, <1>10, ManagerUntouched DEF IInv

\* A thread that does not create a system goes on with what it has.
LEMMA CallGoesOn ==
    ASSUME SystemTypeOK, Creation, NEW c \in Creators,
           creator[c].point \notin {"create", "publish"},
           NEW p \in CreatorPoints \ {"publish"}, NEW y \in Managers \cup {0},
           NEW m \in Managers \cup {0}, CreatorGoto(c, p, y, m),
           UNCHANGED <<pinstance, stage, holder, ioRun>>,
           p = "create" => pinstance = 0, p = "copy" => pinstance # 0,
           p = "have" => y # 0 /\ stage[y] = "ready",
           p = "destroy" => y # 0 /\ stage[y] \in Started,
           p = "call" => m # 0,
           m # 0 => stage[m] \in Started
    PROVE  SystemTypeOK' /\ Creation'
<1>1. /\ creator'[c].point = p /\ creator'[c].system = y /\ creator'[c].manager = m
      /\ \A d \in Creators \ {c} : creator'[d] = creator[d]
      /\ creator' \in [Creators -> [point : CreatorPoints, system : Managers \cup {0},
                                    manager : Managers \cup {0}]]
  BY DEF SystemTypeOK, CreatorGoto
<1>2. SystemTypeOK'
  BY <1>1 DEF SystemTypeOK
<1>3. holder # c /\ (holder # 0 => holder \in Creators /\ creator'[holder] = creator[holder])
  BY <1>1 DEF Creation, Creators, SystemTypeOK
<1>4. ASSUME NEW d \in Creators
      PROVE  HasStarted(d)'
  <2>1. CASE d = c
    BY <1>1, <2>1 DEF HasStarted
  <2>2. CASE d # c
    <3>1. HasStarted(d) /\ creator'[d] = creator[d]
      BY <1>1, <2>2 DEF Creation
    <3> QED
      BY <3>1, StartedStays DEF HasStarted
  <2> QED
    BY <2>1, <2>2
<1>5. stage[1] # "none" => \E d \in Creators : creator'[d].point # "create" \/ holder = d
  <2>1. CASE p = "create"
    BY <1>3, <2>1 DEF Creation
  <2>2. CASE p # "create"
    BY <1>1, <2>2
  <2> QED
    BY <2>1, <2>2
<1>6. stage[2] # "none" => \A d \in Creators : creator'[d].point # "create" \/ holder = d
  <2>1. stage[2] # "none" => p # "create"
    BY DEF Creation
  <2> QED
    BY <1>1, <2>1 DEF Creation
<1>7. holder # 0 =>
          /\ creator'[holder].system # 0
          /\ \/ /\ creator'[holder].point = "create"
                /\ stage[creator'[holder].system] \in Early \cup {"scheduler"}
                /\ stage[creator'[holder].system] # "none"
             \/ creator'[holder].point = "publish"
  BY <1>3 DEF Creation
<1> QED
  BY <1>2, <1>4, <1>5, <1>6, <1>7 DEF Creation

\* get_instance(), what the call does with the instance, and its end.
LEMMA GetsRightly ==
    ASSUME IInv, NEW c \in Creators,
           \/ LookInstance(c) \/ CopyInstance(c) \/ CopyManager(c) \/ Release(c)
           \/ Destroyed(c) \/ CallIgnored(c)
    PROVE  IInv'
<1>1. MInv /\ SystemTypeOK /\ Creation /\ Stage /\ HasStarted(c)
  BY DEF IInv, Creation
<1>2. UNCHANGED <<managerVars, pinstance, stage, holder, ioRun>>
  BY DEF LookInstance, CopyInstance, CopyManager, Release, Destroyed, CallIgnored
<1>3. /\ creator[c].system \in Managers \cup {0} /\ creator[c].manager \in Managers \cup {0}
      /\ pinstance \in Managers \cup {0}
      /\ pinstance # 0 => stage[pinstance] \in Started
  BY <1>1 DEF SystemTypeOK, Creation
<1>4. /\ {"idle", "copy", "create", "have", "destroy", "call"} \subseteq CreatorPoints \ {"publish"}
      /\ "ready" \in Started
  BY DEF CreatorPoints, Started, Stages, Early
<1>5. SystemTypeOK' /\ Creation'
  <2>1. CASE LookInstance(c)
    <3>1. /\ creator[c].point = "idle"
          /\ \/ pinstance # 0 /\ CreatorGoto(c, "copy", 0, 0)
             \/ pinstance = 0 /\ CreatorGoto(c, "create", 0, 0)
      BY <2>1 DEF LookInstance, CreatorAt
    <3> QED
      BY <1>1, <1>2, <1>4, <3>1, CallGoesOn
  <2>2. CASE CopyInstance(c)
    <3>1. /\ creator[c].point = "copy" /\ CreatorGoto(c, "have", pinstance, 0)
          /\ pinstance # 0 => stage[pinstance] = "ready"
      BY <2>2 DEF CopyInstance, CreatorAt, InstanceLives
    <3>2. pinstance # 0
      BY <1>1, <3>1 DEF HasStarted
    <3> QED
      BY <1>1, <1>2, <1>3, <1>4, <3>1, <3>2, CallGoesOn
  <2>3. CASE CopyManager(c) \/ Release(c)
    <3>1. /\ creator[c].point = "have"
          /\ \E y \in Managers :
                /\ y = creator[c].system /\ stage[y] = "ready"
                /\ \/ \E m \in {0, y} : CreatorGoto(c, "destroy", y, m)
                   \/ CreatorGoto(c, "call", 0, y) \/ CreatorGoto(c, "idle", 0, 0)
      BY <1>1, <1>3, <2>3 DEF CopyManager, Release, CreatorAt, HasStarted
    <3> QED
      BY <1>1, <1>2, <1>4, <3>1, CallGoesOn
  <2>4. CASE Destroyed(c) \/ CallIgnored(c)
    <3>1. /\ creator[c].point \in {"destroy", "call"}
          /\ \/ CreatorGoto(c, "idle", 0, 0)
             \/ creator[c].manager # 0 /\ CreatorGoto(c, "call", 0, creator[c].manager)
      BY <2>4 DEF Destroyed, CallIgnored, Calls, CreatorAt
    <3>2. creator[c].manager # 0 => stage[creator[c].manager] \in Started
      BY <1>1 DEF HasStarted
    <3> QED
      BY <1>1, <1>2, <1>3, <1>4, <3>1, <3>2, CallGoesOn
  <2> QED
    BY <2>1, <2>2, <2>3, <2>4
<1>6. Stage'
  <2>1. Respects
    BY <1>2 DEF managerVars, Respects, Blank, Handler
  <2> QED
    BY <1>1, <1>2, <2>1, RespectsStage
<1> QED
  BY <1>1, <1>2, <1>5, <1>6, ManagerUntouched DEF IInv

\* The calls of a manager.
LEMMA CallsRightly ==
    ASSUME IInv, NEW c \in Creators, NEW s \in Schedulables,
           Register(c, s) \/ Unregister(c, s)
    PROVE  IInv'
<1>1. MInv /\ SystemTypeOK /\ Creation /\ Stage /\ HasStarted(c)
  BY DEF IInv, Creation
<1>2. /\ creator[c].point = "call" /\ CreatorGoto(c, "idle", 0, 0)
      /\ UNCHANGED <<pinstance, stage, holder, ioRun>>
  BY DEF Register, Unregister, Calls, CreatorAt
<1>3. PICK m \in Managers :
        /\ stage[m] \in Started
        /\ \/ Attach(m, s) \/ AttachRefused(m, s) \/ AttachThrows(m, s) \/ Detach(m, s)
  BY <1>1, <1>2 DEF Register, Unregister, HasStarted, SystemTypeOK
<1>4. MInv'
  BY <1>1, <1>3, AttachKeeps, AttachRefusedKeeps, AttachThrowsKeeps, DetachKeeps
<1>5. Stage'
  BY <1>1, <1>2, <1>3, CallRespects, RespectsStage
<1>6. SystemTypeOK' /\ Creation'
  BY <1>1, <1>2, CallGoesOn DEF CreatorPoints
<1> QED
  BY <1>4, <1>5, <1>6 DEF IInv

LEMMA LateStages ==
    {"ready", "stop_flag", "stop_cancel", "stop_hooks", "stop_executor", "stop_threads",
     "destroyed"} \subseteq Started
BY DEF Started, Stages, Early

\* Destroying a system changes nothing of who has or creates one.
LEMMA CreationStays ==
    ASSUME SystemTypeOK, Creation, NEW y \in Managers, NEW next \in Started,
           StageGoto(y, next), UNCHANGED <<pinstance, creator, holder>>, stage[y] \in Started,
           stage[y] = "ready" =>
              \A c \in Creators : creator[c].system = y => creator[c].point = "destroy"
    PROVE  Creation' /\ (UNCHANGED ioRun => SystemTypeOK')
<1>1. /\ stage' \in [Managers -> Stages]
      /\ stage'[y] = next /\ \A z \in Managers \ {y} : stage'[z] = stage[z]
  BY DEF StageGoto, SystemTypeOK, Started
<1>2. \A z \in Managers :
         /\ stage'[z] \in Started <=> stage[z] \in Started
         /\ stage[z] \in Early \cup {"scheduler"} => stage'[z] = stage[z]
         /\ stage'[z] = "none" <=> stage[z] = "none"
  BY <1>1 DEF Started, Early
<1>3. holder # 0 => creator[holder].system \in Managers
  BY DEF Creation, SystemTypeOK
<1>4. ASSUME NEW c \in Creators
      PROVE  HasStarted(c)'
  <2>1. HasStarted(c)
    BY DEF Creation
  <2>2. creator[c].system \in Managers \cup {0} /\ creator[c].manager \in Managers \cup {0}
    BY DEF SystemTypeOK
  <2>3. creator[c].point \in {"have", "publish"} => creator[c].system # y
    BY <2>1 DEF HasStarted
  <2> QED
    BY <1>1, <1>2, <2>1, <2>2, <2>3 DEF HasStarted
<1>5. pinstance # 0 => pinstance \in Managers
  BY DEF SystemTypeOK
<1>6. Creation'
  BY <1>2, <1>3, <1>4, <1>5 DEF Creation
<1> QED
  BY <1>1, <1>6 DEF SystemTypeOK

LEMMA DestroyBeginsRightly ==
    ASSUME IInv, NEW y \in Managers, DestroyBegins(y)
    PROVE  IInv'
<1>1. MInv /\ SystemTypeOK /\ Creation /\ Stage
  BY DEF IInv
<1>2. /\ stage[y] = "ready" /\ StageGoto(y, "stop_flag")
      /\ \A c \in Creators : creator[c].system = y => creator[c].point = "destroy"
      /\ UNCHANGED <<managerVars, pinstance, creator, holder, ioRun>>
  BY DEF DestroyBegins
<1>3. "stop_flag" \in Stages
  BY DEF Stages
<1>4. Creation' /\ SystemTypeOK'
  BY <1>1, <1>2, <1>3, LateStages, CreationStays
<1>5. Stage'
  BY <1>1, <1>2, <1>3, StageMoves DEF Early, Flagged, Joined
<1> QED
  BY <1>1, <1>2, <1>4, <1>5, ManagerUntouched DEF IInv

LEMMA DestroyFlagRightly ==
    ASSUME IInv, NEW y \in Managers, DestroyFlag(y)
    PROVE  IInv'
<1>1. MInv /\ SystemTypeOK /\ Creation /\ Stage /\ CoreTypeOK
  BY DEF IInv, MInv
<1>2. /\ stage[y] = "stop_flag" /\ StopFlag(y) /\ StageGoto(y, "stop_cancel")
      /\ UNCHANGED <<pinstance, creator, holder, ioRun>>
  BY DEF DestroyFlag, Stopping
<1>3. "stop_cancel" \in Stages
  BY DEF Stages
<1>4. Creation' /\ SystemTypeOK'
  BY <1>1, <1>2, <1>3, LateStages, CreationStays
<1>5. MInv'
  BY <1>1, <1>2, StopFlagKeeps
<1>6. Stage'
  <2>1. /\ stage'[y] = "stop_cancel" /\ \A z \in Managers \ {y} : stage'[z] = stage[z]
        /\ run'[y] = FALSE /\ \A z \in Managers \ {y} : run'[z] = run[z]
        /\ UNCHANGED <<registered, queue, worker, manager, ticks, pinstance, ioRun>>
    BY <1>1, <1>2 DEF StageGoto, SystemTypeOK, StopFlag, CoreTypeOK
  <2>2. \A z \in Managers : Blank(z)' <=> Blank(z)
    BY <2>1 DEF Blank
  <2>3. \A s \in Schedulables, k \in Slots : Handler(s, k)' <=> Handler(s, k)
    BY <2>1 DEF Handler
  <2>4. StageOf(y)'
    BY <2>1 DEF StageOf, Early, Flagged, Joined
  <2>5. ASSUME NEW z \in Managers \ {y}
        PROVE  StageOf(z)'
    <3>1. StageOf(z)
      BY <1>1 DEF Stage
    <3> QED
      BY <2>1, <2>2, <2>3, <3>1 DEF StageOf
  <2> QED
    BY <2>4, <2>5 DEF Stage
<1> QED
  BY <1>4, <1>5, <1>6 DEF IInv

LEMMA DestroyCancelRightly ==
    ASSUME IInv, NEW y \in Managers, DestroyCancel(y)
    PROVE  IInv'
<1>1. MInv /\ SystemTypeOK /\ Creation /\ Stage /\ CoreTypeOK
  BY DEF IInv, MInv
<1>2. /\ stage[y] = "stop_cancel" /\ CancelAll(y) /\ StageGoto(y, "stop_hooks")
      /\ UNCHANGED <<pinstance, creator, holder, ioRun>>
  BY DEF DestroyCancel, Stopping
<1>3. "stop_hooks" \in Stages
  BY DEF Stages
<1>4. Creation' /\ SystemTypeOK'
  BY <1>1, <1>2, <1>3, LateStages, CreationStays
<1>5. StageOf(y) /\ ~run[y]
  BY <1>1, <1>2 DEF Stage, StageOf, Flagged
<1>6. MInv'
  BY <1>1, <1>2, <1>5, CancelAllKeeps
<1>7. Stage'
  <2>1. Woken
    <3>1. Notify(y, "exist") \/ Notify(y, "time")
      BY <1>2 DEF CancelAll
    <3> QED
      BY <1>1, <3>1, NotifyWakes
  <2>2. /\ stage'[y] = "stop_hooks" /\ \A z \in Managers \ {y} : stage'[z] = stage[z]
        /\ registered'[y] = {} /\ \A z \in Managers \ {y} : registered'[z] = registered[z]
        /\ \A z \in Managers \ {y} : queue'[z] = queue[z]
        /\ UNCHANGED <<run, manager, ticks, pinstance, ioRun>>
    BY <1>1, <1>2 DEF StageGoto, SystemTypeOK, CancelAll, CoreTypeOK
  <2>3. \A z \in Managers \ {y} : Blank(z)' <=> Blank(z)
    BY <2>2 DEF Blank
  <2>4. \A s \in Schedulables, k \in Slots : Handler(s, k)' <=> Handler(s, k)
    BY <2>2 DEF Handler
  <2>5. StageOf(y)'
    BY <1>5, <2>2 DEF StageOf, Early, Flagged, Joined
  <2>6. ASSUME NEW z \in Managers \ {y}
        PROVE  StageOf(z)'
    <3>1. StageOf(z)
      BY <1>1 DEF Stage
    <3>2. worker[z].point \in {"none", "done"} => worker'[z].point = worker[z].point
      BY <2>1, WokenRespects
    <3> QED
      BY <2>2, <2>3, <2>4, <3>1, <3>2 DEF StageOf
  <2> QED
    BY <2>5, <2>6 DEF Stage
<1> QED
  BY <1>4, <1>6, <1>7 DEF IInv

LEMMA DestroyEndsRightly ==
    ASSUME IInv, NEW y \in Managers,
           DestroyJoin(y) \/ DestroyThreads(y) \/ DestroyJoinThreads(y)
    PROVE  IInv'
<1>1. MInv /\ SystemTypeOK /\ Creation /\ Stage /\ StageOf(y)
  BY DEF IInv, Stage
<1>2. UNCHANGED <<managerVars, pinstance, creator, holder>>
  BY DEF DestroyJoin, DestroyThreads, DestroyJoinThreads
<1>3. {"stop_executor", "stop_threads", "destroyed"} \subseteq Stages
  BY DEF Stages
<1>4. CASE DestroyJoin(y)
  <2>1. /\ stage[y] = "stop_hooks" /\ worker[y].point = "done"
        /\ StageGoto(y, "stop_executor") /\ ioRun' = ioRun
    BY <1>4 DEF DestroyJoin, Stopping
  <2>2. Creation' /\ SystemTypeOK'
    BY <1>1, <1>2, <1>3, <2>1, LateStages, CreationStays
  <2>3. Stage'
    BY <1>1, <1>2, <1>3, <2>1, StageMoves DEF Early, Flagged, Joined
  <2> QED
    BY <1>1, <1>2, <2>2, <2>3, ManagerUntouched DEF IInv
<1>5. CASE DestroyThreads(y)
  <2>1. /\ stage[y] = "stop_executor" /\ StageGoto(y, "stop_threads")
        /\ ioRun' = [ioRun EXCEPT ![y] = FALSE]
    BY <1>5 DEF DestroyThreads, Stopping
  <2>2. /\ ioRun' \in [Managers -> BOOLEAN] /\ ~ioRun'[y]
        /\ \A z \in Managers \ {y} : ioRun'[z] = ioRun[z]
    BY <1>1, <2>1 DEF SystemTypeOK
  <2>3. worker[y].point = "done"
    BY <1>1, <2>1 DEF StageOf, Joined
  <2>4. Creation'
    BY <1>1, <1>2, <1>3, <2>1, LateStages, CreationStays
  <2>5. SystemTypeOK'
    BY <1>1, <1>2, <1>3, <2>1, <2>2 DEF SystemTypeOK, StageGoto
  <2>6. Stage'
    BY <1>1, <1>2, <1>3, <2>1, <2>2, <2>3, StageMoves DEF Early, Flagged, Joined
  <2> QED
    BY <1>1, <1>2, <2>4, <2>5, <2>6, ManagerUntouched DEF IInv
<1>6. CASE DestroyJoinThreads(y)
  <2>1. /\ stage[y] = "stop_threads" /\ StageGoto(y, "destroyed") /\ ioRun' = ioRun
        /\ pinstance = y => \A s \in Schedulables, k \in Slots : ~Handler(s, k)
    BY <1>6 DEF DestroyJoinThreads, Stopping
  <2>2. worker[y].point = "done" /\ ~ioRun[y]
    BY <1>1, <2>1 DEF StageOf, Joined
  <2>3. Creation' /\ SystemTypeOK'
    BY <1>1, <1>2, <1>3, <2>1, LateStages, CreationStays
  <2>4. Stage'
    BY <1>1, <1>2, <1>3, <2>1, <2>2, StageMoves DEF Early, Flagged, Joined
  <2> QED
    BY <1>1, <1>2, <2>3, <2>4, ManagerUntouched DEF IInv
<1> QED
  BY <1>4, <1>5, <1>6

-----------------------------------------------------------------------------
(* The theorems *)

LEMMA InitIsInvariant == Init => IInv
<1> SUFFICES ASSUME Init
             PROVE  IInv
  OBVIOUS
<1>1. ManagerInit
  BY DEF Init
<1>2. CoreTypeOK
  <2>1. [point |-> "none", of |-> 0] \in TickRecord
    BY DEF TickRecord, TickPoints
  <2>2. [k \in Slots |-> [point |-> "none", of |-> 0]] \in [Slots -> TickRecord]
    BY <2>1
  <2>3. [point |-> "none", at |-> 0] \in [point : WorkerPoints, at : 0..(MaxTick + Never)]
    BY NeverIsLast DEF WorkerPoints
  <2>4. ticks \in [Schedulables -> [Slots -> TickRecord]]
    BY <1>1, <2>2 DEF ManagerInit
  <2>5. worker \in [Managers -> [point : WorkerPoints, at : 0..(MaxTick + Never)]]
    BY <1>1, <2>3 DEF ManagerInit
  <2>6. /\ setting \in Settings /\ crashed \in BOOLEAN
        /\ now \in 0..MaxTick /\ attaches \in 0..MaxAttaches
    <3>1. setting \in Settings /\ crashed = FALSE /\ now = 0 /\ attaches = 0
      BY <1>1 DEF ManagerInit
    <3>2. 0 \in 0..MaxTick /\ 0 \in 0..MaxAttaches
      OBVIOUS
    <3> QED
      BY <3>1, <3>2
  <2>7. /\ run \in [Managers -> BOOLEAN]
        /\ registered \in [Managers -> SUBSET Schedulables]
        /\ manager \in [Schedulables -> Managers \cup {0}]
    BY <1>1 DEF ManagerInit
  <2>8. /\ queue \in [Managers -> [Schedulables -> Nat]]
        /\ tick \in [Schedulables -> {Wrapped} \cup 0..Never]
        /\ hook \in [Schedulables -> {"none", "detach", "cancel"}]
    BY <1>1, NeverIsLast DEF ManagerInit
  <2> QED
    BY <2>4, <2>5, <2>6, <2>7, <2>8 DEF CoreTypeOK
<1>3. /\ \A s \in Schedulables, k \in Slots :
            ticks[s][k].point = "none" /\ ticks[s][k].of = 0
      /\ \A m \in Managers : worker[m].point = "none" /\ registered[m] = {} /\ ~run[m]
      /\ \A m \in Managers, s \in Schedulables : queue[m][s] = 0
      /\ \A s \in Schedulables : manager[s] = 0 /\ hook[s] = "none" /\ tick[s] = Never
      /\ attaches = 0
  BY <1>1 DEF ManagerInit
<1>4. \A s \in Schedulables : InFlight(s) = {}
  BY <1>3 DEF InFlight
<1>5. Threads /\ Registration /\ Once /\ Remembered /\ ManagedIsRegistered
  BY <1>3, <1>4 DEF Threads, Registration, Once, Remembered, NotForgotten, ManagedIsRegistered
<1>6. Bounded
  <2> SUFFICES ASSUME NEW s \in Schedulables
               PROVE  queue[1][s] + queue[2][s] + Cardinality(InFlight(s)) <= attaches
    BY <1>3 DEF Bounded
  <2>1. Cardinality(InFlight(s)) = 0
    BY <1>4, FS_EmptySet
  <2> QED
    BY <1>3, <2>1
<1>7. SystemTypeOK
  BY DEF Init, SystemTypeOK, Stages, Creators, CreatorPoints
<1>8. Creation
  BY DEF Init, Creation, HasStarted
<1>9. Stage
  BY <1>3 DEF Init, Stage, StageOf, Blank, Early, Flagged, Joined
<1> QED
  BY <1>2, <1>5, <1>6, <1>7, <1>8, <1>9 DEF IInv, MInv

LEMMA SystemSeesManager ==
    ASSUME IInv, MInv', Respects, UNCHANGED systemVars
    PROVE  IInv'
<1>0. UNCHANGED <<pinstance, stage, ioRun>>
  BY DEF systemVars
<1>1. SystemTypeOK' /\ Creation'
  BY DEF IInv, systemVars, SystemTypeOK, Creation, HasStarted
<1>2. Stage'
  BY <1>0, RespectsStage DEF IInv
<1> QED
  BY <1>1, <1>2 DEF IInv

\* A step of a thread that creates a system, gets one, or calls its manager.
CreatorActs(c) ==
    \/ LookInstance(c) \/ CopyInstance(c) \/ CopyTorn(c)
    \/ CreatorStep(c) \/ InitializeThrows(c)
    \/ CopyManager(c) \/ Release(c) \/ Destroyed(c) \/ CallIgnored(c)
    \/ \E s \in Schedulables : Register(c, s) \/ Unregister(c, s)

LEMMA CreatorKeeps ==
    ASSUME IInv, NEW c \in Creators, CreatorActs(c)
    PROVE  IInv'
<1>1. CASE LookInstance(c) \/ CopyInstance(c) \/ CopyManager(c) \/ Release(c)
           \/ Destroyed(c) \/ CallIgnored(c)
  BY <1>1, GetsRightly
<1>2. CASE CreatorStep(c)
  BY <1>2, CreateInstanceRightly, InitializesRightly, InitializeSchedulerRightly,
     PublishRightly, PublishedRightly DEF CreatorStep
<1>3. CASE InitializeThrows(c) \/ CopyTorn(c)
  <2>1. /\ crashed' \in BOOLEAN /\ UNCHANGED systemVars
        /\ UNCHANGED <<setting, now, run, registered, queue, worker, manager, tick,
                       ticks, hook, attaches>>
    BY <1>3 DEF InitializeThrows, CopyTorn
  <2>2. MInv'
    <3>1. \A t \in Schedulables : InFlight(t)' = InFlight(t)
      BY <2>1 DEF InFlight
    <3>2. CoreTypeOK' /\ Threads' /\ Registration' /\ ManagedIsRegistered'
      BY <2>1 DEF IInv, MInv, CoreTypeOK, Threads, Registration, ManagedIsRegistered, Fails
    <3>3. Bounded' /\ Once'
      BY <2>1, <3>1 DEF IInv, MInv, Bounded, Once
    <3>4. Remembered'
      BY <2>1, <3>1 DEF IInv, MInv, Remembered, OnItsWay, NotForgotten, Fails
    <3> QED
      BY <3>2, <3>3, <3>4 DEF MInv
  <2>3. Respects
    BY <2>1 DEF Respects, Blank, Handler
  <2> QED
    BY <2>1, <2>2, <2>3, SystemSeesManager
<1>4. CASE \E s \in Schedulables : Register(c, s) \/ Unregister(c, s)
  BY <1>4, CallsRightly
<1> QED
  BY <1>1, <1>2, <1>3, <1>4 DEF CreatorActs

LEMMA NextKeeps == IInv /\ [Next]_vars => IInv'
<1> SUFFICES ASSUME IInv, [Next]_vars
             PROVE  IInv'
  OBVIOUS
<1>1. MInv
  BY DEF IInv
<1>2. ASSUME NEW c \in Creators, CreatorActs(c)
      PROVE  IInv'
  BY <1>2, CreatorKeeps
<1>3. ASSUME NEW y \in Managers, DestroyBegins(y) \/ DestroyStep(y)
      PROVE  IInv'
  BY <1>3, DestroyBeginsRightly, DestroyFlagRightly, DestroyCancelRightly,
     DestroyEndsRightly DEF DestroyStep
<1>4. ASSUME NEW m \in Managers, WorkerStep(m) \/ WorkerPostThrows(m) \/ SpuriousWakeup(m),
             UNCHANGED systemVars
      PROVE  IInv'
  <2>1. MInv'
    BY <1>1, <1>4, WorkerMovesKeep, WorkerPostKeeps, WorkerPostThrowsKeeps DEF WorkerStep
  <2>2. Respects
    BY <1>1, <1>4, WorkerRespects
  <2> QED
    BY <1>4, <2>1, <2>2, SystemSeesManager
<1>5. ASSUME NEW s \in Schedulables, OnUnregister(s), UNCHANGED systemVars
      PROVE  IInv'
  BY <1>1, <1>5, OnUnregisterKeeps, RestRespects, SystemSeesManager
<1>6. ASSUME NEW s \in Schedulables, NEW k \in Slots, IoTick(s, k)
      PROVE  IInv'
  <2>1. TickStep(s, k) /\ UNCHANGED systemVars
    BY <1>6 DEF IoTick
  <2>2. MInv'
    BY <1>1, <2>1, TickCheckKeeps, TickStartsKeeps, TickExecutedKeeps, TickAgainKeeps
       DEF TickStep
  <2>3. Respects
    BY <1>1, <1>6, TickRespects
  <2> QED
    BY <2>1, <2>2, <2>3, SystemSeesManager
<1>7. CASE ClockTicks /\ UNCHANGED systemVars
  BY <1>1, <1>7, ClockTicksKeeps, RestRespects, SystemSeesManager
<1>8. CASE UNCHANGED vars
  <2>1. UNCHANGED managerVars /\ UNCHANGED systemVars
    BY <1>8 DEF vars
  <2>2. MInv'
    BY <1>1, <2>1, ManagerUntouched
  <2>3. Respects
    BY <2>1 DEF managerVars, Respects, Blank, Handler
  <2> QED
    BY <2>1, <2>2, <2>3, SystemSeesManager
<1>9. CASE Next
  BY <1>2, <1>3, <1>4, <1>5, <1>6, <1>7, <1>9 DEF Next, CreatorActs
<1> QED
  BY <1>8, <1>9

\* The invariant holds in every reachable state.
THEOREM Invariant == Spec => []IInv
<1>1. Init => IInv
  BY InitIsInvariant
<1>2. IInv /\ [Next]_vars => IInv'
  BY NextKeeps
<1> QED
  BY <1>1, <1>2, PTL DEF Spec

\* Every variable keeps its type, whatever the intervals: no entry of the queue
\* is removed that is not there, there is a slot for each tick on its way, and
\* threads are at none but the places that are theirs.
THEOREM TypeCorrect == Spec => []TypeOK
<1>1. IInv => TypeOK
  <2> SUFFICES ASSUME IInv
               PROVE  TypeOK
    OBVIOUS
  <2>1. ManagerTypeOK
    BY BoundedIsTyped DEF IInv, MInv
  <2> QED
    BY <2>1 DEF IInv, SystemTypeOK, TypeOK
<1> QED
  BY <1>1, Invariant, PTL

\* get_instance() hands out only a system that has been initialised, though it
\* does not take the lock, and none is destroyed while a call has it; and after
\* process_destroy no thread of the system is left and, unless another system
\* took pinstance from it, no callback of its schedulables runs, though they may
\* be registered late.
THEOREM LivesRightly == Spec => []InstanceLivesRightly
<1>1. IInv => InstanceLivesRightly
  <2> SUFFICES ASSUME IInv
               PROVE  InstanceLivesRightly
    OBVIOUS
  <2>1. InstanceIsReady
    <3>1. /\ \A c \in Creators : HasStarted(c)
          /\ pinstance # 0 => stage[pinstance] \in Started
      BY DEF IInv, Creation
    <3>2. \A y \in Managers : y # 0
      OBVIOUS
    <3>3. \A x \in Started : x \notin {"none", "flag", "threads", "executor"}
      BY DEF Started, Early
    <3> QED
      BY <3>1, <3>2, <3>3 DEF HasStarted, InstanceIsReady
  <2>2. DestroyedIsQuiet
    <3> SUFFICES ASSUME NEW y \in Managers, stage[y] = "destroyed"
                 PROVE  /\ ~run[y] /\ ~ioRun[y] /\ worker[y].point = "done"
                        /\ pinstance = y =>
                             \A s \in Schedulables, k \in Slots :
                                Handler(s, k) => ticks[s][k].of # y
      BY DEF DestroyedIsQuiet
    <3>1. StageOf(y)
      BY DEF IInv, Stage
    <3> QED
      BY <3>1 DEF StageOf, Flagged, Joined
  <2> QED
    BY <2>1, <2>2 DEF InstanceLivesRightly
<1> QED
  BY <1>1, Invariant, PTL

\* A registered schedulable has one entry in the queue or one tick on its way,
\* or none of both when it has no next tick.
LEMMA OneInAll ==
    ASSUME MInv, ~setting.overlaps, ~Fails("post"),
           NEW m \in Managers, run[m], NEW s \in registered[m]
    PROVE  Sum2(m, s) <= 1 /\ (tick[s] # Never => Sum2(m, s) = 1)
<1>1. /\ CoreTypeOK /\ Registration /\ Once /\ Remembered /\ Threads
      /\ s \in Schedulables
  BY DEF MInv, CoreTypeOK
<1> DEFINE mine == {k \in InFlight(s) : ticks[s][k].of = m}
<1>2. /\ queue[m][s] \in 0..1
      /\ queue[m][s] > 0 => InFlight(s) = {}
      /\ \A k, l \in InFlight(s) : k = l
      /\ tick[s] # Never => queue[m][s] > 0 \/ \E k \in InFlight(s) : ticks[s][k].of = m
  BY <1>1 DEF Once, Remembered, NotForgotten
<1>3. CASE queue[m][s] > 0
  <2>1. mine = {} /\ queue[m][s] = 1
    BY <1>2, <1>3
  <2>2. Cardinality(mine) = 0
    BY <2>1, FS_EmptySet
  <2> QED
    BY <2>1, <2>2 DEF Sum2
<1>4. CASE queue[m][s] = 0 /\ mine # {}
  <2>1. PICK k \in InFlight(s) : ticks[s][k].of = m
    BY <1>4
  <2>2. mine = {k}
    BY <1>2, <2>1
  <2>3. Cardinality(mine) = 1
    BY <2>2, FS_Singleton
  <2> QED
    BY <1>4, <2>3 DEF Sum2
<1>5. CASE queue[m][s] = 0 /\ mine = {}
  <2>1. Cardinality(mine) = 0
    BY <1>5, FS_EmptySet
  <2>2. tick[s] = Never
    BY <1>2, <1>5
  <2> QED
    BY <1>5, <2>1, <2>2 DEF Sum2
<1> QED
  BY <1>2, <1>3, <1>4, <1>5

\* The set, the queue, the ticks on their way and m_pschedulable_manager stay
\* one account of who is registered, through every interleaving of the calls,
\* the worker and the io threads: none is forgotten, executed twice, or popped
\* after it was unregistered.
THEOREM AccountsAgree == Spec => []ListsAgree
<1>1. IInv => ListsAgree
  <2> SUFFICES ASSUME IInv
               PROVE  ListsAgree
    OBVIOUS
  <2>1. OncePerSchedulable
    BY OneInAll DEF IInv, OncePerSchedulable
  <2>2. QueueIsRegistered
    BY DEF IInv, MInv, Once, Queued, QueueIsRegistered
  <2>3. ManagedIsRegistered
    BY DEF IInv, MInv
  <2> QED
    BY <2>1, <2>2, <2>3 DEF ListsAgree
<1> QED
  BY <1>1, Invariant, PTL

\* An execution begins in no other step but TickStarts.
LEMMA OnlyTickStarts ==
    ASSUME IInv, Next, NEW s \in Schedulables, NEW k \in Slots,
           ticks[s][k].point = "checked", ticks'[s][k].point = "executing"
    PROVE  TickStarts(s, k)
<1>1. MInv /\ CoreTypeOK
  BY DEF IInv, MInv
<1>2. ticks'[s][k] # ticks[s][k] /\ ticks' # ticks
  OBVIOUS
<1>3. ASSUME NEW c \in Creators, CreatorActs(c)
      PROVE  FALSE
  BY <1>2, <1>3
     DEF CreatorActs, LookInstance, CopyInstance, CopyTorn, CopyManager, Release, Destroyed,
         CallIgnored, CreatorStep, CreateInstance, InitializeThreads, InitializeExecutor,
         InitializeScheduler, StartManager, Publish, Published, InitializeThrows, Register,
         Unregister, Attach, AttachRefused, AttachThrows, Detach, managerVars
<1>4. ASSUME NEW y \in Managers, DestroyBegins(y) \/ DestroyStep(y)
      PROVE  FALSE
  BY <1>2, <1>4
     DEF DestroyBegins, DestroyStep, DestroyFlag, StopFlag, DestroyCancel, CancelAll,
         DestroyJoin, DestroyThreads, DestroyJoinThreads, managerVars
<1>5. ASSUME NEW m \in Managers, WorkerStep(m) \/ WorkerPostThrows(m) \/ SpuriousWakeup(m)
      PROVE  FALSE
  BY <1>1, <1>2, <1>5, WorkerPosts
<1>6. ASSUME NEW t \in Schedulables, OnUnregister(t)
      PROVE  FALSE
  BY <1>2, <1>6 DEF OnUnregister
<1>7. ASSUME NEW t \in Schedulables, NEW l \in Slots, IoTick(t, l)
      PROVE  TickStarts(s, k)
  <2>1. TickStep(t, l)
    BY <1>7 DEF IoTick
  <2>2. t = s /\ l = k
    <3>1. \/ \E p \in {"checked", "executing", "again"} : TickGoto(t, l, p)
          \/ TickEnds(t, l)
      BY <2>1 DEF TickStep, TickCheck, TickStarts, TickExecuted, TickAgain
    <3>2. \E r : ticks' = [ticks EXCEPT ![t] = [ticks[t] EXCEPT ![l] = r]]
      <4>1. CASE TickEnds(t, l)
        BY <4>1 DEF TickEnds
      <4>2. ASSUME NEW p, TickGoto(t, l, p)
            PROVE  \E r : ticks' = [ticks EXCEPT ![t] = [ticks[t] EXCEPT ![l] = r]]
        <5>1. ticks' = [ticks EXCEPT ![t] =
                           [ticks[t] EXCEPT ![l] = [ticks[t][l] EXCEPT !.point = p]]]
          BY <4>2 DEF TickGoto
        <5> QED
          BY <5>1
      <4> QED
        BY <3>1, <4>1, <4>2
    <3>3. ticks \in [Schedulables -> [Slots -> TickRecord]]
      BY <1>1 DEF CoreTypeOK
    <3>4. t = s
      BY <1>2, <3>2, <3>3
    <3>5. l = k
      BY <1>2, <3>2, <3>3, <3>4
    <3> QED
      BY <3>4, <3>5
  <2> QED
    BY <2>1, <2>2 DEF TickStep, TickCheck, TickExecuted, TickAgain, TickAt
<1>8. CASE ClockTicks
  BY <1>2, <1>8 DEF ClockTicks
<1> QED
  BY <1>3, <1>4, <1>5, <1>6, <1>7, <1>8 DEF Next, CreatorActs

LEMMA StartIsAllowed ==
    ASSUME IInv, Next, NEW s \in Schedulables, NEW k \in Slots,
           ticks[s][k].point = "checked", ticks'[s][k].point = "executing"
    PROVE  setting.overlaps \/ hook[s] # "none" \/ s \in registered[ticks[s][k].of]
<1>1. MInv /\ CoreTypeOK /\ Remembered
  BY DEF IInv, MInv
<1>2. TickStarts(s, k)
  BY OnlyTickStarts
<1>3. ~(now < tick[s])
  <2> SUFFICES ASSUME now < tick[s]
               PROVE  FALSE
    OBVIOUS
  <2>1. TickEnds(s, k)
    BY <1>2 DEF TickStarts
  <2>2. ticks'[s][k] = [point |-> "none", of |-> 0]
    BY <1>1, <2>1 DEF TickEnds, CoreTypeOK
  <2> QED
    BY <2>2
<1>4. tick[s] # Never
  BY <1>1, <1>3, NeverIsLast DEF CoreTypeOK
<1>5. ~setting.overlaps => OnItsWay(s, k)
  BY <1>1 DEF Remembered, InFlight
<1> QED
  BY <1>4, <1>5 DEF OnItsWay

\* After unregister_schedulable has returned no execution begins, though
\* process_schedule looks at the next tick without the mutex.
THEOREM NotExecutedAfter == Spec => UnregisteredIsNotExecuted
<1>1. IInv /\ [Next]_vars =>
         [\A s \in Schedulables, k \in Slots :
             ticks[s][k].point = "checked" /\ ticks'[s][k].point = "executing" =>
             setting.overlaps \/ hook[s] # "none" \/ s \in registered[ticks[s][k].of]]_managerVars
  BY StartIsAllowed DEF vars
<1> QED
  BY <1>1, Invariant, PTL DEF Spec, UnregisteredIsNotExecuted

=============================================================================
