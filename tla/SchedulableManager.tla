------------------------- MODULE SchedulableManager -------------------------
(***************************************************************************)
(* schedulable_manager: a worker thread posts each registered schedulable  *)
(* to the io threads when its tick has come; the io thread calls it and    *)
(* queues it again.  A schedulable is thus registered in one place, the    *)
(* set, while its place in the queue is taken and given back by threads    *)
(* that hold the mutex only in between.  System runs and stops managers.   *)
(*                                                                         *)
(* The heap is a bag of its entries here, its top any that is due first;   *)
(* TimerHeap says how far the vector is that.  The schedulables are those  *)
(* of schedulable::Iexecutable.                                            *)
(***************************************************************************)
EXTENDS Integers, FiniteSets

CONSTANTS
    Managers,     \* the managers, one for each system
    Schedulables, \* the schedulables
    Interval,     \* m_tick_diff_execute of each
    MaxTick,      \* bound: the last tick of a clock, it stands for any later
    MaxAttaches,  \* bound: calls of register_schedulable
    Settings      \* the settings a behaviour may have, see below

(***************************************************************************)
(* "refuse"  process_on_register returns false                             *)
(* "throw"   process_on_register or an allocation after it throws          *)
(* "post"    system::post throws in the worker                             *)
(* "init"    a step of the system's initialisation throws                  *)
(***************************************************************************)
AllFaults == {"refuse", "throw", "post", "init"}

ASSUME IntervalAssumption == Interval \in [Schedulables -> Int]
ASSUME BoundsAssumption == MaxTick \in Nat /\ MaxAttaches \in Nat \ {0}

\* How many threads create the system, whether the program exits, how often
\* register_schedulable is called, what may go wrong, whether a schedulable is
\* registered again while a tick of it is still on its way, and how long time is
\* looked at.
ASSUME SettingsAssumption ==
    Settings \subseteq [creators : 1..2, exits : BOOLEAN, overlaps : BOOLEAN,
                       registers : 1..MaxAttaches, until : 0..MaxTick,
                       faults : SUBSET AllFaults]

Never == MaxTick + 2 * MaxAttaches + 3   \* time_point::max()
Wrapped == -1          \* any time point before the clock began
Slots == 1..MaxAttaches

WorkerPoints == {"none", "check", "lock", "exist", "time", "woken", "hold", "done"}
TickPoints == {"none", "posted", "checked", "executing", "again"}

VARIABLES
    setting,    \* the setting of this behaviour
    now,        \* clock::now()
    run,        \* m_flag_run
    registered, \* m_set_schedulable
    queue,      \* m_priorityqueue_schedulable: how often it has each one
    worker,     \* where process_execute is: it holds the mutex at "hold"; its
                \* tick_now, or the end of its wait_for
    manager,    \* m_pschedulable_manager of each schedulable, 0 for null
    tick,       \* its m_tick_next
    ticks,      \* the executables posted for it, and whose they are
    hook,       \* its process_on_unregister is about to be called, and by whom
    attaches,   \* calls of register_schedulable so far
    crashed     \* a null pointer, or the end of the set, was used

managerVars == <<setting, now, run, registered, queue, worker, manager, tick,
                 ticks, hook, attaches, crashed>>

ManagerTypeOK ==
    /\ setting \in Settings
    /\ now \in 0..MaxTick
    /\ run \in [Managers -> BOOLEAN]
    /\ registered \in [Managers -> SUBSET Schedulables]
    /\ queue \in [Managers -> [Schedulables -> 0..MaxAttaches]]
    /\ worker \in [Managers -> [point : WorkerPoints, at : 0..(MaxTick + Never)]]
    /\ manager \in [Schedulables -> Managers \cup {0}]
    /\ tick \in [Schedulables -> {Wrapped} \cup 0..Never]
    /\ ticks \in [Schedulables -> [Slots -> [point : TickPoints,
                                             of : Managers \cup {0}]]]
    /\ hook \in [Schedulables -> {"none", "detach", "cancel"}]
    /\ attaches \in 0..MaxAttaches
    /\ crashed \in BOOLEAN

ManagerInit ==
    /\ setting \in Settings
    /\ now = 0
    /\ run = [m \in Managers |-> FALSE]
    /\ registered = [m \in Managers |-> {}]
    /\ queue = [m \in Managers |-> [s \in Schedulables |-> 0]]
    /\ worker = [m \in Managers |-> [point |-> "none", at |-> 0]]
    /\ manager = [s \in Schedulables |-> 0]
    /\ tick = [s \in Schedulables |-> Never]
    /\ ticks = [s \in Schedulables |->
                   [k \in Slots |-> [point |-> "none", of |-> 0]]]
    /\ hook = [s \in Schedulables |-> "none"]
    /\ attaches = 0
    /\ crashed = FALSE

\* A time point and a duration: past the last time point the sum wraps round,
\* before the clock's first tick one is due like the other.
Plus(at, interval) ==
    IF at # Wrapped /\ at + interval \in 0..Never THEN at + interval ELSE Wrapped

Fails(fault) == fault \in setting.faults
Queued(m) == {s \in Schedulables : queue[m][s] > 0}
IsTop(m, s) == s \in Queued(m) /\ \A other \in Queued(m) : tick[s] <= tick[other]
MutexFree(m) == worker[m].point # "hold"
WorkerAt(m, point) == worker[m].point = point /\ ~crashed
WorkerGoto(m, point, at) ==
    worker' = [worker EXCEPT ![m] = [point |-> point, at |-> at]]

\* notify_one: nobody but the worker waits.
Notify(m, variable) ==
    worker' = IF worker[m].point = variable
              THEN [worker EXCEPT ![m].point = "woken"] ELSE worker

InFlight(s) == {k \in Slots : ticks[s][k].point # "none"}
TickAt(s, k, point) == ticks[s][k].point = point /\ ~crashed
TickGoto(s, k, point) == ticks' = [ticks EXCEPT ![s][k].point = point]
TickEnds(s, k) ==
    ticks' = [ticks EXCEPT ![s][k] = [point |-> "none", of |-> 0]]

-----------------------------------------------------------------------------
(* The queue *)

\* A bug: only the variable of the timed wait is notified.
NotifyPushed_Time(m, s, at) ==
    IF \A other \in Queued(m) : at < tick[other] THEN Notify(m, "time")
    ELSE UNCHANGED worker

\* The worker is woken for the first entry, and for one that got to the top.
NotifyPushed(m, s, at) ==
    IF Queued(m) = {} THEN Notify(m, "exist")
    ELSE IF \A other \in Queued(m) : at < tick[other] THEN Notify(m, "time")
    ELSE UNCHANGED worker

\* _push_schedulable of s, whose next tick is at.
PushSchedulable(m, s, at) ==
    IF at = Never THEN UNCHANGED <<queue, worker>>
    ELSE /\ queue' = [queue EXCEPT ![m][s] = @ + 1]
         /\ NotifyPushed(m, s, at)

\* A bug: an entry is removed though there may be none.
RemoveQueued_Always(m, s) ==
    /\ queue' = [queue EXCEPT ![m][s] = @ - 1]
    /\ IF IsTop(m, s) THEN Notify(m, "time") ELSE UNCHANGED worker

\* The first entry of s is removed; the worker is woken when the top goes.
RemoveQueued(m, s) ==
    IF s \notin Queued(m) THEN UNCHANGED <<queue, worker>>
    ELSE /\ queue' = [queue EXCEPT ![m][s] = @ - 1]
         /\ IF IsTop(m, s) THEN Notify(m, "time") ELSE UNCHANGED worker

-----------------------------------------------------------------------------
(* register_schedulable and unregister_schedulable *)

\* The application registers and unregisters one schedulable from one thread.
\* Whether the manager runs is looked at nowhere.
MayAttach(m, s) ==
    /\ ~crashed /\ MutexFree(m) /\ attaches < setting.registers
    /\ manager[s] = 0 /\ hook[s] = "none"
    /\ setting.overlaps \/ InFlight(s) = {}

\* process_attach, with process_on_register; nothing happens to a schedulable
\* that has a manager.
Attach(m, s) ==
    /\ MayAttach(m, s)
    /\ attaches' = attaches + 1
    /\ manager' = [manager EXCEPT ![s] = m]
    /\ tick' = [tick EXCEPT ![s] = Plus(now, Interval[s])]
    /\ registered' = [registered EXCEPT ![m] = @ \cup {s}]
    /\ PushSchedulable(m, s, Plus(now, Interval[s]))
    /\ UNCHANGED <<setting, now, run, ticks, hook, crashed>>

\* process_on_register returns false: the manager stays set.
AttachRefused(m, s) ==
    /\ Fails("refuse") /\ MayAttach(m, s)
    /\ attaches' = attaches + 1
    /\ manager' = [manager EXCEPT ![s] = m]
    /\ UNCHANGED <<setting, now, run, registered, queue, worker, tick, ticks,
                   hook, crashed>>

\* An exception is rolled back.
AttachThrows(m, s) ==
    /\ Fails("throw") /\ MayAttach(m, s)
    /\ attaches' = attaches + 1
    /\ tick' = [tick EXCEPT ![s] = Plus(now, Interval[s])]
    /\ UNCHANGED <<setting, now, run, registered, queue, worker, manager, ticks,
                   hook, crashed>>

\* A bug: the schedulable's place in the queue is forgotten.
Detach_Queued(m, s) ==
    /\ ~crashed /\ MutexFree(m)
    /\ manager[s] = m /\ s \in registered[m]
    /\ registered' = [registered EXCEPT ![m] = @ \ {s}]
    /\ manager' = [manager EXCEPT ![s] = 0]
    /\ hook' = [hook EXCEPT ![s] = "detach"]
    /\ UNCHANGED <<setting, now, run, queue, worker, tick, ticks, attaches, crashed>>

\* process_detach, under the mutex.
Detach(m, s) ==
    /\ ~crashed /\ MutexFree(m)
    /\ manager[s] = m /\ s \in registered[m]
    /\ registered' = [registered EXCEPT ![m] = @ \ {s}]
    /\ RemoveQueued(m, s)
    /\ manager' = [manager EXCEPT ![s] = 0]
    /\ hook' = [hook EXCEPT ![s] = "detach"]
    /\ UNCHANGED <<setting, now, run, tick, ticks, attaches, crashed>>

\* A bug: the next tick of an unregistered schedulable is left as it is.
OnUnregister_Ticks(s) ==
    /\ ~crashed /\ hook[s] # "none"
    /\ hook' = [hook EXCEPT ![s] = "none"]
    /\ UNCHANGED <<setting, now, run, registered, queue, worker, manager, tick,
                   ticks, attaches, crashed>>

\* process_on_unregister, after the mutex is released.
OnUnregister(s) ==
    /\ ~crashed /\ hook[s] # "none"
    /\ tick' = [tick EXCEPT ![s] = Never]
    /\ hook' = [hook EXCEPT ![s] = "none"]
    /\ UNCHANGED <<setting, now, run, registered, queue, worker, manager, ticks,
                   attaches, crashed>>

-----------------------------------------------------------------------------
(* The worker *)

Others == <<setting, now, run, registered, manager, tick, hook, attaches>>

WorkerCheck(m) ==
    /\ WorkerAt(m, "check")
    /\ WorkerGoto(m, IF run[m] THEN "lock" ELSE "done", 0)
    /\ UNCHANGED <<Others, queue, ticks, crashed>>

WorkerLock(m) ==
    /\ WorkerAt(m, "lock")
    /\ IF Queued(m) = {} THEN WorkerGoto(m, "exist", 0)
                         ELSE WorkerGoto(m, "hold", now)
    /\ UNCHANGED <<Others, queue, ticks, crashed>>

\* A wait may end for no reason, the timed one also when its time is over;
\* the last tick of the clock is late enough for any.
SpuriousWakeup(m) ==
    /\ \E point \in {"exist", "time"} : WorkerAt(m, point)
    /\ WorkerGoto(m, "woken", 0)
    /\ UNCHANGED <<Others, queue, ticks, crashed>>

Timeout(m) ==
    /\ WorkerAt(m, "time") /\ (now >= worker[m].at \/ now = setting.until)
    /\ WorkerGoto(m, "woken", 0)
    /\ UNCHANGED <<Others, queue, ticks, crashed>>

WorkerResume(m) ==
    /\ WorkerAt(m, "woken")
    /\ WorkerGoto(m, "hold", now)
    /\ UNCHANGED <<Others, queue, ticks, crashed>>

WorkerEmpty(m) ==
    /\ WorkerAt(m, "hold") /\ Queued(m) = {}
    /\ WorkerGoto(m, "check", 0)
    /\ UNCHANGED <<Others, queue, ticks, crashed>>

\* The top is not due: wait for as long as it was to go at tick_now, which may
\* be some time ago.
WorkerWait(m) ==
    /\ WorkerAt(m, "hold")
    /\ \E s \in Schedulables :
          /\ IsTop(m, s) /\ tick[s] > worker[m].at
          /\ WorkerGoto(m, "time", now + (tick[s] - worker[m].at))
    /\ UNCHANGED <<Others, queue, ticks, crashed>>

IsDue(m, s) == IsTop(m, s) /\ tick[s] <= worker[m].at
Popped(m, s) == queue' = [queue EXCEPT ![m][s] = @ - 1]

\* The top is due: it is popped, looked up in the set, and posted.
WorkerPost(m) ==
    /\ WorkerAt(m, "hold")
    /\ \E s \in Schedulables :
          /\ IsDue(m, s) /\ Popped(m, s)
          /\ \/ /\ s \in registered[m]
                /\ LET k == CHOOSE k \in Slots \ InFlight(s) : TRUE
                   IN ticks' = [ticks EXCEPT ![s][k] = [point |-> "posted", of |-> m]]
                /\ UNCHANGED crashed
             \/ /\ s \notin registered[m]
                /\ crashed' = TRUE
                /\ UNCHANGED ticks
    /\ UNCHANGED <<Others, worker>>

\* The exception leaves the loop with the mutex; the popped one is lost.
WorkerPostThrows(m) ==
    /\ Fails("post") /\ WorkerAt(m, "hold")
    /\ \E s \in registered[m] : IsDue(m, s) /\ Popped(m, s)
    /\ WorkerGoto(m, "check", 0)
    /\ UNCHANGED <<Others, ticks, crashed>>

-----------------------------------------------------------------------------
(* A tick, executed by an io thread: process_execute_schedulable *)

\* Under the mutex: is it still registered here, and has it a next tick?
TickCheck(s, k) ==
    /\ TickAt(s, k, "posted") /\ MutexFree(ticks[s][k].of)
    /\ IF manager[s] # ticks[s][k].of \/ tick[s] = Never
       THEN TickEnds(s, k) ELSE TickGoto(s, k, "checked")
    /\ UNCHANGED <<Others, queue, worker, crashed>>

\* process_schedule without the mutex: it executes, or it is too early.
TickStarts(s, k) ==
    /\ TickAt(s, k, "checked")
    /\ IF now < tick[s] THEN TickEnds(s, k) ELSE TickGoto(s, k, "executing")
    /\ UNCHANGED <<Others, queue, worker, crashed>>

\* m_tick_next + m_tick_diff_execute, which wraps round for the last time point.
NextTick(s) == Plus(tick[s], Interval[s])

\* What the callback throws is swallowed.
TickExecuted(s, k) ==
    /\ TickAt(s, k, "executing")
    /\ tick' = [tick EXCEPT ![s] = NextTick(s)]
    /\ TickGoto(s, k, "again")
    /\ UNCHANGED <<setting, now, run, registered, queue, worker, manager, hook,
                   attaches, crashed>>

\* Under the mutex again: it is queued for its next tick.
TickAgain(s, k) ==
    /\ TickAt(s, k, "again") /\ MutexFree(ticks[s][k].of)
    /\ IF manager[s] = ticks[s][k].of
       THEN PushSchedulable(ticks[s][k].of, s, tick[s])
       ELSE UNCHANGED <<queue, worker>>
    /\ TickEnds(s, k)
    /\ UNCHANGED <<Others, crashed>>

-----------------------------------------------------------------------------
(* process_initialize and process_destroy *)

StartManager(m) ==
    /\ run' = [run EXCEPT ![m] = TRUE]
    /\ WorkerGoto(m, "check", 0)
    /\ UNCHANGED <<setting, now, registered, queue, manager, tick, ticks, hook,
                   attaches, crashed>>

StopFlag(m) ==
    /\ run' = [run EXCEPT ![m] = FALSE]
    /\ UNCHANGED <<setting, now, registered, queue, worker, manager, tick, ticks,
                   hook, attaches, crashed>>

\* process_cancel_schedulable_all: the schedulables keep their manager.
CancelAll(m) ==
    /\ MutexFree(m)
    /\ registered' = [registered EXCEPT ![m] = {}]
    /\ queue' = [queue EXCEPT ![m] = [s \in Schedulables |-> 0]]
    /\ Notify(m, IF Queued(m) = {} THEN "exist" ELSE "time")
    /\ hook' = [s \in Schedulables |-> IF s \in registered[m] THEN "cancel" ELSE hook[s]]
    /\ UNCHANGED <<setting, now, run, manager, tick, ticks, attaches, crashed>>

Cancelling == \E s \in Schedulables : hook[s] = "cancel"

\* Time matters to a running manager.
ClockTicks ==
    /\ ~crashed /\ now < setting.until /\ \E m \in Managers : run[m]
    /\ now' = now + 1
    /\ UNCHANGED <<setting, run, registered, queue, worker, manager, tick, ticks,
                   hook, attaches, crashed>>

WorkerStep(m) ==
    \/ WorkerCheck(m) \/ WorkerLock(m) \/ Timeout(m) \/ WorkerResume(m)
    \/ WorkerEmpty(m) \/ WorkerWait(m) \/ WorkerPost(m)

TickStep(s, k) == TickCheck(s, k) \/ TickStarts(s, k) \/ TickExecuted(s, k) \/ TickAgain(s, k)

-----------------------------------------------------------------------------
(* Properties *)

Sum2(m, s) == queue[m][s] + Cardinality({k \in InFlight(s) : ticks[s][k].of = m})

\* A registered schedulable is queued or has one tick on its way, never both
\* and never twice, so that it is not executed by two threads and not
\* forgotten (process_execute_schedulable's re-push against process_detach
\* and process_attach), unless posting it threw, the application registered it
\* again during a tick, or its next tick is time_point::max().
OncePerSchedulable ==
    ~setting.overlaps /\ ~Fails("post") => \A m \in Managers :
        run[m] => \A s \in registered[m] :
            Sum2(m, s) <= 1 /\ (tick[s] # Never => Sum2(m, s) = 1)

\* The worker never pops an entry that is not in the set: the pointer would
\* be dangling (the queue holds raw pointers).
QueueIsRegistered ==
    ~setting.overlaps => \A m \in Managers : run[m] => Queued(m) \subseteq registered[m]

\* A schedulable that belongs to a running manager is in its set: one that
\* was rolled back can be registered again.
ManagedIsRegistered ==
    ~Fails("refuse") => \A s \in Schedulables :
        manager[s] # 0 /\ run[manager[s]] => s \in registered[manager[s]]

\* The set, the queue, the ticks on their way and the schedulables' managers
\* are one account of who is registered.
ListsAgree == OncePerSchedulable /\ QueueIsRegistered /\ ManagedIsRegistered

\* No execution begins after unregister_schedulable has returned, though the
\* manager is looked at with the mutex and process_schedule called without.
UnregisteredIsNotExecuted ==
    [][\A s \in Schedulables, k \in Slots :
          ticks[s][k].point = "checked" /\ ticks'[s][k].point = "executing" =>
          setting.overlaps \/ hook[s] # "none" \/ s \in registered[ticks[s][k].of]]_managerVars

\* A schedulable that is registered in a running manager and whose tick has
\* come is executed, or unregistered.
UnderWay(m, s) ==
    \E k \in Slots : ticks[s][k].point = "executing" /\ ticks[s][k].of = m
DueIsExecuted ==
    ~setting.overlaps /\ ~Fails("post") =>
    \A m \in Managers, s \in Schedulables :
        (run[m] /\ s \in registered[m] /\ tick[s] <= now) ~>
        (UnderWay(m, s) \/ s \notin registered[m] \/ crashed)
=============================================================================
