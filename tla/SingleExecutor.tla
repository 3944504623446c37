--------------------------- MODULE SingleExecutor ---------------------------
(***************************************************************************)
(* executor::single: one worker thread posts executables to the io threads *)
(* when their tick has come.  The heap is guarded by a mutex; the worker   *)
(* waits on one condition variable while it is empty and on another, with  *)
(* a timeout, until its top is due.  m_flag_run is read and written        *)
(* without the mutex.                                                      *)
(*                                                                         *)
(* The heap is the set of its entries here, its top any one that is due    *)
(* first; TimerHeap says how far the vector is such a set.                 *)
(***************************************************************************)
EXTENDS Integers, Sequences, FiniteSets

CONSTANTS
    Executables, \* each is posted once, by a thread of its own
    Due,         \* the tick each is to be executed at
    MaxTime,     \* bound: the last tick of the clock, it stands for any later
    MayCancel,   \* cancel(executable) is called
    MayStop      \* the system is destroyed

ASSUME DueAssumption == Due \in [Executables -> 0..MaxTime]
ASSUME MaxTimeAssumption == MaxTime \in Nat
ASSUME MaySwitchAssumption == MayCancel \in BOOLEAN /\ MayStop \in BOOLEAN

WorkerPoints == {"check", "lock", "wait_exist", "exist_woken", "run",
                 "wait_time", "time_woken", "exit"}
StopPoints == {"idle", "cancel", "join", "done"}
CallPoints == {"idle", "posted", "dropped"}

VARIABLES
    now,        \* clock::now()
    flagRun,    \* m_flag_run
    queue,      \* the executables in m_priorityqueue_executable
    worker,     \* where process_schedulable is; it holds the mutex in "run"
    tickNow,    \* its tick_now
    wakeAt,     \* when its wait_for ends
    begun,      \* history: the time at which the last wait_for began
    stopper,    \* where process_destroy is
    call,       \* how post_at of each executable went
    cancelled,  \* the executables that cancel() removed
    executed    \* the executables handed to the io threads, with the time

vars == <<now, flagRun, queue, worker, tickNow, wakeAt, begun, stopper, call,
          cancelled, executed>>

Execution == [id : Executables, at : 0..MaxTime]
Executed == {executed[i].id : i \in 1..Len(executed)}

TypeOK ==
    /\ now \in 0..MaxTime
    /\ flagRun \in BOOLEAN
    /\ queue \subseteq Executables
    /\ worker \in WorkerPoints
    /\ tickNow \in 0..MaxTime
    /\ wakeAt \in 0..(2 * MaxTime)
    /\ begun \in 0..MaxTime
    /\ stopper \in StopPoints
    /\ call \in [Executables -> CallPoints]
    /\ cancelled \subseteq Executables
    /\ executed \in Seq(Execution)

\* process_initialize has set the flag and started the thread.
Init ==
    /\ now = 0
    /\ flagRun = TRUE
    /\ queue = {}
    /\ worker = "check"
    /\ tickNow = 0
    /\ wakeAt = 0
    /\ begun = 0
    /\ stopper = "idle"
    /\ call = [t \in Executables |-> "idle"]
    /\ cancelled = {}
    /\ executed = <<>>

Locked == worker = "run"
IsTop(t, q) == t \in q /\ \A u \in q : Due[t] <= Due[u]

\* notify_one: nobody but the worker waits.
NotifyExist == worker' = IF worker = "wait_exist" THEN "exist_woken" ELSE worker
NotifyInTime == worker' = IF worker = "wait_time" THEN "time_woken" ELSE worker

-----------------------------------------------------------------------------
(* The callers *)

\* A bug: an executable due before all others does not wake the worker.
NotifyPushed_First(t) == IF queue = {} THEN NotifyExist ELSE UNCHANGED worker
\* A bug: the variable of the timed wait is notified for the first entry.
NotifyPushed_InTime(t) ==
    IF \A u \in queue : Due[t] < Due[u] THEN NotifyInTime ELSE UNCHANGED worker

\* Wake the worker for the first entry, and for one that got to the top.
NotifyPushed(t) ==
    IF queue = {} THEN NotifyExist
    ELSE IF \A u \in queue : Due[t] < Due[u] THEN NotifyInTime
    ELSE UNCHANGED worker

\* A bug: the flag is not looked at under the mutex.
PostAt_Unchecked(t) ==
    /\ ~Locked /\ call[t] = "idle"
    /\ queue' = queue \cup {t}
    /\ call' = [call EXCEPT ![t] = "posted"]
    /\ NotifyPushed(t)
    /\ UNCHANGED <<now, flagRun, tickNow, wakeAt, begun, stopper, cancelled,
                   executed>>

\* post_at, process_push_executable: a stopped executor drops the executable.
PostAt(t) ==
    /\ ~Locked /\ call[t] = "idle"
    /\ IF flagRun
       THEN /\ queue' = queue \cup {t}
            /\ call' = [call EXCEPT ![t] = "posted"]
            /\ NotifyPushed(t)
       ELSE /\ call' = [call EXCEPT ![t] = "dropped"]
            /\ UNCHANGED <<queue, worker>>
    /\ UNCHANGED <<now, flagRun, tickNow, wakeAt, begun, stopper, cancelled,
                   executed>>

\* cancel(executable): the worker is woken when the top goes.
CancelExecutable(t) ==
    /\ MayCancel /\ ~Locked
    /\ t \in queue
    /\ queue' = queue \ {t}
    /\ cancelled' = cancelled \cup {t}
    /\ IF IsTop(t, queue)
       THEN NotifyInTime \/ ((\E u \in queue \ {t} : Due[u] = Due[t]) /\ UNCHANGED worker)
       ELSE UNCHANGED worker
    /\ UNCHANGED <<now, flagRun, tickNow, wakeAt, begun, stopper, call,
                   executed>>

-----------------------------------------------------------------------------
(* process_destroy *)

StopFlag ==
    /\ MayStop /\ stopper = "idle"
    /\ flagRun' = FALSE
    /\ stopper' = "cancel"
    /\ UNCHANGED <<now, queue, worker, tickNow, wakeAt, begun, call, cancelled,
                   executed>>

\* cancel() of everything: the variable that is notified depends on the heap.
StopCancel ==
    /\ stopper = "cancel" /\ ~Locked
    /\ queue' = {}
    /\ cancelled' = cancelled \cup queue
    /\ IF queue = {} THEN NotifyExist ELSE NotifyInTime
    /\ stopper' = "join"
    /\ UNCHANGED <<now, flagRun, tickNow, wakeAt, begun, call, executed>>

StopJoin ==
    /\ stopper = "join" /\ worker = "exit"
    /\ stopper' = "done"
    /\ UNCHANGED <<now, flagRun, queue, worker, tickNow, wakeAt, begun, call,
                   cancelled, executed>>

-----------------------------------------------------------------------------
(* The worker *)

WorkerCheck ==
    /\ worker = "check"
    /\ worker' = IF flagRun THEN "lock" ELSE "exit"
    /\ UNCHANGED <<now, flagRun, queue, tickNow, wakeAt, begun, stopper, call,
                   cancelled, executed>>

\* Lock, then wait for an entry or read the clock; the wait gives the mutex back.
WorkerLock ==
    /\ worker = "lock"
    /\ IF queue = {} THEN worker' = "wait_exist" /\ UNCHANGED tickNow
                     ELSE worker' = "run" /\ tickNow' = now
    /\ UNCHANGED <<now, flagRun, queue, wakeAt, begun, stopper, call,
                   cancelled, executed>>

\* A wait ends with a notification, spuriously or, in time, by its timeout.
WaitEnds ==
    /\ \/ worker = "wait_exist" /\ worker' = "exist_woken"
       \/ worker = "wait_time" /\ worker' = "time_woken"
    /\ UNCHANGED <<now, flagRun, queue, tickNow, wakeAt, begun, stopper, call,
                   cancelled, executed>>

Timeout ==
    /\ worker = "wait_time"
    /\ now >= wakeAt \/ now = MaxTime
    /\ WaitEnds

\* Back from either wait, with the mutex: read the clock.
WorkerResume ==
    /\ worker \in {"exist_woken", "time_woken"}
    /\ worker' = "run"
    /\ tickNow' = now
    /\ UNCHANGED <<now, flagRun, queue, wakeAt, begun, stopper, call,
                   cancelled, executed>>

\* The heap is empty: out of the inner loop, the mutex is released.
WorkerEmpty ==
    /\ Locked /\ queue = {}
    /\ worker' = "check"
    /\ UNCHANGED <<now, flagRun, queue, tickNow, wakeAt, begun, stopper, call,
                   cancelled, executed>>

IsDue(t) == Due[t] <= tickNow

\* A bug: the difference is taken the wrong way round.
WorkerWait_Negative ==
    /\ Locked
    /\ \E t \in Executables :
          /\ IsTop(t, queue) /\ ~IsDue(t)
          /\ wakeAt' = now + (tickNow - Due[t])
    /\ begun' = now
    /\ worker' = "wait_time"
    /\ UNCHANGED <<now, flagRun, queue, tickNow, stopper, call, cancelled,
                   executed>>

\* The top is not due: wait for as long as it was not, seen from tick_now.
WorkerWait ==
    /\ Locked
    /\ \E t \in Executables :
          /\ IsTop(t, queue) /\ ~IsDue(t)
          /\ wakeAt' = now + (Due[t] - tickNow)
    /\ begun' = now
    /\ worker' = "wait_time"
    /\ UNCHANGED <<now, flagRun, queue, tickNow, stopper, call, cancelled,
                   executed>>

\* The top is due: post it to the io threads and pop it.
WorkerExecute ==
    /\ Locked
    /\ \E t \in Executables :
          /\ IsTop(t, queue) /\ IsDue(t)
          /\ queue' = queue \ {t}
          /\ executed' = Append(executed, [id |-> t, at |-> now])
    /\ UNCHANGED <<now, flagRun, worker, tickNow, wakeAt, begun, stopper, call,
                   cancelled>>

-----------------------------------------------------------------------------
ClockTicks ==
    /\ now < MaxTime
    /\ now' = now + 1
    /\ UNCHANGED <<flagRun, queue, worker, tickNow, wakeAt, begun, stopper,
                   call, cancelled, executed>>

WorkerStep ==
    \/ WorkerCheck \/ WorkerLock \/ WorkerResume
    \/ WorkerEmpty \/ WorkerWait \/ WorkerExecute
StopStep == StopCancel \/ StopJoin

Next ==
    \/ \E t \in Executables : PostAt(t) \/ CancelExecutable(t)
    \/ StopFlag \/ StopStep \/ WorkerStep \/ WaitEnds \/ ClockTicks

\* The worker runs, a timed wait ends at the latest a while after its time, a
\* begun process_destroy gets the mutex, time passes.  Nothing is assumed of
\* the callers, and no wait ends spuriously by assumption.
Fairness ==
    /\ WF_vars(WorkerStep) /\ WF_vars(Timeout) /\ WF_vars(ClockTicks)
    /\ SF_vars(StopCancel) /\ WF_vars(StopJoin)

Spec == Init /\ [][Next]_vars
FairSpec == Spec /\ Fairness

-----------------------------------------------------------------------------
(* Properties *)

\* Nothing is executed before its tick, whatever the waits and their ends.
NotEarly == \A i \in 1..Len(executed) : executed[i].at >= Due[executed[i].id]

\* An executable is executed at most once, and never after cancel() of it
\* returned true or process_destroy cancelled everything.
ExecutedOnce ==
    /\ \A i, j \in 1..Len(executed) : executed[i].id = executed[j].id => i = j
    /\ Executed \cap cancelled = {}

\* No notification is lost: the worker sleeps without a timeout only when there
\* is nothing to do, and with one no longer than until the present top is due,
\* be it one that came after the wait began.  The code counts the wait from
\* tick_now, which it read before it got to wait_for (executor.single.cpp:203),
\* so the wait may end that much too late, and by no more.
SleepsForTheTop ==
    /\ worker = "wait_exist" => queue = {}
    /\ worker = "wait_time" =>
          \E t \in queue : IsTop(t, queue) /\ wakeAt <= Due[t] + (begun - tickNow)

\* What process_destroy waits for is that of an empty executor: no post_at
\* slips in between m_flag_run and the cancelling.
StoppedIsEmpty == stopper \in {"join", "done"} => queue = {}

\* What is executed: an executable in its time, once, and none that was
\* cancelled or comes too late for an executor that stops.
ExecutedRightly == NotEarly /\ ExecutedOnce /\ StoppedIsEmpty

\* Every executable that was queued gets executed, unless it is cancelled.
PostedIsExecuted ==
    \A t \in Executables :
        call[t] = "posted" ~> t \in Executed \cup cancelled

\* process_destroy comes to its end (executor.single.cpp:170).
StopCompletes == stopper = "cancel" ~> stopper = "done"
=============================================================================
