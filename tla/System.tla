------------------------------- MODULE System -------------------------------
(***************************************************************************)
(* system: created by the first thread that asks for the instance, it runs *)
(* the io threads, the single executor and the schedulable manager, and    *)
(* destroys them in an order of its own.  get_instance() looks at          *)
(* pinstance without the lock, so two threads may create a system each.  A *)
(* call holds the instance it got only until it has the manager: the last  *)
(* one to let go of a system destroys it, and calls its manager then.      *)
(* Manager y is that of system y.                                          *)
(***************************************************************************)
EXTENDS SchedulableManager

Creators == {1, 2}

ASSUME ManagersAssumption == Managers = {1, 2}

Stages == {"none", "flag", "threads", "executor", "scheduler", "ready",
           "stop_flag", "stop_cancel", "stop_hooks", "stop_join",
           "stop_executor", "stop_io", "stop_threads", "destroyed"}
Running == {"scheduler", "ready"}
CreatorPoints == {"idle", "copy", "create", "publish", "have", "destroy", "call"}

VARIABLES
    pinstance, \* the instance, 0 for null
    creator,   \* where a call of each thread is, the system it made, got or
               \* destroys, and the manager it has
    stage,     \* how far each system has come
    holder,    \* who holds lock_instance, 0 for nobody
    ioRun      \* the io threads of each system run

systemVars == <<pinstance, creator, stage, holder, ioRun>>
vars == <<managerVars, systemVars>>

TypeOK ==
    /\ ManagerTypeOK
    /\ pinstance \in Managers \cup {0}
    /\ creator \in [Creators -> [point : CreatorPoints, system : Managers \cup {0},
                                 manager : Managers \cup {0}]]
    /\ stage \in [Managers -> Stages]
    /\ holder \in Creators \cup {0}
    /\ ioRun \in [Managers -> BOOLEAN]

Init ==
    /\ ManagerInit
    /\ pinstance = 0
    /\ creator = [c \in Creators |-> [point |-> "idle", system |-> 0, manager |-> 0]]
    /\ stage = [y \in Managers |-> "none"]
    /\ holder = 0
    /\ ioRun = [y \in Managers |-> FALSE]

CreatorGoto(c, point, y, m) ==
    creator' = [creator EXCEPT ![c] = [point |-> point, system |-> y, manager |-> m]]
StageGoto(y, next) == stage' = [stage EXCEPT ![y] = next]
CreatorAt(c, point) == ~crashed /\ creator[c].point = point

-----------------------------------------------------------------------------
(* get_instance() *)

\* Nobody asks for the instance once the program's exit destroys it.
InstanceLives == pinstance # 0 => stage[pinstance] = "ready"

\* The unlocked look at pinstance.
LookInstance(c) ==
    /\ CreatorAt(c, "idle") /\ c <= setting.creators /\ InstanceLives
    /\ CreatorGoto(c, IF pinstance # 0 THEN "copy" ELSE "create", 0, 0)
    /\ UNCHANGED <<managerVars, pinstance, stage, holder, ioRun>>

\* And the copy of it that is returned.
CopyInstance(c) ==
    /\ CreatorAt(c, "copy") /\ InstanceLives
    /\ CreatorGoto(c, "have", pinstance, 0)
    /\ UNCHANGED <<managerVars, pinstance, stage, holder, ioRun>>

\* Another thread may be assigning pinstance meanwhile: half of the one and
\* half of the other pointer.
CopyTorn(c) ==
    /\ CreatorAt(c, "copy")
    /\ holder # 0 /\ stage[creator[holder].system] \in {"scheduler", "ready"}
    /\ crashed' = TRUE
    /\ UNCHANGED <<setting, now, run, registered, queue, worker, manager, tick,
                   ticks, hook, attaches, systemVars>>

\* A bug: the instance is set before it is initialised.
CreateInstance_Early(c) ==
    /\ CreatorAt(c, "create") /\ holder = 0
    /\ holder' = c
    /\ LET y == IF stage[1] = "none" THEN 1 ELSE 2
       IN CreatorGoto(c, "create", y, 0) /\ StageGoto(y, "flag") /\ pinstance' = y
    /\ UNCHANGED <<managerVars, ioRun>>

\* process_initialize_instance does not look again.
CreateInstance(c) ==
    /\ CreatorAt(c, "create") /\ holder = 0
    /\ holder' = c
    /\ LET y == IF stage[1] = "none" THEN 1 ELSE 2
       IN CreatorGoto(c, "create", y, 0) /\ StageGoto(y, "flag")
    /\ UNCHANGED <<managerVars, pinstance, ioRun>>

Creating(c, at) == ~crashed /\ holder = c /\ stage[creator[c].system] = at

InitializeThreads(c) ==
    /\ Creating(c, "flag")
    /\ StageGoto(creator[c].system, "threads")
    /\ ioRun' = [ioRun EXCEPT ![creator[c].system] = TRUE]
    /\ UNCHANGED <<managerVars, pinstance, creator, holder>>

InitializeExecutor(c) ==
    /\ Creating(c, "threads")
    /\ StageGoto(creator[c].system, "executor")
    /\ UNCHANGED <<managerVars, pinstance, creator, holder, ioRun>>

InitializeScheduler(c) ==
    /\ Creating(c, "executor")
    /\ StageGoto(creator[c].system, "scheduler")
    /\ StartManager(creator[c].system)
    /\ UNCHANGED <<pinstance, creator, holder, ioRun>>

\* A step of process_initialize throws: its roll-back destroys a scheduler
\* that is not there yet.
InitializeThrows(c) ==
    /\ Fails("init")
    /\ \E at \in {"flag", "threads", "executor"} : Creating(c, at)
    /\ crashed' = TRUE
    /\ UNCHANGED <<setting, now, run, registered, queue, worker, manager, tick,
                   ticks, hook, attaches, systemVars>>

\* Nobody else has y.
LastHolder(c, y) == pinstance # y /\ \A d \in Creators \ {c} : creator[d].system # y

\* pinstance is set.  When it was the last one that held another system, that
\* is destroyed in the assignment.
Publish(c) ==
    /\ Creating(c, "scheduler")
    /\ pinstance' = creator[c].system
    /\ StageGoto(creator[c].system, "ready")
    /\ IF pinstance # 0 /\ \A d \in Creators : creator[d].system # pinstance
       THEN CreatorGoto(c, "publish", creator[c].system, 0) /\ UNCHANGED holder
       ELSE CreatorGoto(c, "have", creator[c].system, 0) /\ holder' = 0
    /\ UNCHANGED <<managerVars, ioRun>>

Published(c) ==
    /\ CreatorAt(c, "publish")
    /\ \A y \in Managers \ {creator[c].system} : stage[y] = "destroyed"
    /\ CreatorGoto(c, "have", creator[c].system, 0)
    /\ holder' = 0
    /\ UNCHANGED <<managerVars, pinstance, stage, ioRun>>

-----------------------------------------------------------------------------
(* Calls through an instance *)

\* register_schedulable and unregister_schedulable copy the manager out of the
\* temporary instance, which ends with that.
CopyManager(c) ==
    /\ CreatorAt(c, "have")
    /\ LET y == creator[c].system
       IN IF LastHolder(c, y) THEN CreatorGoto(c, "destroy", y, y)
                              ELSE CreatorGoto(c, "call", 0, y)
    /\ UNCHANGED <<managerVars, pinstance, stage, holder, ioRun>>

\* Other calls are done with it.
Release(c) ==
    /\ CreatorAt(c, "have")
    /\ LET y == creator[c].system
       IN IF LastHolder(c, y) THEN CreatorGoto(c, "destroy", y, 0)
                              ELSE CreatorGoto(c, "idle", 0, 0)
    /\ UNCHANGED <<managerVars, pinstance, stage, holder, ioRun>>

\* The thread that held the system last has destroyed it.
Destroyed(c) ==
    /\ CreatorAt(c, "destroy") /\ stage[creator[c].system] = "destroyed"
    /\ LET m == creator[c].manager
       IN CreatorGoto(c, IF m = 0 THEN "idle" ELSE "call", 0, m)
    /\ UNCHANGED <<managerVars, pinstance, stage, holder, ioRun>>

\* The call of the manager it has.
Calls(c) == CreatorAt(c, "call") /\ CreatorGoto(c, "idle", 0, 0)

\* The manager may run, be stopped or be destroyed.
Register(c, s) ==
    /\ Calls(c)
    /\ LET m == creator[c].manager
       IN Attach(m, s) \/ AttachRefused(m, s) \/ AttachThrows(m, s)
    /\ UNCHANGED <<pinstance, stage, holder, ioRun>>

Unregister(c, s) ==
    /\ Calls(c)
    /\ Detach(creator[c].manager, s)
    /\ UNCHANGED <<pinstance, stage, holder, ioRun>>

\* Registering what has a manager or unregistering what has another one.
CallIgnored(c) ==
    /\ Calls(c) /\ MutexFree(creator[c].manager)
    /\ UNCHANGED <<managerVars, pinstance, stage, holder, ioRun>>

-----------------------------------------------------------------------------
(* process_destroy, at the exit of the program or of the last holder *)

\* The last one that held it is a creator that has let go, or the program.
DestroyBegins(y) ==
    /\ ~crashed /\ stage[y] = "ready"
    /\ pinstance # y \/ setting.exits
    /\ \A c \in Creators : creator[c].system = y => creator[c].point = "destroy"
    /\ StageGoto(y, "stop_flag")
    /\ UNCHANGED <<managerVars, pinstance, creator, holder, ioRun>>

Stopping(y, at) == ~crashed /\ stage[y] = at

DestroyFlag(y) ==
    /\ Stopping(y, "stop_flag")
    /\ StopFlag(y)
    /\ StageGoto(y, "stop_cancel")
    /\ UNCHANGED <<pinstance, creator, holder, ioRun>>

DestroyCancel(y) ==
    /\ Stopping(y, "stop_cancel")
    /\ CancelAll(y)
    /\ StageGoto(y, "stop_hooks")
    /\ UNCHANGED <<pinstance, creator, holder, ioRun>>

DestroyJoin(y) ==
    /\ Stopping(y, "stop_hooks") /\ ~Cancelling
    /\ worker[y].point = "done"
    /\ StageGoto(y, "stop_executor")
    /\ UNCHANGED <<managerVars, pinstance, creator, holder, ioRun>>

\* The single executor, then io_service::stop(); handlers that run go on.
DestroyThreads(y) ==
    /\ Stopping(y, "stop_executor")
    /\ ioRun' = [ioRun EXCEPT ![y] = FALSE]
    /\ StageGoto(y, "stop_threads")
    /\ UNCHANGED <<managerVars, pinstance, creator, holder>>

\* The ticks an io thread has begun with.
Handler(s, k) == ticks[s][k].point \notin {"none", "posted"}

DestroyJoinThreads(y) ==
    /\ Stopping(y, "stop_threads")
    /\ ~ \E s \in Schedulables, k \in Slots : pinstance = y /\ Handler(s, k)
    /\ StageGoto(y, "destroyed")
    /\ UNCHANGED <<managerVars, pinstance, creator, holder, ioRun>>

-----------------------------------------------------------------------------
\* A posted tick needs an io thread to begin: of the instance that system::post
\* found, which is the manager's own unless that lost pinstance.
IoTick(s, k) ==
    /\ ticks[s][k].point = "posted" =>
          \E y \in Managers : y \in {pinstance, ticks[s][k].of} /\ ioRun[y]
    /\ TickStep(s, k)
    /\ UNCHANGED systemVars

CreatorStep(c) ==
    \/ CreateInstance(c) \/ InitializeThreads(c) \/ InitializeExecutor(c)
    \/ InitializeScheduler(c) \/ Publish(c) \/ Published(c)
DestroyStep(y) ==
    \/ DestroyFlag(y) \/ DestroyCancel(y) \/ DestroyJoin(y)
    \/ DestroyThreads(y) \/ DestroyJoinThreads(y)

Next ==
    \/ \E c \in Creators :
          \/ LookInstance(c) \/ CopyInstance(c) \/ CopyTorn(c)
          \/ CreatorStep(c) \/ InitializeThrows(c)
          \/ CopyManager(c) \/ Release(c) \/ Destroyed(c) \/ CallIgnored(c)
          \/ \E s \in Schedulables : Register(c, s) \/ Unregister(c, s)
    \/ \E y \in Managers : DestroyBegins(y) \/ DestroyStep(y)
    \/ \E m \in Managers :
          /\ WorkerStep(m) \/ WorkerPostThrows(m) \/ SpuriousWakeup(m)
          /\ UNCHANGED systemVars
    \/ \E s \in Schedulables :
          \/ OnUnregister(s) /\ UNCHANGED systemVars
          \/ \E k \in Slots : IoTick(s, k)
    \/ ClockTicks /\ UNCHANGED systemVars

\* Threads go on, time passes and a timed wait ends.  A handler runs to its
\* end: it gets the mutex though the worker may be woken for no reason again
\* and again.  A schedulable has one tick on its way at a time.  Nobody is obliged to call, and the program need not exit.
Fairness ==
    /\ \A m \in Managers : WF_vars(WorkerStep(m) /\ UNCHANGED systemVars)
    /\ \A s \in Schedulables :
          /\ WF_vars(OnUnregister(s) /\ UNCHANGED systemVars)
          /\ SF_vars(\E k \in Slots : IoTick(s, k))
    /\ \A y \in Managers : WF_vars(DestroyStep(y))
    /\ WF_vars(ClockTicks /\ UNCHANGED systemVars)

Spec == Init /\ [][Next]_vars
FairSpec == Spec /\ Fairness

-----------------------------------------------------------------------------
(* Properties *)

\* get_instance() never returns a system that is still being initialised, nor
\* one that is being destroyed while a call has it, though it does not take the
\* lock.
InstanceIsReady ==
    /\ pinstance # 0 => stage[pinstance] \notin {"none", "flag", "threads", "executor"}
    /\ \A c \in Creators : creator[c].point = "have" => stage[creator[c].system] = "ready"
    /\ \A y \in Managers :
          y \in {creator[c].manager : c \in Creators} =>
              stage[y] \notin {"none", "flag", "threads", "executor"}

\* After process_destroy has returned no thread of the system is left and no
\* callback of its schedulables runs.  Those of a system that lost pinstance
\* are executed by the threads of the other one, or after it.
DestroyedIsQuiet ==
    \A y \in Managers : stage[y] = "destroyed" =>
        /\ ~run[y] /\ ~ioRun[y] /\ worker[y].point = "done"
        /\ pinstance = y =>
              \A s \in Schedulables, k \in Slots : Handler(s, k) => ticks[s][k].of # y

\* From the first get_instance() to the exit: ready before it is handed out,
\* quiet once it is destroyed.
InstanceLivesRightly == InstanceIsReady /\ DestroyedIsQuiet
=============================================================================
