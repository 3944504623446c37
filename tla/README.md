# Verification of CGDK.asio

TLA+ models of the C++ network library CGDK.asio, checked with TLC and, where the
prover reaches, proved with TLAPS. Source paths below are relative to the
repository; the library itself is in `src/*.cpp`, `include/cgdk/asio/*` and
`include/cgdk/buffers/*`. `PROJECT.json` maps every definition to the lines it
models, and lists the hazards with the properties that are about them.

## 1. The system

CGDK.asio wraps `boost::asio` for servers with many TCP sockets. A pool of io
threads (`system`) runs all completion handlers; there are no strands, so two
handlers of one object may run at the same time as each other and as calls of
the application. What protects an object is one mutex per socket
(`m_lock_socket`), one per list, an atomic `m_socket_state`, and `shared_ptr`s
that an object holds on itself while an operation is outstanding.

| component | state | operations | interacts through |
|---|---|---|---|
| `Isocket_tcp`, `Nsocket_tcp` | `m_socket_state`, native handle, `m_hold_async`, receive buffer, `m_pconnective` | complete connect, receive handler, `closesocket`, `process_closesocket`, synchronous send, destructor | virtual callbacks to the application, list of its `Nconnective` |
| `Nconnector`, `Nconnect_requestable` | executor, the sockets being connected | `start`, `request_connect`, completion handler with roll-back | state and handle of the socket |
| `Nconnective` | set of sockets | register, unregister, close, disconnect or send to all | `m_pconnective` of each socket, both mutexes |
| `Nacceptor` | accept socket, list of accept instances | `start`, `close`, accept handler | creates sockets, registers them, keeps itself alive through its instances |
| `Nsocket_tcp_async` | `m_send_msgs`, `m_hold_send` | `send`, write handler, clearing on close | the socket's state, handle and mutex |
| `Nsocket_tcp_async_gather` | as above, plus a batch of messages that is being written | as above | as above |
| `executor::single` | heap of executables, run flag, worker thread, two condition variables | `post_at`, `cancel`, initialise, destroy | posts to the io threads |
| `schedulable_manager` | heap and set of schedulables, run flag, worker | register, unregister, execute and push again, destroy | calls schedulables on the io threads; they may register and unregister |
| `system` | the singleton, io threads, both schedulers | `get_instance`, initialise, destroy | everything |
| `group::list`, `Igroupable` | members with an iterator back into the list, two mutexes per group | `enter`, `leave`, `leave_all`, `send` | a member's current group, other groups |
| `message_transmitter` | list of receivers | register, unregister, transmit | messageables, in the example groups |
| buffers and serializers | memory, position, size, bounds | append, prepend, extract, look at, measure | what one side writes the other one reads |
| `Nstatistics` | atomic counters | add | all of the above |

What is hard here, and tested by nothing in the repository (it has examples
only): handlers of one session that overlap with the next session of the same
object; the closing of a session by a thread that is not its receive handler;
exceptions of callbacks and allocations between two assignments; condition
variables with a flag outside of their mutex; index arithmetic of a
hand-written heap; entries that are out of their queue while a handler runs;
lists kept twice under three locks; life times that hang on a hold set by one
handler and reset by another, or on references that form a circle; messages cut
anywhere by the network while memory is handed from one read to the next.

What makes each component correct:

* *socket*: callbacks in the documented order, complete, and of one session at a
  time; nothing runs on a destroyed object, and every object is destroyed in the
  end; a socket that may be started again is not in a list any more.
* *asynchronous send*: one write at a time; the peer sees the accepted messages in
  order and whole; the hold lives as long as the writes.
* *acceptor*: its list is that of its sessions; it keeps as many accepts as it was
  started with; after `close()` the instances go, and the acceptor with them.
* *timer heap*: it is a priority queue. *Schedulers*: not early, once, no lost
  notification, clean stop; nothing is called after it was unregistered.
* *system*: handed out when it is ready, quiet when it is destroyed.
* *group and transmitter*: list, member and transmitters agree, the door is kept,
  no lock order stops two callers for ever.
* *buffers and receiving*: the size promised is the size written, and what is read
  is what was written, however the bytes were cut.

## 2. Modules

| module | models |
|---|---|
| `SessionProtocol` | abstract: the callbacks an application gets for each start |
| `TcpSession` | one client socket with its connector, receive chain, closing, holds |
| `SendStream` | abstract: the byte stream `send()` promises |
| `AsyncSend` | both asynchronous senders |
| `Acceptor` | `Nacceptor` with its instances and sessions |
| `TimerQueue` | abstract: a set of timers, earliest first |
| `TimerHeap` | the binary heap of both schedulers |
| `SingleExecutor` | `executor::single`: callers, worker, `process_destroy` |
| `SchedulableManager` | the other scheduler: worker, ticks on io threads, registering |
| `System` | composes managers with the life of the system |
| `GroupList` | `group::list`, `Igroup`, `Igroupable` |
| `MessageTransmitter` | `message_transmitter` |
| `GroupChat` | composes groups with the transmitters of their members |
| `BufferView`, `BasicBuffer`, `Serializers` | operators: reading, writing, and which of both a type uses |
| `MessagePath` | a message from the values put into it to those read from it |
| `TcpSession_proofs`, `AsyncSend_proofs`, `SingleExecutor_proofs`, `Acceptor_proofs`, `GroupChat_proofs`, `System_proofs`, `Serializers_proofs`, `MessagePath_proofs` | the theorems |
| `MC...` | constants for TLC |

Most modules have a constant `Settings` and a variable `setting` that is
chosen from it initially and never changes: what may go wrong in a behaviour,
how often the application calls, who it is. One run so covers a quiet application
with deep behaviours and a hostile one with short ones, and a property can say
for which it is claimed. An operator named `X_Something` with the comment "A
bug" is not part of a model: it is a mistaken form of `X` the properties are
tried against.

### TcpSession

Each accepted `start()` or `request_connect()` is an *attempt*. An attempt has two
threads of control: `Conn(k)`, the caller and then the completion handler of
`async_connect`, and `Recv(k)`, the chain of `async_read_some` handlers, of
which one is outstanding at a time. `pc` says where each is. The points are
chosen so that the code between two of them touches shared state at most once,
so every interleaving of the real handlers is there; what a mutex makes atomic
is one step. `"pending"` is an outstanding operation, `"ok"` and `"err"` one that
completed and whose handler has not run yet.

`handle` is the native socket: 0 when closed, otherwise the attempt that uses it,
so that a read of an earlier attempt is seen to be aborted by a close.
`registered` stands for both the connector's set and `m_pconnective`, which change
together under both mutexes. `holdAsync` and `localHold` are `m_hold_async` and a
handler's local copy. `heard` is what the application was told. `keep` is this
object's share of `statistics_connect_keep`. The shared pointers of the object
are `appRef`, `registered`, the holds and the one in the connect handler; when none is
left, `Destroy` may run.

The faults are a throwing `on_connect` or `on_message`
(framing errors included), a failing allocation, an `async_read_some` that
throws, and the spurious failure of `compare_exchange_weak`.

Left out: contents of messages and buffers (`Deliver` chooses between no
message, some, a partial one and an exception; `MessagePath` has them), time
stamps, linger options, and
a throwing `on_request_connect`. `disconnect()` only asks the peer for an end of
stream, which `ReadCompletes` allows at any time.

### AsyncSend

Senders, the write handler and `process_closesocket` of one session, of an object
that is one or the other sender (`gather`). The queueing one writes the front of
`queue`, the gathering one moves the whole queue into `sending` and writes that;
what was not written goes back in front. A write is a
record of the data it was given, what was left of it, and its status; closing the
handle turns the pending ones into errors. `m_lock_socket` makes pushing and
handling one step each; the check of `m_socket_state` before it, and the handler of
a failed write without it, are steps of their own. `undefined` is set where the
code uses `front()` of an empty list or moves a buffer past its end; nothing is
modelled after that. Messages have any sizes, 0 among them: `send()` looks at none, a
write of no bytes completes at once, and the gathering sender takes one for no message
at all (`MustWait`, `BatchGone`). `writes` therefore is a set.

### Acceptor

`starter` and `closer` are the places of `start()` and `close()` in two
application threads, `instance[i]` that of each accept instance, which goes from
accept to accept through its handler and its roll-backs. `context` is
`m_accept_context`, `listening` the accept sockets that are open, `listed` the
socket list. A session goes on as in `TcpSession`, and its registering and
unregistering are the steps it shares with the acceptor; only its end is seen.
`freed` says how the acceptor was destroyed: by its owner, or by an instance that
erased itself and still holds the mutex. `crashed` is a null context that is
used, and an exception that leaves a handler. The faults are a failing accept, a socket
that cannot be created, a throwing `on_connect`, a failing allocation, a first read that
throws (`Closes`: the session is closed within the accept handler), and exchanges that
fail spuriously: one of `process_accept` throws, one of `process_complete_connect`
leaves a session in state SYN and in the list for good.

### TimerHeap and SingleExecutor

`TimerHeap` has the index arithmetic of push, pop and cancel as operators on a
sequence: a hole moves along a path (`Holes`, `HolesUp`) and the entries on it
shift. `BelowPopped` and `BelowCancelled` are the one place where pop and cancel
differ in the code. Positions count from 1. The two classes contain the same
code twice; the map names either one.

`SingleExecutor` uses the set that `TimerHeap` is shown to implement. `worker` is the
place of `process_schedulable`; it holds the mutex only in `"run"`. The callers'
operations are one step under the mutex. `process_destroy` sets the flag without
the mutex, then cancels under it, then joins. Waits end by `notify_one` (which
changes the worker's place, as nobody else waits), by their time, or spuriously.
A clock that has reached `MaxTime` stands for any later time.

### SchedulableManager and System

A schedulable is in `registered` (`m_set_schedulable`) from registering to
unregistering, and in `queue` except while a tick of it is on its way: posted,
checked against the set, executing, about to be queued again (`ticks`). `manager`
is `m_pschedulable_manager`, `hook` a `process_on_unregister` that is about to be called
outside of the mutex. The queue is a bag, for a schedulable registered again
during its tick is in it twice. `System` adds who creates the instance, in which
order the parts start and stop, and which io threads a posted tick needs; an io
thread runs any handler. The single executor is one step of that order here.

`register_schedulable` and `unregister_schedulable` are not one step: a call looks at
`pinstance`, copies it, copies the manager out of the copy, which it lets go of, and
then calls the manager (`creator` has the point, the instance and the manager). Who lets
go of a system last destroys it in the middle of its call. The manager that is called may
be stopped or destroyed: `process_attach` does not look. `CopyTorn` is a copy of
`pinstance` while another thread assigns it. Intervals are any integers; a
sum beyond the clock's last time point wraps round (`Plus`), as one before its first it is due
at once.

### GroupList, MessageTransmitter and GroupChat

Each member calls from one thread, its socket's handlers; `Admin` is one more
thread. Every point at which `enter`, `leave` and `leave_all` acquire or release
one of the three kinds of lock (`enterLock`, `groupLock`, `memberLock`) is a step.
Membership is kept in `list`, `iter` and `group`. `crashed` is an iterator that
is used after its entry was erased. `GroupChat` adds what the group
example does in the callbacks: a group registers with the transmitter of a member
that enters, unregisters from one that leaves, and sends on what it hears.

### BufferView, BasicBuffer, Serializers and MessagePath

A view is a record of memory, position and size; a buffer has the bounds of its
memory as well. The operators follow the code's bound checks, counts,
terminators and alignment, byte by byte, with narrow integers (`CountBytes`,
`WordBytes`). `Serializers` has for each group of types how it is written, read, looked at
and measured, which in the code are four templates that never call each other.
`IsValue` and `IsMessage` say what an application can put into a message: what the types
can hold and what compiles. Lengths and sizes have the width the code writes them in, so a
count that does not fit is not a value.

`MessagePath` composes them: a message is allocated with the size that
`get_size_of` promises, filled, given a header, sent in pieces, received by
`Nsocket_tcp` into a block that may be used up, with what was left over carried
to the next block, cut into messages and read again: taken out, and looked at with `front` as far
as there is one (behind an object the offset stands still, so looking stops there).
The receiver may keep a message, which shares the block.

## 3. Runs

| run | instance | shows |
|---|---|---|
| `TcpSessionRun` | started twice by a connector or by itself, callbacks throwing; once with allocations failing, and with all faults | `CallbackProtocol`: refinement of `SessionProtocol`. `HoldCoversRead`: the object outlives its reads whenever the application lets go. `RestartableIsUnlisted`, `BooksAgree`: lists and statistic. `ClosedIsReported`, `NoLeak`: the end of a session is told, and the object is destroyed |
| `TcpSessionHold` | 2 attempts, no fault | violation of `HoldCoversEveryRead` |
| `AsyncSendRun` | 4 messages of 2, 1, 1 and 0 units, either sender, closing, failing and throwing writes | `InOrderStream`: refinement of `SendStream`. `OneWriteForTheFront`, `HoldIsForWrites`, `AcceptedIsSent`, `ClosedIsReleased` |
| `AcceptorRun` | 1 worker and 2 starts, 2 workers and 1 start, 2 connections; no fault, a throwing `on_connect` or first read, all faults, with and without failing exchanges | `ListAgrees`, `FullStrength`, `InstancesDrain`, `AcceptorIsFreed` |
| `AcceptorClose` | 1 worker, start and connection, no fault | violation of `CloseEndsSessions` |
| `TimerHeapQueue` | 7 timers, 3 ticks, cancel up to 6 entries | `HeapOrdered`, `IsTimerQueue`: refinement of `TimerQueue` |
| `TimerHeapSeven` | 7 timers, 2 ticks, cancel of any | violation of `HeapOrdered` |
| `SingleExecutorRun` | 3 executables, two with one tick; cancel and stop | `ExecutedRightly`, `SleepsForTheTop`, `PostedIsExecuted` |
| `SingleExecutorHang` | 2 executables, stop | violation of `StopCompletes` |
| `SystemRun` | 2 schedulables, one that is always due and one of interval 1, clock to 1; one thread: 3 registers undisturbed, 2 with refusals and throws, with throwing posts or with an overlap, 1 beside the exit; two threads that create a system each, with failing initialisations, and 1 register at time 0 | `InstanceLivesRightly`, `ListsAgree`, `UnregisteredIsNotExecuted`, `DueIsExecuted` |
| `GroupChatRun` | 2 groups of one or two, 2 members and `Admin` with 2 calls each, 8 settings | `MembershipAgrees`, `ReceiversAgree`, `DoorIsKept`, `OnlyMembersAreHeard`, `CallsReturn` |
| `MessagePathRun` | each kind of value between others, appended or prepended, with enough room or one byte short; pairs of messages from an empty one to one that is too long | `SizeOfAgrees`, `DeliveredAsSaid`, `NothingIsLost` |

Each passing run checks its module's `TypeOK` as well (`HTypeOK` of the heap, whose names begin
with an H where the executor has the same). Deadlock is checked where nothing may stop,
in the heap's runs and `MessagePathRun`; a session that is over, a queue that is
empty, an executor that was joined and members that made their calls stop.

The bounds. Two attempts are the least that lets one session's handlers meet
those of the next; a third meets the second in the same way, and the proofs hold
for any number. Three messages let a queue have a front, a middle and an end while
the first is written in two pieces; a fourth is empty. Two workers share an accept context, and two
starts give an instance of an old context and one of a new; two connections let
one be listed while the other is rolled back. Seven entries are the first heap whose
second level has a right child with children, which is where pop and cancel
differ; three ticks give earlier, equal and later. Three executables with a
shared tick let the top be replaced, cancelled and tied; two schedulables of
different intervals do so for the manager, one of them queued again and again beside the other's
wait, and three registers let one be
registered, unregistered and registered again beside the other. Two groups are what a
member moves between and two members what can meet in opposite directions; with
one place the second is refused, with two it is not. A block of 12 bytes is used
up by one message or several, `MinRoom` below and above what is left, and the
largest message is more than two blocks long.
`WriteSome` and a receive take one byte or all, which cuts a message anywhere.

Fairness. Io threads run every handler that is ready, so handler steps are weakly
fair, and so are the remaining steps of a call that has begun. `async_connect` ends
at the kernel's timeout at the latest; a read ends by
fairness only after its handle was closed, for a peer may be silent for ever. A
write ends because the peer reads or the connection fails; an accept because its
socket was closed, never because somebody connects. Nothing is assumed of
the application: it need not call, close or let go. A spurious end of a wait is possible but
not fair. `StopCancel` in `SingleExecutor` and the ticks in `System` are strongly
fair, which stands for a mutex that lets a waiting thread in eventually although
the worker may take it again and again. Weak fairness is enough for groups, since
the calls are bounded and a lock that is asked for stays free once they are over.
`Acceptor` and `AsyncSend` have weak fairness throughout.

Several properties name behaviours they do not cover, each for a reason found in the
code and told in section 4: `setting` or `faults` in a premise is such a limit.

## 4. What the violations say

* `TcpSessionHold`: `process_closesocket` makes the socket restartable
  (`Nsocket_tcp.cpp:119`) before its caller resets `m_hold_async` (209). A restart in
  between arms a new read under that hold, and the reset then drops it.
* `TimerHeapSeven`: in `cancel()` and `process_detach()` the down heap chooses the
  right child without moving `pos_now` (`executor.single.cpp:88-101`,
  `schedulable_manager.cpp:363-366`).
* `SingleExecutorHang`: the worker saw the flag set and has not locked the mutex yet;
  `process_destroy` clears the flag and notifies; the worker finds an empty heap
  and waits (`executor.single.cpp:181-188`). `schedulable_manager.cpp:106-113` is alike.
* `AcceptorClose`: `close()` says it closes every socket of the acceptor
  (`Nacceptor.cpp:53`); it copies and closes the list at 58, and the accept socket at 77.
  What is accepted in between stays established.

Seen while modelling, without a run. A socket: a `Nconnect_requestable` whose `on_connect`
throws gets neither `on_fail_connect` nor `on_disconnect`
(`Nconnect_requestable.cpp:73-77`), so `CallbackProtocol` is claimed for it
without that fault; a failed attempt of it leaves the handle open (58);
`Nconnector` closes the handle after the socket is restartable (121-124); a
spurious failure of `compare_exchange_weak` loses a connection
(`Nsocket_tcp.cpp:32`), of an acceptor with its entry in the list, which keeps both
alive; a first read that cannot be started resets the hold before, and reports `on_fail_connect` after, `on_disconnect` (73-77), so the
protocol is claimed without that fault as well; a message longer than the maximum
is delivered when it arrives complete (253).

Senders: a write that completes before the closing clears the queue uses its
front afterwards (`Nsocket_tcp_async.cpp:143`); the handler of a failed write
resets the hold of a newer one (130); the gathering handler keeps the hold of a
socket that was closed under it, or that has sent nothing but an empty message
(`Nsocket_tcp_async_gather.cpp:153`). Hence
`OneWriteForTheFront` and `HoldIsForWrites` are claimed while the handle is open, and all
properties of the gathering sender until it accepts an empty message (`NoneEmpty`): while one is
written `m_sending.size()` is 0, so the next `send()` starts a second write beside it (83-95), and the
handler of the empty write takes that batch (150), advances it by 0 bytes and writes it
again, though a handler means to go on only with what was queued meanwhile (169).

Acceptor: `close()` within `start()` leaves instances that use a null context
(`Nacceptor.cpp:24`); a socket that cannot be created, or taken from `NONE` to `SYN` by an
exchange that fails for no reason (177-184), throws out of the handler (237).

Schedulers: a schedulable registered again during its tick is queued twice
(`schedulable_manager.cpp:513`); cancelling all leaves the schedulables their
manager (78), so a tick that is on its way queues one again; a refused
registration leaves it as well (228). A call that has copied the manager (`system.cpp:24`) may
register a schedulable after the system was stopped, by the exit or by the call itself, whose
temporary instance may be the last one: `process_attach` (195-258) does not look at `m_flag_run`, and what it
registers is never executed and never cancelled, though `process_destroy` cancels all (55). `ListsAgree`
and `DueIsExecuted` therefore speak of running managers. System: two threads may create a system
each (`system.h:88`), and the one that lost `pinstance` to the other goes on
ticking after that one was destroyed, so `DestroyedIsQuiet` is about a system's own
handlers; the pointer may be copied while it is assigned; a failing initialisation is rolled back through managers
that do not exist yet (`system.cpp:251`).

Groups: `leave_all` erases from the list it walks over, and asks for a member's
lock with the group's, the opposite order of `leave()` (`group.list.h:230`).
Buffers: members of an aggregate are looked for by the alignment of the aggregate
(`_buffer_common.h:2350-2356`); an array of objects is refused unless there is
room for the objects as they are in memory; a null pointer to a serialisable object
is written as a count of -1 (`_buffer_common.h:1285`), but `get_size_of` follows it
(1302) and no reader understands it; after `extract_text` up to a terminal the view
is one byte too long (`_buffer_view.h:688`), and the form that replaces the terminal
always gives an empty text (739).

## 5. Proofs

All theorems are of the models' `Spec`, for every value of the constants that
satisfies the assumptions named in the modules (`MaxAttempts` positive, settings
well-typed, names distinct and the like). Each is proved from an inductive
invariant, with a lemma per action or per group of actions.

`TcpSession_proofs`:

* `TypeCorrect`: `Spec => []TypeOK`, with any connector and faults. One lemma per
  action, as the type of the program counters is the only part all of them touch.
* `ProtocolInvariant`, `UnlistedWhenRestartable` (`RestartableIsUnlisted`),
  `BooksAreKept` (`BooksAgree`), `ImplementsProtocol` (`CallbackProtocol`: the initial
  state maps to an initial state, every step to a step or a stutter): for a socket
  of a connector or one that connects itself, with all faults, under
  `ArmsStartOnce`: a socket whose first read may fail to start is started once.
  `ImplementsProtocol` also assumes `KeptToTheEnd`: a socket that no connector lists is
  not dropped by the application and started twice, since a second start can undo the holds
  of the first (section 4) and the object be destroyed in the middle of a session.
* `ReadsAreHeld`: `Spec => []HoldCoversRead`, with any connector and any faults (the
  property itself leaves out a read that cannot be started).

None of these properties is inductive. Why the socket is
unlisted at `NONE` depends on which thread brought it there and what that thread
did before; what a callback may follow depends on which of the two threads of
the attempt is active. `IInv` records exactly that: earlier attempts are over but
for steps that touch nothing of the current one, later ones have not begun, and
the current attempt is in one of eight stages (`Connecting`, `Failing`,
`Opening`, `RollingBack`, `Receiving`, `Closing`, `Closed`, `Stuck`), each of which fixes the
state, both threads, the last callback and the listing. Each action moves between two
stages. With a first read that cannot be started and a second start the invariant is false, as
section 4 says: the roll-back goes on after the socket is `NONE`. The keep statistic
is the number of attempts whose success was counted less the number of those that
were disconnected; the receive handler may take a session out before the
connecting thread counts it, so that the sum is right only when no handler runs.
`ReadsAreHeld` needs other facts, which no other fault disturbs: while there has been one attempt,
`HoldInv` says that `m_hold_async` is set until the handler has handled what it received, that
it or the handler's local copy is from then on, and that the object is not destroyed.

`AsyncSend_proofs`: `TypeCorrect`; `OneWrite` (`OneWriteForTheFront`), `HeldWhileWriting`
(`HoldIsForWrites`) and `SendsInOrder` (`InOrderStream`, the refinement of `SendStream`), for
any number of threads and messages: the queueing sender for messages of any sizes, the
gathering one until it accepts an empty message (section 4). The
first invariant ties the set of writes to the front of the queue or to the batch: at
most one write, and what it was given is there until its handler ran. The second
says that what the peer has and what remains (of the write, of the batch, then of the queue,
one after the other) is what was promised; a step moves bytes from one part to the next.

`SingleExecutor_proofs`, of the heap: `HeapTypeCorrect`; `StaysOrdered` (`HeapOrdered`) and `ImplementsQueue`
(`IsTimerQueue`, the refinement of `TimerQueue`). Pushing, popping and cancelling each move entries
along a path of indices, which loses and doubles none, whatever the path; the new
entry ends where its parent is not later and its children are not earlier. For a path to a child that is
earliest, as pop takes it, this is so in a heap of any size. Cancelling goes on below
the wrong child; as long as `CancelSize <= 6` the path ends before that matters,
and this is the hypothesis of both theorems. With seven it is false (run `TimerHeapSeven`).

Three of the modules reason about recursive functions (`Serializers_proofs` and `AsyncSend_proofs` are the others). No prover can instantiate the
library's induction theorems, which take an operator, so they state induction of a set instead: a set of
naturals that is not empty has a least element, because `<` is well-founded on them. From it follows
that the functions the models define recursively exist, so that the equations that define
them may be used, and what they compute.

Of the executor it proves `TypeCorrect`; `RightlyExecuted` (`ExecutedRightly`);
`NoLostWakeup` (`SleepsForTheTop`); and `UsesATimerQueue`: what `SingleExecutor` does with its
set of executables is a behaviour of `TimerQueue`, which is what the heap implements. The invariant adds to both of
them that an executable is in one place only (not posted, in the heap, executed or
cancelled), that the worker's idea of the time is behind the clock, and that
`m_flag_run` is off once `process_destroy` has begun. The hard case is a top that is
replaced or cancelled while the worker waits for it: the new one is due later, or
comes with a notification. `SleepsForTheTop` compares the end of the wait with the time the top is due: it
may be later by what passed between the worker's last look at the clock and the wait, because
the code counts the wait from there (`executor.single.cpp:203`), and by no more.

`Acceptor_proofs`: `TypeCorrect`, `ListIsThatOfSessions` (`ListAgrees`),
`NoWorkerIsLost` (`FullStrength`). The invariant says how far the session of an instance
has come at each point of its handler, that no two instances serve one
connection, and which instances of the last `start()` are at work while it is
still creating them.

`GroupChat_proofs`: `ListsAgree` (`MembershipAgrees`), `KeepsItsDoor`
(`DoorIsKept`). What a call may rely on depends on the locks it holds. The
invariant says that for each of its points: who holds `m_lockable_enter` is in a
call to that group, whom the member's lock belongs to, and how list, iterator and
group of the member may differ just then.

Of the transmitters it proves `ReceiversAreMembers` (`ReceiversAgree`) and `OnlyMembersSpeak`
(`OnlyMembersAreHeard`), and of both `TypeCorrect`. A message under way is a list that was copied, so the
invariant bounds it by the transmitter's list, which bounds it by the member's
group: a member calls nothing while it sends. `OnlyMembersSpeak` holds also while `Admin` makes members
leave: `saidIn` records the group a member was in when its message came, and who hears it is
that group, whether the member is in it still or was made to leave meanwhile.

`System_proofs`, for any intervals: `TypeCorrect`, `LivesRightly` (`InstanceLivesRightly`), `AccountsAgree`
(`ListsAgree`), `NotExecutedAfter` (`UnregisteredIsNotExecuted`), for any number of
schedulables. A schedulable is in the queue or on its way, never both and never
twice, in the manager it belongs to; a tick on its way is of a schedulable that is
registered and due, or of one that is just being unregistered. Neither holds once a
schedulable is registered again during its tick (`setting.overlaps`), where what is
left is a bound: queue and ticks together are no more than the registrations. The
stage of a system says whether its flag is set, whether anything is registered,
and which of its threads are there; who holds `lock_instance` initialises a system
of its own, and there is a second one only after both threads have passed `pinstance`. What is registered
in a manager that was stopped is an account too, but of nobody who is executed: `ListsAgree` speaks of
running managers, `LivesRightly` of threads and handlers, and that the set is empty then is false (section 4).

`MessagePath_proofs` and, for the operators below it, `Serializers_proofs`: `SizesAgree` (`SizeOfAgrees`), `PathIsTyped` (`TypeOK`),
`MessagesDelivered` (`DeliveredAsSaid`) and `NothingLost` (`NothingIsLost`), for messages of any
values `IsValue` allows, any widths of the integers, and any block size, minimum room and maximum
size. The assumptions are that these are positive, that the minimum room is not more than a block, and
that the settings have messages an application can say (`MessagesAssumption`).
What each kind of value is written as is a relation between the value and bytes
(`SimpleBytes`, `AnyBytes`); there is a lemma that appending it writes such bytes, one that
prepending does, one that as many as `get_size_of` says are written, one that extracting gives the
value back from them and one for looking at it: by induction over the elements, members
or digits. Prepending goes through the members in the other order, and the count
is written when what it counts is there already, hence relations and not one function.
The invariant has two halves. `SenderOK`: the buffer holds what the values added so far are written
as, each at the offset that `get_size_of` of those before it gives (`FillingIs`), and what is sent is
a whole frame (`FrameIn`). `ReceiverOK`: what was received, what is on the wire and what the sender
has still to write are one after the other (`Stream`), and until the session is closed this is the
sequence of the frames of the messages that were said and not heard yet (`FramesOf`); what was heard
is what was said (`HeardOK`); what is kept lies before what is received or in an older block
(`AllKept`); the pending read writes behind what is received (`BlocksOK`); and there was a message to
refuse if the session is closed (`Refusal`). Sending moves bytes along the stream, framing takes its first
frame away, and carrying what is left to another block changes no byte of it.

Only model-checked:

* liveness (`NoLeak`, `ClosedIsReported`, `AcceptedIsSent`, `ClosedIsReleased`,
  `PostedIsExecuted`, `InstancesDrain`, `AcceptorIsFreed`, `DueIsExecuted`,
  `CallsReturn`): fairness and `ENABLED` are beyond the prover; that `MessagePath` always gets to
  the end `NothingIsLost` speaks of is checked as the absence of deadlock in its run;
* the protocol and the list of a socket whose first read cannot be started and that is started again,
  where they do not hold (section 4).

## 6. Not modelled

* Sending to or disconnecting all sockets of a `Nconnective` (walks over the list).
* A second session of an object whose send queue was left over.
* A restart of `executor::single`, and a `system::post` that throws in it.
* `execute_interval()` and `next_tick()` of a schedulable while it is registered.
* Nothing is claimed of two systems at once beyond their order of creation and
  destruction, nor of a schedulable that is registered again during its tick; in the
  model both lead to states the code is undefined in.
* The io thread's own temporary instance in `system::post` and in a manager's worker: posting is one
  step here, so that none of the system's own threads lets go of it last and destroys, and joins, itself.
* The modelled build is the one without assertions: prepending an empty vector writes its count and no
  bytes, an accept whose exchange fails throws.
* The statistics other than the count of kept connections only add up.
* Buffers: encodings and formatting, `std::chrono`, enum bit fields, protobuf,
  CGDK's own pointers and null pointers; text up to a terminal character (section 4);
  prepended text, skips and literals, which do not compile or are never reached; `prepend_buffer`, which
  writes a count of another width than `extract_buffer` reads; extracting a
  `_basic_buffer` or a shared buffer, which gives an empty one or does not share.
  `_buffer_unreal.h` is compiled inside of the Unreal Engine only and implements an
  older form of the serializers.
* The examples use the library and contain no logic of it, but for the callbacks of
  the group example. `group.list.inl` is an older version of the group class that
  no file includes.
