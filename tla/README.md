# Async-DuckDB in TLA+

Async-DuckDB is a proxy layer over DuckDB: any thread of an application uses
databases, connections, prepared statements and appenders, and every use is
marshalled to one worker thread by the middleware DelegateMQ, which is part of
the repository (`src/DelegateMQ`). This directory holds TLA+ models of that
code, the configurations that check them with TLC, and proofs checked by TLAPS.

## 1. Inventory

### The components and what they keep

| Component (source) | State | Operations |
|---|---|---|
| Worker thread, `DelegateMQ/port/os/stdlib/Thread.cpp` | `m_thread`, `m_exit`, two queues, a mutex, two condition variables, the thread-local `t_self_exit` | `CreateThread`, `ExitThread`, `DispatchDelegate`, the loop `Process`; the watchdog |
| Async-DuckDB proxy, `DuckDB/async_duckdb.cpp` | `CentralThread`, one `shared_ptr` per proxy, a `SyncState` per blocking call, a `promise` per future | `RunSync`, `RunAsync`, `DispatchTask`, four constructors, four destructors, `init_worker`, `shutdown_worker` |
| Asynchronous delegates, `delegate/DelegateAsync.h` | the bound target, the destination thread | `operator()`, `AsyncInvoke`, `Invoke` |
| Blocking delegates, `delegate/DelegateAsyncWait.h` | `m_success`, `m_retVal`; in the message a lock, a semaphore, `InvokerWaiting` | the same, with an answer |
| Semaphore, `delegate/Semaphore.h` | `m_signaled` | `Wait`, `Signal` |
| Signal, `delegate/Signal.h` | a shared list of delegates and its `alive` flag | `Connect`, `Disconnect`, `operator()`, `Clear`, destruction |
| Timer, `extras/util/Timer.cpp`, `TimerDelegate.h` | an intrusive list, expiry times; the token of the message in flight | `Start`, `Stop`, `ProcessTimers`; `TryFire` |
| Reliable sending, `TransportMonitor.h`, `RetryMonitor.h`, `ReliableTransport.h` | pending sequence numbers with times, stored packets with attempts | `Add`, `Remove`, `Process`; `SendWithRetry`, `OnStatusChanged` |
| Remote dispatch, `Dispatcher.h`, `RemoteChannel.h`, `DelegateRemote.h` | the 16-bit sequence number | `Dispatch`, `Invoke` |
| DataBus, `extras/databus/DataBus.h`, `DeadlineSubscription.h` | topics, last values, participants, latched errors | `Publish`, `Subscribe`, `AddParticipant` |
| Participant, `extras/databus/Participant.h` | channels, the history of sequence numbers | `Send`, `ProcessIncoming`, `RegisterHandler` |
| Network engine and node, `NetworkEngine.cpp`, `NetworkNode.h` | a network thread, a receive thread, a timer | `Start`, `Stop`, `RegisterEndpoint` |
| Delegate classes and containers, `delegate/Delegate.h`, `UnicastDelegate.h`, `MulticastDelegate.h` | targets and how they are held; a list with `m_broadcastCount` and `m_cleanup` | bind, clone, compare, call; add, remove, clear, broadcast |
| Watchdog, `port/os/*/Thread.cpp` | a list of threads, a time and a timeout per thread | `ThreadCheck`, `WatchdogCheckAll`, registration |
| Other OS ports, `port/os/{win32,qt,freertos,threadx,zephyr,cmsis-rtos2}/Thread.cpp` | a kernel queue, a task, an exit semaphore, or their counterparts | those of the worker thread |
| Monotonic guard, `extras/util/MonotonicGuard.h` | the last number | `IsNewer`, `Reset` |
| Serializer, `port/serialize/serialize/msg_serialize.h` | stop positions of nested objects | `write`, `read` of every type |
| Transports, `port/transport/` | sockets | `Create`, `Send`, `Receive`, `Close` |
| Thread monitor, allocator | registered threads; free lists | reports; allocation |

### How they interact

A proxy method builds a task (a lambda that owns the engine handle it needs),
`DispatchTask` wraps it in an asynchronous delegate, and the delegate copies
itself into a message and gives it to `Thread::DispatchDelegate` of the thread
that `CentralThread` points to. `Process` takes the messages one by one and
invokes them. A blocking call then waits on the semaphore of its `SyncState`
with a timeout; a future is resolved by the promise inside the task.
`init_worker` and `shutdown_worker` create and end the thread. The rest of
DelegateMQ (signals, timers, the data bus, remote delegates) is built on the
same threads and delegates; the DuckDB proxy uses none of it. A timer emits a
signal; the thread that calls `ProcessTimers` drives timers, retries, polls and
the watchdog. A publication goes to the subscribers of the process through a
signal, and to remote nodes through participants, whose channels share one
stream and one dispatcher; the transport monitor gives each sequence number a
status, which `RetryMonitor` answers with a repetition and `RemoteInvokeWait`
with a result.

### What is hard

* *Unlocked reads.* `DispatchDelegate` reads `m_exit` and `m_thread` before it
  takes the lock; an exit, even an exit and a new start, may come in between.
* *Blocking producers.* Under the TIMEOUT policy producers wait for room on a
  condition variable that is notified once per message taken; they may time
  out, lose the room to others, or be woken by an exit.
* *A thread that ends itself.* A handler may call `ExitThread`: its thread is
  detached and still runs when the next one is created.
* *Calls that give up.* A blocking call that times out leaves its task behind;
  the task runs later, with nobody waiting, and what it made has no owner.
* *Shared ownership across threads.* Whoever drops the last copy of a task
  runs the engine's destructor.
* *Shutdown.* Tasks dispatched after it are dropped without a word; those
  that race it may be refused, or their caller gets an exception.

* *Code that changes what it is called from.* A target adds to, removes from
  and clears the list that is calling it; a subscriber destroys its signal; a
  callback stops its timer.
* *Lists that outlive their members.* A stopped timer stays listed until the
  next sweep, an ended thread stays registered, a snapshot keeps participants
  and raw pointers that have been removed.
* *Late answers.* Acknowledgements overtake the record of what they answer,
  come after the wait has ended, or for another caller of the same channel.
* *Limits.* Full queues under three policies, a full pending map, a ring of
  remembered numbers, numbers and lengths that wrap.

`PROJECT.json` lists each of these at its line, with the property that covers
it or the reason why none does.

### What makes each component correct

* Worker thread: what is accepted is served, once, high priority first and in
  order; handlers never overlap; the limit holds; every call returns; ending
  the thread from outside loses nothing that was accepted.
* Proxy: the application sees one serial engine; no task meets a destroyed
  handle; no handle is leaked; every call returns and every future resolves.
* Blocking delegate: the target never runs once the caller has returned.
* Signal: who is connected during a whole emission is called once; who was
  disconnected before it is not.
* Timer: a running timer fires once per period and never in a burst; a stopped
  one fires at most once more. Paced dispatch: one message in flight.
* Reliable sending: the retry budget holds, a success is told only of what was
  received, the receiver drops repetitions and nothing else, and a packet is
  watched as long as it is stored and is not stored for ever.
* Data bus: no subscriber is left with a value older than the last one, each
  participant gets a publication once, and the cache has its topic's type.
* Network node: peers, topics and `Start` may come in any order; `Stop` sends
  what was published before it.
* Containers: an iterator stays valid, and every delegate that stays is called
  once.
* Remote calls: the target gets the arguments of one call; a call that was not
  sent was reported; `true` means acknowledged; nothing runs after `Stop`.
* Other ports: no receive on a deleted queue, no handler after `ExitThread`,
  order and limit as above.
* Watchdog: a hanging handler is reported, an idle thread is not.
* Serializer: what is read is what was written, or the stream says no.

## 2. Plan

Done, in the order in which it was built:

1. `Thread`, the abstract `Mailbox` it implements, `ThreadProofs`.
2. `AsyncDuckDB` over the actions of `Thread`, the abstract `SerialEngine` it
   implements, `DuckProofs`.
3. `AsyncWait`, the blocking delegate, the abstract `BlockingCall` it
   implements.
4. `Retry`: `Dispatcher`, `RetryMonitor`, `TransportMonitor` and the
   participant's filter over an unreliable network, and `RetryProofs`.
5. `DelegateTypes` (all delegate classes as values), `Delegates` (containers
   and calls), and `DelegateProofs`, about `AsyncWait` and `Delegates`.
6. `Signal`, `Timer` on top of it, `Watchdog` beside it, `ClockProofs`.
7. `DataBus` and `NetworkNode` on top of it, `DataBusProofs`.
8. `Ports`, the six other threads, and `PortsProofs`.
9. `Remote`, `Engine` on top of it, `MsgSerialize`, `EngineProofs`.

Left: moves between containers that are calling; a monotonic guard that several
threads use at once.

## 3. The modules

| Module | Stands on | Abstraction it implements | Proofs |
|---|---|---|---|
| `Thread` | | `Mailbox` | `ThreadProofs` |
| `AsyncDuckDB` | `Thread` (instance `T`) | `SerialEngine` | `DuckProofs` |
| `AsyncWait` | | `BlockingCall` | `DelegateProofs` |
| `Retry` | | | `RetryProofs` |
| `DelegateTypes`, `Delegates` | the second on the first | | `DelegateProofs` |
| `Signal`, `Timer`, `Watchdog` | each on the one before | | `ClockProofs` |
| `DataBus`, `NetworkNode` | the second on the first | | `DataBusProofs` |
| `Ports` | | | `PortsProofs` |
| `Remote`, `Engine` | `DelegateTypes`; `Remote` | | `EngineProofs` |
| `MsgSerialize` | | | |

`MCThread`, `MCAsyncDuckDB`, `MCRetry` (with `AsyncWait`), `MCDelegates`, `MCTimer`,
`MCDataBus`, `MCPorts` and `MCEngine` give the constants their values;
`MCSnapshot` adds a history variable to `Delegates`;
`MCMsgSerialize` gives `MsgSerialize` types and values to be checked under
`MCEngine`.

### Thread

One object of class `Thread`. Each action is a step no other thread can cut in
two: a critical section of `m_mutex`, or one unlocked read.

| Code | Model |
|---|---|
| `m_thread`, `m_exit`, `m_highQueue`, `m_normalQueue` | `mThread`, `mExit`, `highQueue`, `normalQueue` |
| `DispatchDelegate` | `DispatchDelegate` (unlocked `m_exit`), `CheckThread` (unlocked `m_thread`), `Lock` (critical section), `Wake` and `WaitTimeout` (the wait for room), `Enqueue` (second look at `m_exit`, push) |
| `Process` | `Started`, `Take` (first message, notify a producer), `Finish` (handler returned), `HandlerThrows` |
| `CreateThread` | `CreateThread`, `Spawn` (the OS thread runs), `Emplace` (`m_thread` engaged), `CreateReturns` |
| `ExitThread` | `ExitThread` (flag, exit message, notifications), `Join` (or detach), `Reset` |
| `t_self_exit` | `selfExit` |
| `ASSERT`, which ends the process | `fault` |
| `FULL_POLICY`, a `const` member | `policy`, chosen by `Init` among `Policies` and never changed |

Handlers are arbitrary: while one runs, its thread may dispatch messages to
its own queue, and may create or end the thread. `status` is a history
variable: what became of each message. `Wake` also stands for spurious
wake-ups: a wait that is notified and finds no room waits on. The worker's own
condition variable needs no variable: `Take` is enabled exactly when the
predicate of `m_cv.wait` holds with a message in the queue, and the notifying
sites hold the mutex. `Process` has another way out, both queues empty and
`m_exit` set; it is never taken, because the exit message is in the queue
whenever `m_exit` is set and the thread runs: `ExitReachesWorker`, which is
proved.

Assumed, from the comments in Thread.h: calls of `CreateThread` and
`ExitThread` do not overlap ("called once"), and there are finitely many
threads. Left out: statistics, thread names; the watchdog has its own module.

### Mailbox

What a thread promises its users, without threads: a message is accepted or
refused, accepted messages are served one at a time, high priority first, in
order; closing the mailbox serves what was accepted before. Messages are lost
only when a handler ends its own thread. `Thread!ImplementsMailbox` is the
refinement. The exit message, which stands in the normal queue, is none of the
mailbox's: the mapping leaves it out (`MailboxNormal`).

### AsyncDuckDB

The proxy on top of `T == INSTANCE Thread` with the constructor arguments of
`DuckThread`: no limit, one priority. A call is an operation with a number; an
engine handle is named by the operation that opened it.

| Code | Model |
|---|---|
| `CentralThread` | `central` |
| `Database()` / `Connection()` / `Prepare`, `CreateAppender` | operations of kind `database` / `connect` / `prepare` |
| `Query`, `Execute`, `BindValue`, `nParam`, `EndRow`, `Flush`, `Close`, `BeginTransaction`, `Commit`, `Rollback` | kind `exec` |
| `QueryFuture`, `ExecuteFuture` | kind `future` |
| the four destructors | kind `close` |
| `DispatchTask`, `AsyncInvoke` | `LoadCentral`, `Dispatch`, then the actions of `Thread` |
| `RunSync` after the dispatch | `SyncDone`, `SyncTimeout`, `DispatchThrows`, then `Unwind` |
| the task on the worker | `RunTask`, then `Finish` (its message is destroyed) |
| `shared_ptr` counts | `Held`: derived from who still has a copy of which task |
| the engine's destructor of a handle | `freed`: the thread it ran on |
| `init_worker(nullptr)`, `shutdown_worker` | `InitWorker`, `InitStore`, `ShutdownWorker`, `ShutdownStore` |

A destructor's task, like every task, exists in several copies: those of the
caller (lambda, `std::function`, delegate) and the one in the message. `Held`
counts them all, and `Release` attributes the engine's destructor to the
thread that drops the last. A proxy made by the task of `Prepare` whose caller
gave up is destroyed with its `SyncState`, and its destructor dispatches again:
`UnwindLast` on the caller, `FinishLast` on the worker.

The engine may refuse any call (a task that throws), at the engine's choice.
Another thread may use or destroy a proxy as soon as `SyncDone` has handed it
over, although the opener has not returned yet: more interleavings than the
code has. Left out: a `RunSync` made on the worker (no task of the library makes one),
`init_worker` with an external thread, the values of parameters and rows.

### SerialEngine

The engine as an application may think of it: calls, a queue of accepted
operations, operations executed one at a time in order, answers, handles
destroyed. An answer other than a timeout or a refusal is what the execution
gave. `AsyncDuckDB!ImplementsSerialEngine` is the refinement.

### AsyncWait

The blocking delegate of `DelegateAsyncWait.h`. The arguments of the call are
not copied: they stay on the caller's stack, and what keeps the target from
touching them after the caller has left is the lock in the message together
with the flag `InvokerWaiting`.

| Code | Model |
|---|---|
| `operator()` | `Call` (message made), `Accept` / `Refuse` (`DispatchDelegate`), `WaitSignaled` / `WaitExpires` (`Semaphore::Wait`), `ReadBack` (the critical section at its end) |
| `Invoke` on the destination thread | `Pop`, `Start` or `Skip` (lock taken, flag read), `Signal`, `Unlock` |
| `m_invokerWaiting`, `m_lock`, `m_sema` of a message | `invokerWaiting`, `lock`, `signaled` |
| `m_success` | `answer` |

Destination threads are mailboxes, which is what `Thread` is shown to
implement: they accept or refuse, and serve in order. Target functions call
other threads, even their own, so that circles of blocked threads occur; it is
the timeouts that break them. Left out: one delegate object shared by several
calling threads (the class is documented for one), the return value (it is
read in the same critical section as the flag; it is in `Delegates`), `WAIT_INFINITE`,
and target functions that throw, which end the process.

### BlockingCall

What such a call promises: the target runs at most once, never before the call
nor after its return; a success is told of a target that has run to its end; a
failure may be told of one that has run, never of one that is running.
`AsyncWait!ImplementsBlockingCall` is the refinement.

### Retry

The sending side has the threads that send, the thread that calls `Process()`
and the thread that receives acknowledgements; each critical section of the two
monitors is an action, and so is each call of the transport.

| Code | Model |
|---|---|
| `Dispatcher::Dispatch`, start of `SendWithRetry` | `Dispatch` (a number, the stored packet) |
| rest of `SendWithRetry` | `Add`, `Send`, `SendReturns` |
| `m_pending`, `m_expiredItems`, `m_retryStore` | `pending`, `expired`, `store` |
| `TransportMonitor::Process` | `Expire`: one pass, at most `MaxExpired` entries |
| `OnStatusChanged(TIMEOUT)` | `TimeoutForgotten`, `TimeoutRepeats`, `TimeoutTooEarly`, `TimeoutGivesUp`, then without the lock `AddAgain`, `SendAgain`, `EraseRefused` |
| `Remove`, `OnStatusChanged(SUCCESS)` | `Remove`, `Success` |
| the receiving transport | `Receive`: the packet is read and acknowledged |
| `Participant::ProcessIncoming`, its ring per remote id | `ProcessIncoming`, `history` |

`Remove` looks for a sequence number without its remote id and takes the first
pending entry that has it, as the transports call it. The network is any subset
of what was put on it, in any order and any number of times. Time stamps are
abstracted: a pending entry may be found expired at any pass. The callbacks of
one pass come in any order. `sent`, `invoked` and `lapsed` are history
variables. Sequence numbers do not come round in the run (`SeqMod` is at least
the number of messages); that a packet of 2^16 messages ago meets its successor's
number is listed as a hazard. Left out: a receiver that has no handler, and the
priorities of channels.

### DelegateTypes and Delegates

`DelegateTypes` has the twelve local delegate classes as values: a record with
the class, how it is invoked, target and function, how the target object is
held (shared, raw, weak), the route (thread, priority, timeout), and what a
blocking delegate remembers of its last call. Its operators are `Bind`,
`Clone`, `Empty` and `Equal` of each class as the code has them, `Equal` with
its asymmetry: a synchronous delegate equals the asynchronous one of the same
target, not the reverse.

| Code | Model (`Delegates`) |
|---|---|
| `UnicastDelegate` | `UnicastAssign`, `UnicastClear`, `CallUnicast` |
| `MulticastDelegate` | `PushBack`, `RemoveDelegate`, `ClearList`, `CopyList`; `Broadcast`, `CastNode`, `CastEnd` |
| `m_broadcastCount`, `m_cleanup`, `BroadcastGuard` | `casting`, `cleanup`, `LeaveGuard` |
| `operator()` of the twelve classes | `FreeCall` ... `FunctionAsyncWaitCall` |
| `Invoke` on the worker | `FreeAsyncInvoke` ... `FunctionAsyncWaitInvoke` |
| end of a blocking call | `WaitReturns`, `WaitTimesOut`, `LateReturns` |
| a target returns or throws | `TargetReturns`, `TargetThrows`, `WorkerReturns`, `WorkerThrows` |

The application thread has a stack of frames, so that targets call, change and
copy the containers that call them. Other owners drop target objects at any
time; `Alive` is derived from who still holds one. Left out: the `Safe`
containers (the same operations under a recursive mutex), moves between
containers, `std::function` targets told apart by more than their type, which
the code does not do either.

### Signal

| Code | Model |
|---|---|
| `Signal::m_state`, `State::delegates`, `State::alive` | `block`, `delegates`, `alive` |
| `Connect` | `Connect`: the copy is appended, the connection returned |
| `Connection::Disconnect`, `ScopedConnection` and its moves | `Disconnect`, `MoveAssign` over `DisconnectImpl` |
| `Clear` | `ClearSwap` (under `m_mutex`), `ClearOld` (under the old block's `mtx`) |
| destruction | `Destroy` |
| `operator()` | `Emit` (snapshot), `NextSubscriber`, `SubscriberReturns`, `EmitReturns` |

`gone`, and what an emission remembers of its beginning, are history: an
emission must call whom nobody disconnected in between, once, and must not call
who was gone before it began.

### Timer

`EXTENDS Signal`; the signal of a timer has its name. `left[t]` is the expiry
time minus now. One action `ProcessTimers` is the whole critical section:
`Sweep` takes out stopped timers, `CheckExpired` finds who expired, `Rearm`
catches up or disables a one-shot; the signals are then emitted outside the
lock by the actions of `Signal`. `Start`, `Stop` and `DestroyTimer` come from
every thread, also from within callbacks. `TryFire`, `InFlight` and
`TargetReturns` are `PacedDispatch` and its token, with a worker queue that
drops when full. Left out: `OnStuck` (a callback without effect on the state)
and concurrent use of one `TimerDelegate`, which its comment excludes. A
timer's `MAX_TIMER_EXPIRED` is kept out of reach by an assumption.

### Watchdog

`EXTENDS Timer`: both run on the thread that calls `ProcessTimers`, and share
nothing else, so that `WatchInit` chooses an application that uses the one or
the other (`watching`).

| Code | Model |
|---|---|
| `m_lastAliveTime`, `m_watchdogTimeout` | `age` (the present minus it), `m_watchdogTimeout` (`"raw"`: not initialized) |
| the linked list, `Register`, `Unregister` | `registry`, `Register`, `DestroyThread` |
| `CreateThread` | `CreateThread`, `StoreTimeout` (the thread runs before the timeout is stored) |
| the loop and its waits | `LoopTop`, `WaitEnds`, `Receive`, `HandlerReturns`, `ThreadCheck` |
| `WatchdogCheckAll` | `Snapshot`, then per thread `ReadNow` and `WatchdogCheck` |
| `WatchdogHandler` | `alarm`, after which nothing happens |

A loop looks at the timeout when it begins to wait: without one it waits for
ever and notes nothing. The uninitialized timeout (`std::atomic<Duration>`
without initializer under C++17, on every port but FreeRTOS) is a choice
between the outcomes.

### DataBus

| Code | Model |
|---|---|
| topic tables, QoS, last values, serializers, participants, latches | `types`, `signals`, `subs`, `qos`, `lastValue`, ..., `parts`, `fired` |
| `Subscribe` | `SubscribeLock`, `SubscribeConnect`, `SubscribeReadCache`, `SubscribeDeliver` |
| `Publish`, `PublishLocal` | `PublishLock` (type check, cache, snapshot of participants), `EmitLocal` with `CallSubscriber`, `FindInterest` and `SendRemote` per participant, `PublishReturns` |
| `AddParticipant`, `RemoveParticipant`, `AddRemoteTopic`, `LastValueCache` | actions of these names |
| `Participant::Send` with a send thread | `AsyncSend`, then `Transmit` on that thread |
| `MonotonicGuard::IsNewer` | `IsNewer`, `Guarded`, numbers of width `NumMod`; on the worker only |
| subscribers on a worker | `mail` |

One writer per topic numbers its values. A synchronous callback runs on every
thread that publishes, at once, and `MonotonicGuard` is "NOT thread-safe"
(MonotonicGuard.h:20-21): such a subscription has no guard in the model, and
`NewestWins` is about the subscriptions on the worker. Left out: rate limits and filters, the
monitor of all traffic, `DeadlineSubscription` (a timer and a subscription),
callbacks that call the bus again, `ResetForTesting`, time stamps. `LastValueCache()` is
called for topics that have a type (`EarlyCache`): called earlier, it stores a
value whose type nobody has checked, see section 5.

### NetworkNode

`EXTENDS DataBus`. `Start`, `Receive`, `Send` and `AddPeer` and `Stop` with
their steps (`AddPeerJoins`, `AddPeerApplies`, `SendSpreads`, `StopExits`,
`StopJoins`, `StopRemoves`, `StopDetaches`), the timer's poll (`TimerTick`,
`ReceiverThread`, `ProcessIncoming`), against publications of other threads at
any point. One thread at a time calls the node, which has no lock. `StopJoins`
waits for an empty queue, which the standard-library thread guarantees; an RTOS
port, which NetworkNode.h:55-70 also allows, may leave its loop earlier
(`Ports`), and what was published last is then not sent. The
reliability stack of a peer is `Retry`; here a send succeeds while the
transport is open. Left out: the order of sends and polls in the queue of the
node's thread, and its limit.

### Ports

One object of class `Thread` of another port, chosen by `Init`; what the ports
share is written once, and each port's function says what it uses.

| Code | Model |
|---|---|
| the kernel queue, the task handle, `m_exit`, the exit semaphore | `hQueue`, `hTask`, `m_exit`, `exitSem` |
| what waits, in the order in which it is taken | `queue` |
| `CreateThread` of each port | `FreeRTOSCreateThread` ... `QtCreateThread` |
| `DispatchDelegate`: the test of the handle, then the send | `Dispatch`, then `Send`, `SendFails` or `SendOnDeadHandle` |
| front, back, priority of a message | `FreeRTOSPut` ... `QtPut` |
| the loop | `LoopTop`, `ReceiveTimeout`, `Receive`, `Gone`; `Win32Process`; `QtEventLoop` |
| `ExitThread` | `BeginExit`, `PostExit`, `TakeToken`, `DeleteQueue` as each port orders them; `ExitsItself`, `PostsToItself` from a handler |
| Qt's `MessageProcessed`, `m_queueSize` | `unacked`, `OnMessageProcessed` |

A kernel call with a deleted handle may report anything or stop the program,
and its message goes nowhere. Left out: the priorities of the tasks, locks the
kernels take themselves, self-exits of Zephyr (it frees the stack it runs on)
and Qt (it waits for itself).

### Remote

The three remote delegate classes as values (`FreeRemoteBind`, `...Assign`,
`...Clone`, `...Moved`) and in use. A call has two arguments, which go through
the stream of the channel in two parts, so that threads can meet in the middle.

| Code | Model |
|---|---|
| `operator()` | `Begin`, `Write` twice over `Serialize`, `Dispatch` or `SendFailed`, `Finish` |
| `RemoteChannel::operator()` | the same between `EnterChannel` and `LeaveCall` (`m_sendMutex`) |
| `m_stream` with `good()`, `m_error`, `RaiseError` | `stream`, `good`, `obj[...]`, `RaiseError`, `Throws` |
| `Dispatcher::Dispatch` | `Dispatch`: number, `Transmit`, `ResetStream` |
| `Invoke` | `InvokeFree`, `InvokeMember`, `InvokeFunction` over `Received`: the target is called, or the stream is too short and the receiving delegate gets the error |

Delegates made by `MakeDelegate` share the stream of their channel and do not
lock it. Serializers and transports may fail at any point.

### Engine

`EXTENDS Remote`. The network thread has a bounded queue that drops; calls that
are marshalled to it wait as `AsyncWait` says.

| Code | Model |
|---|---|
| `RemoteInvokeWait` | `RemoteInvokeWait`, `SendTimeout`, `WaitReturns`; on the network thread `SendBegins`, `SendEnds` with `Reconcile` |
| `InvokeWaitState`, the status callback | `wait[u]`, `StatusCb`, `OnSendStatus` |
| the receive thread | `ReceiveData`, `ReceiveAck`, `RecvPost`, `RecvTimeout`, `RecvLeaves` |
| `Incoming`, `Timeout` | `Incoming`, which has a target run (job `handler`) or ends with an error, in an exception if there is no error handler (`Abandoned`: the receive thread then waits its timeout out); `Timeout`, posted by `TimerTick` |
| a target that calls `RemoteInvokeWait` | `HandlerSends`, job `reply`, `HandlerReturns` |
| `Initialize` (four transports), `RegisterEndpoint`, `Start`, `Stop` | the call, and on the network thread the job: `InitializeCall`/`Initialize`, ..., `StopSignals`, `StopJoins`, `Stop` |

`StopSignals` sets the flag and closes both transports in one step; the comment
in the module says why nothing is lost by that. A target that throws inside
`Invoke` is left out. The engine is its own peer: messages lead back to it, through a network that
loses and reorders. Acknowledgements come on the receiving transport, as those
of ZeroMQ, UART and serial lines do.

### MsgSerialize

The default serializer as functions on sequences of bytes: every `write` and
`read` of literals, strings, objects, vectors, lists, sets, maps and of
pointers to them, with the type tags, 16-bit sizes, limits, stop positions and
the flag of the stream, for hosts of both byte orders. Sizes are numbers modulo
`SizeMod` (2^16 in the code): the size of an object and the length of a C string
are cut to it before anything is checked. `SerializerExact` says that what is
written without an error is read back whole exactly when it is `WithinLimits`,
the limits nobody checks on writing (objects of 2^16 bytes and more, C strings
of 2^16 - 1 characters and more or too long for the receiver's array, wide
characters over 16 bits, objects nested deeper than the receiver's stack); that
within them a longer or shorter version reads what it knows; that a message cut
short is never read without an error; and that no damage leaves a stop position
behind. A damaged message may well be read as another value. "Exactly" holds
for the values of the run: beyond the limits a value may come through by luck,
if what is lost is what the receiver already has. The flag of a pointer in a map
has no initial value (msg_serialize.h:1056), and a byte that is neither 0 nor 1
makes no `bool`: both are either value. Left out: the parse and error handlers,
`readEndian` and `writeEndian`.

## 4. The runs

| Run | Question | Instance |
|---|---|---|
| `thread_safety` | blocked producers, timeouts, exits and restarts: lost wake-ups, the limit, the exit message, drained exit (`QueueIsKept`), serial handlers, stranded messages; refinement of `Mailbox` | 3 callers, 2 OS threads, 5 messages (1 high), limit 2, the three policies |
| `thread_live` | `NobodyWaitsForEver`: every call returns, everything accepted is served | 2 callers, 2 OS threads, 3 messages, limit 1, TIMEOUT |
| `duck` | handles and tasks (`OwnershipHolds`), order of execution (`SequentialIntegrity`), a quiet shutdown (`ShutdownQuiesces`); refinement of `SerialEngine` | 2 application threads, 1 controller, 2 OS threads, 3 calls that connect, prepare, execute, close |
| `duck_live` | `NothingIsLeftHanging`: calls return, futures resolve, abandoned handles are destroyed | 1 application thread, 1 OS thread, 3 calls, with futures |
| `retry` | budget, honest successes, duplicate filter, no packet forgotten or kept; or, blocking: no target function runs without its caller (`ArgumentsAlive`), refinement of `BlockingCall`, every call returns | 2 senders, 2 messages, 2 remote ids, 1 retry, `m_pending` of 1, history of 1, 3 invocations; or 1 caller, 2 threads, 3 calls |
| `delegates` | `BroadcastsExact`, `TargetAlive`, `ReturnsOwnResult`, `RemovesSameTarget` | 1 object, 2 functions, 2 routes, 1 slot, 2 lists of at most 2 nodes, 14 delegates, queue of 1, calls 2 deep, 4 operations |
| `timer` | `ListsKept`, `EmissionsExact`, `PacingHolds`, `NothingOverdue`; with the watchdog `WatchdogHolds` (`WatchTypeOK`, `RegistryKept`, `AlarmsJustified`) | 2 timers of periods 1 and 2, 2 threads, 2 connections, 2 copies, one of them paced, 2 blocks, 3 operations, lag 2; or 2 watched threads on 4 ports, timeout 2, list looked at up to 1 |
| `databus` | `BusConsistent`, `SubscribersUpToDate`, `SentOnce`, `NodeHolds` (`RoutesComplete`, `StopFlushes`) | 2 threads and the node's, 1 topic, 2 types, 2 subscriptions, 6 participants of which 2 fit, numbers of width 8 from 6 on, 2 publications, 4 other calls; or 6 calls of a node with 1 peer and 1 topic |
| `ports` | `LifetimesHold`, `QueueIsKept`, `UrgentFirst`, `PostedIsHandled` | 6 ports, 3 policies, 2 producers, limit 2, 2 tasks, 3 messages |
| `remote` | `CallsExact`, `AnswersExact`, `NothingAfterStop`, `OwnerReturns`; `SentIsRead` | 2 application threads and the network's, 4 channels, 4 delegates, 2 calls, 4 numbers, queue of 1, 2 early statuses; values of every kind of type, both byte orders |
| `snapshot` | violated: a delegate that is removed during a broadcast is called in it all the same | 1 list, 2 delegates, 5 operations |
| `ports_exit` | violated: `ExitThread` of the FreeRTOS port returns | 1 producer, DROP |

`QueueIsKept`, `OwnershipHolds` and the like are conjunctions of named parts,
each with its own comment in the module.

*Why the bounds are enough.* A lost wake-up needs two producers waiting and a
third that takes the room; a limit of two lets one message be taken while
another stays. A stale read matters across one exit and one restart, which two
OS threads give; for longer sequences there are the proofs. In `duck`, three
calls open a handle, use it and close it, and each call that is abandoned adds
an operation of its own (`Ops` has twice `MaxCalls` numbers); the constraint
`AfterRestart` has the worker started again once two of the three calls were
made, and the calls after it one at a time. What it cuts off, and longer sequences, the proofs
cover. Two threads and three calls let a target of the first blocking
thread wait for the second while a target there waits for the first, with a message of
an outsider between them. In `retry` the map of pending entries is full with
one; two remote ids give equal and different rings, and three invocations
suffice for a repetition after the ring of one has forgotten. In `delegates` two
nodes are one that calls and one that is added, removed or called next, and two
lists let a copy be taken of the one that is calling; four operations are a
nested broadcast with a removal and a call that times out. In `timer` a lag of two ticks
on a timer of period one is the smallest that must be caught up; two copies are
the one that stays and the one that goes. With one topic and two types a
publication can meet a topic of the other type; two of six participants are one
more than can join at once, and numbers from 6 on come round at 8. In `ports` three messages in
a queue of two meet a full queue with both priorities, and two tasks a
re-creation. In `remote` two calls share a channel or one of them waits, one
place in the queue makes the next job be dropped, and the application's threads
call from the start of the engine on (`CallsFrom`); a timeout tick is posted only
when something is pending, since without it it changes nothing.

`thread_safety`, `duck`, `delegates` and `databus` declare callers, messages or
participants symmetric, and check no liveness. Bounds in guards: each OS thread is spawned
once and each message dispatched once (`Thread`, `Retry`), `MaxCalls` and
`AppKinds` (`AsyncDuckDB`), each call made once (`AsyncWait`), `MaxInvoked`
(`Retry`), `MaxNodes`, `MaxDepth`, `MaxOps` (`Delegates`), `MaxCopies`,
`MaxBlocks`, `MaxOps`, `MaxLag`, `Late` (`Signal`, `Timer`, `Watchdog`), `MaxPub`, `MaxOps`,
`MaxNodeOps` (`DataBus`, `NetworkNode`), `MaxTasks`, `MaxMsgs` (`Ports`),
`MaxCalls`, `Script` (`Remote`, `Engine`).

*Deadlock* is checked except in `delegates`, `snapshot`, `timer`, `databus` and `ports`,
where the program stops when a bound is reached or an assertion has ended it.

*Fairness.* `Thread!Fairness`: the operating system runs every thread that can
run, a handler returns in the end, a wait with a timeout ends (`wait_for`).
Weak fairness is enough, as no step is disabled for ever by others without
another one becoming possible: a producer that is never notified times out.
Nothing obliges a program to dispatch, create or end. `AsyncDuckDB!Fairness`
adds that the engine returns from every call; a blocking call's timeout needs
no assumption beyond the clock's.
`AsyncWait!WaitFairness`: threads run, and timeouts expire: a caller whose message
is never served gives up, which is what ends a circle of blocked threads.
`Retry!Fairness`: threads run, and `Process()`, called periodically as its
comment demands, in the end finds what stays pending. The network owes nothing:
everything may be lost.
`Timer!Fairness`: time passes, `ProcessTimers` is called again, subscribers
return, the worker runs. `Watchdog!WatchFairness`: time passes, the ticker goes
on, and so does a loop that can; handlers need not return.
`Ports!Fairness`: the kernel runs every task, handlers return, a call that can
go on does, and Qt's owner runs its event loop; nobody has to dispatch, create
or exit. `Engine!Fairness`: the network thread, the receive thread and the
owner run; the network owes nothing. `Delegates` and `DataBus` have safety
properties only.

## 5. What disagrees with the repository's own words

`snapshot` is a run that TLC finds violated: the comment of `MulticastDelegate`
says that "a snapshot of the delegates is taken during the broadcast", and that
a removed delegate "will still be invoked in the current broadcast pass if it
was in the snapshot" (MulticastDelegate.h:20-22). `operator()` goes along the
live list and skips the nodes that have been emptied (61-66), so that it is not
called any more; and one that is added is called in the same pass. `CastNode` is
that loop, and `RemainingCalledOnce` states what it does guarantee.

`ports_exit` is a run that TLC finds violated: the FreeRTOS port says that its
exit message "WILL" be received (`port/os/freertos/Thread.cpp:181`). The loop
tests `m_exit` at its top (360), which `ExitThread` has set (175) before it
posts (184). The loop leaves, `DispatchDelegate` does not look at `m_exit`,
producers fill the queue, and the post with `portMAX_DELAY` never returns.

The following were met while modelling. Each is part of a model (a choice it
makes, a case a property names, an assumption) or is left out for the reason
given with its module.

* *Thread.* The limit is checked (Thread.cpp:248) before `m_exit` is read again
  (281): under the FAULT policy a dispatch that races `ExitThread` counts the
  exit message and ends the process.
* *Proxy.* `README.md:45` promises that engine calls run on one thread; the
  caller of a blocking call that timed out may drop the last copy of a handle
  (async_duckdb.cpp:124). `AsyncInvoke` is "Always safe to call"
  (DelegateAsync.h:1107) and throws while the thread is being ended
  (Thread.cpp:243); out of a destructor this ends the process.
* *Retry.* A timeout during the first `Send()` renews the monitoring
  "so monitoring continues" (RetryMonitor.h:173-174), but the result of that `Add` is not
  looked at (208): if `m_pending` has filled up, no callback ever comes.
* *Delegates.* `Equal` is not symmetric; a weak delegate whose object died
  reports success without having called (DelegateAsyncWait.h:1231);
  a subscriber that appends itself keeps a broadcast going for ever; assigning
  by move from a list that is calling clears the nodes under its iterator; a
  synchronous `DelegateMember` does not keep its object while it calls it.
* *Timer.* A tick that was taken before `Stop` fires after it, which
  nothing in Timer.h says; `MAX_TIMER_EXPIRED` timers that
  expire at once meet an assertion one too early (Timer.cpp:179-183). The message
  of a paced dispatch holds a plain `this` of the `TimerDelegate`
  (TimerDelegate.h:142-145), so that one destroyed while its message waits is
  used after its end; the model runs such
  a message all the same (`InvokeTarget`), and no property is about it.
* *Watchdog.* A loop that reads its timeout before `CreateThread` has stored it
  waits for ever and is reported although idle, which Thread.cpp:401-404 means
  to exclude; Qt never notes idle time; an ended thread stays registered and is reported;
  `CreateThread` without a timeout keeps the old one; `WatchdogCheckAll` walks
  raw pointers after it has released the lock; threads beyond
  `MAX_WATCHDOG_THREADS` are not looked at; FreeRTOS's unsigned difference
  wraps when the thread is alive between the two reads. Only the
  standard-library port notes the time when a message is taken, so that on the
  others a handler may be reported before its timeout is over.
* *DataBus.* `LastValueCache()` for a topic that has no type yet may store a
  value that is later cast to another type without a check (DataBus.h:288-291,
  373); a value that was handled and reached nobody is not reported as unhandled
  (514). DataBus.h:386-390 calls a `MonotonicGuard` in the subscriber "the
  correct fix" for values that come out of order; the class is not thread-safe,
  and a synchronous subscriber is called by several threads at once, so that two
  calls can leave the older number in it. It is a fix on a worker thread, or
  with a lock of the subscriber's own.
* *NetworkNode.* A publication that races `Stop` dispatches to the thread that
  has ended and throws out of `Publish`; so does one after an `AddPeer` between
  `Stop` and `Start`; a peer added before the first `Start` gets no send
  thread; a late tick throws out of `ProcessTimers`.
* *Ports.* The RTOS ports never reset `m_exit`; ThreadX's self-exit terminates
  itself before it gives the semaphore, and a later exit hangs; Zephyr's frees
  its own stack; Qt's waits for itself; Win32 may keep an exit message that
  ends the next thread; Qt's `m_queueSize` is never reset.
* *Engine.* With UDP, acknowledgements come to a socket the engine does not
  read (NetworkNode.h:206-210 says so and reads it), so that `RemoteInvokeWait`
  always times out; a call whose stream is bad leaves the number of the
  previous one, for which the wait may return true; a message that the channel's
  own endpoint cannot read leaves its error in the object that also sends, so that the next
  `RemoteInvokeWait` through it on the network thread returns false although it
  was sent; a bad stream is never cleared; the receive thread is made once, so that nothing is received after
  `Stop` and a second `Start`; `Start`, `Initialize` and `RegisterEndpoint` are skipped in
  silence when the queue is full.
* *Serializer.* The sizes of objects and the lengths of C strings are cut to 16
  bits in silence (msg_serialize.h:451, 546): an object of 65536 bytes or more,
  which 64 elements with strings of 1024 bytes make, is read back as something
  else without an error. Wide characters above 0xFFFF are cut; the depth of
  nesting is only checked by the reader, which an assertion then ends. All of
  this is in `WithinLimits`, and `RoundTrip` is stated with it.

## 6. The proofs

TLAPS proves the results below for every value of the constants that the named
assumptions of the modules allow: disjoint sets and special values, limits that
are natural numbers, finitely many threads (`FiniteThreads`, of `Thread` and
`AsyncDuckDB`: cardinalities of sets of producers are compared). None of the
properties is inductive as it stands. Each module states the strengthening as a
conjunction of named parts, which TLC checked first; then come a lemma that the
initial states satisfy it, one lemma or step per action that it is kept, and
the theorems.

| Property that a run checks | Theorem | Module |
|---|---|---|
| `Thread!HandlersSerial` | `HandlersAreSerial` | `ThreadProofs` |
| `Thread!NothingStranded` | `NothingIsStranded` | `ThreadProofs` |
| `Thread!QueueIsKept` (with `ExitReachesWorker`) | `QueueAlwaysKept`, `ExitAlwaysReachesWorker` | `ThreadProofs` |
| `Thread!ImplementsMailbox` | `MailboxImplemented` | `ThreadProofs` |
| `AsyncDuckDB!OwnershipHolds` | `OwnershipAlwaysHolds` | `DuckProofs` |
| `AsyncDuckDB!SequentialIntegrity` | `SequentialIntegrityHolds` | `DuckProofs` |
| `AsyncDuckDB!ShutdownQuiesces` | `ShutdownAlwaysQuiesces` | `DuckProofs` |
| `AsyncDuckDB!ImplementsSerialEngine` | `SerialEngineImplemented` | `DuckProofs` |
| `AsyncWait!ArgumentsAlive` | `ArgumentsStayAlive` | `DelegateProofs` |
| `AsyncWait!ImplementsBlockingCall` | `BlockingCallImplemented` | `DelegateProofs` |
| `Delegates!BroadcastsExact` | `BroadcastsAlwaysExact` | `DelegateProofs` |
| `Delegates!TargetAlive` | `TargetsStayAlive` | `DelegateProofs` |
| `Delegates!ReturnsOwnResult` | `ResultsAlwaysOwn` | `DelegateProofs` |
| `Delegates!RemovesSameTarget` | `RemovesTheSame` | `DelegateProofs` |
| `Retry!BudgetHolds` | `BudgetAlwaysHolds` | `RetryProofs` |
| `Retry!StoredIsWatched` | `StoredStaysWatched` | `RetryProofs` |
| `Retry!SuccessMeansReceived` | `SuccessIsReceived` | `RetryProofs` |
| `Retry!FilterIsExact` | `FilterStaysExact`, `RepetitionsStayFarApart` | `RetryProofs` |
| `Ports!LifetimesHold` | `LifetimesAlwaysHold` | `PortsProofs` |
| `Ports!QueueIsKept` | `PortQueueAlwaysKept` | `PortsProofs` |
| `Ports!UrgentFirst` | `UrgentAlwaysFirst` | `PortsProofs` |
| `Timer!ListsKept` | `ListsAlwaysKept` | `ClockProofs` |
| `Signal!EmissionsExact` | `EmissionsAlwaysExact` | `ClockProofs` |
| `Timer!PacingHolds` | `PacingAlwaysHolds` | `ClockProofs` |
| `Watchdog!WatchdogHolds` | `WatchdogAlwaysHolds` | `ClockProofs` |
| `Engine!NothingAfterStop` | `NothingRunsAfterStop` | `EngineProofs` |
| `Engine!CallsExact` | `CallsAlwaysExact` | `EngineProofs` |
| `Engine!AnswersExact` | `AnswersAlwaysExact`, `TrueAnswers`; `NoneDropped`, `FewAnswersExact` | `EngineProofs` |
| `DataBus!BusConsistent` | `TablesAgree` | `DataBusProofs` |
| `DataBus!SubscribersUpToDate` | `LastValueReachesAll` | `DataBusProofs` |
| `DataBus!SentOnce` | `NothingLostOrDoubled` | `DataBusProofs` |
| `NetworkNode!NodeHolds` | `NodeDoesAsTold` | `DataBusProofs` |

`Thread`, `AsyncWait` and `Retry` have their type invariants as theorems of
their own (`TypeCorrect`); in `AsyncDuckDB`, `Delegates`, `Ports`, `Signal`, `Timer`, `Watchdog`, `Engine`,
`DataBus` and `NetworkNode` it is a part of
the invariant in the table.

### The worker thread

`HandlersSerial` speaks of two threads in handlers. It holds because at most
one OS thread that did not end itself is alive at all (`SingleLive`), because
that one is the one `m_thread` holds, or will hold when `emplace` returns
(`LiveIsHeld`), and because the thread is joined or detached before `m_thread`
is reset (`Lifetime`, which ties the position of the create or exit call to
what `m_thread` holds). `NothingStranded` needs in addition that a message is
pushed only while `m_exit` is clear, that `m_exit` is clear only while a thread
is held or being created (`Stranding`), and that whoever is inside
`DispatchDelegate` has a message whose status says so (`Dispatches`), which
makes `Push` type-correct. Together they are `IInv`.

`QInv` adds what is known of an exit in progress (`Ending`), where the exit
message is (`ExitReachesWorker`), that each accepted message is in its queue
(`Filed`), and what is left when the loop has ended (`Drained`). `KInv` adds
the two parts about producers: the limit, with one place more for the exit
message (`Limited`), and a balance (`Woken`): as long as somebody waits, the
messages in the queues and the producers that have been notified fill the
limit. Each `Take` makes room for one and notifies one; a producer that was
notified in vain, or gave up, has found the queue full. This is what excludes a
lost wake-up.

The last part of `ThreadProofs` shows that every step of `Thread` is a step of `Mailbox` or
none under the mapping of `ImplementsMailbox`. It needs that each message is in
one place (`Placed`): in the hands of the one thread that dispatches it, once
in the queue of its priority, or with the one handler that serves it.

### The proxy

`DuckProofs` is about `AsyncDuckDB`, which takes the steps of an instance of
`Thread`; the last invariant of `ThreadProofs` holds of that instance (`TP!MInv`)
and is a part of `OInv`. The rest of `OInv` ties the two levels together:
controllers only end the worker, so that no task ends its own thread
(`Controlled`); an operation is the call of at most one thread, whose dispatch
it is (`Calling`); what is known of an operation before, during and after its
call (`Recorded`); where the handle is that it opens (`Opened`), and that the
operations beyond the application's own are the destructors of proxies left
behind, one each (`Numbered`). The last bounds the number of operations by
twice the number of calls (`RoomToBegin`, a pigeonhole argument), which is why
`Ops` is as large as it is. `DInv` adds `Freed` (a handle is destroyed exactly
when nobody holds a copy) and `InOrder`, the order of the queue as far as it
follows from the order of calls.

The last part of `DuckProofs` maps the steps to `SerialEngine`. An answer of the proxy is
an answer of the engine because `body` records what the execution gave and
`SyncDone` reads it after the signal; the other answers are timeouts and
refusals, which the abstraction allows at any time.

### The blocking delegate

`ArgumentsAlive` speaks of a running target and a caller that may be anywhere,
so its strengthening follows the lock: a caller inside a call and a thread that
serves a message have one at hand (`AtHand`), the lock of a message is held by
the thread that runs its target (`LockHeld`), and a message whose
`InvokerWaiting` is set has a caller that still makes that call
(`WaitingHasCaller`). The lock keeps `ReadBack` from clearing the flag while the
target runs. For the refinement, `JInv` adds that a message is in one place
(`OnePlace`), how far its target is there (`Progress`), and that a signaled
semaphore means a target that has run (`Signals`).

### Containers and calls

`DelegatesInv` speaks of lists that change under the iterators that stand on
them. `ContainersTyped` says what containers, frames and messages are made of;
`NodesKept` that nodes are told apart by their identifiers, that
`m_broadcastCount` counts the frames of a list, and that null nodes are left
only while somebody is calling. `FramesKept` is the heart of it: the iterator of
a frame stands on a node of its list, what it has called lies before that node,
in order, and every bound node before it has been called (`CalledSoFar`). What
a target may do to the list of a frame below it is one relation, `Grows`: nodes
keep their places, some lose their delegates, new ones come at the end. It is
shown of `PushBack`, of `Remove` and `Clear` during a broadcast, and of
`CopyList`, and `CalledSoFar` is kept by it; the sweep comes only when no frame is left
(`CleanedUp`). `ResultsOwn` and `Pinned` give the two properties about calls:
a result in a frame or a message belongs to its number, and a weak target at
work has its object locked.

`Bound`, which sweeps null nodes, is a recursive function. What it computes
is shown by induction with a set for the property (`InductionBySet`), since a
set of counterexamples would have a least element.

### Reliable sending

The theorems of `RetryProofs` hold also when sequence numbers come round while
older packets are still stored, the two that say otherwise excepted.

`BudgetHolds` bounds what was sent; what is inductive is a sum (`Budget`): what
was sent, plus a first transmission to come, plus a repetition under way, plus
the attempts left in the entry that still holds the message. It needs that a
message has one sender (`Unshared`), that whoever is inside a call has a message
(`AtHand`), and that a packet is stored under the key of its own message
(`Keyed`), since a number that comes round replaces the entry of an older one.
Each action is shown to move units of the sum or to drop them (`BudgetKept`,
`BudgetQuiet`). `Watched` strengthens `StoredIsWatched`: a thread that is just
sending again does not count as a watcher, because its key was monitored before.

The receiver's side (`FInv`): a number stays in the history of its remote id
until `HistorySize` others have come after it (`Ring`), so that two invocations
with one number are at least that far apart. `SuccessIsReceived` and
`FilterStaysExact` have the hypothesis `NumbersSuffice`, that there are no more
messages than numbers: under it no number is given twice (`Numbered`), and an
acknowledgement names the one message that was received (`Acknowledged`).
Without it both are false, which is the hazard of `Dispatcher.h:54`.

### The other ports

`PortsProofs` proves its three theorems for all six ports and three policies at
once. `StepOfQueue` first says what any step can do to the queue: accept a
message at its place, add or take an exit message, take a message, clear, or
nothing; order, contents and limit follow from that for every port. What
differs is why no handler overlaps another and no accepted message is lost. On
the RTOS ports there is one task or none while `m_exit` is clear (`Fresh`);
afterwards the exit semaphore has a token only when all tasks are gone
(`Exited`). On Win32 there is an exit message for every task that has not
ended, but for the one that nobody has asked to end (`Win32Only`). With Qt,
`m_queueSize` counts what waits, what runs and what is not acknowledged
(`QtOnly`). `Sorted` and `InOrder` are the order in the queue: urgent messages
first where the port has one queue, and normal messages handled, running and
waiting in the order of their numbers.

### Signals and timers

The theorems about `Signal` and `Timer` are about `ClockSpec`: any number of
threads that connect, break, move, clear, destroy and emit while timers start,
stop and expire, with the bounds that `SignalConstants` and `TimerConstants`
name. `Select` and the flattening of a snapshot are recursive functions. What
they compute is shown by an induction in which the property is a set, from the
library's `WFMin`: a set of counterexamples would have a least one
(`Induction`). The facts that the invariants need of them are `SelectFacts`,
`SelectIs` and `FlattenFacts`: which elements are kept, that each is kept once,
and that a selection distributes over an append.

`SigInv` says where copies are: in one list, once, from the connection to the
moment they are withdrawn (`CopiesPlaced`); which blocks a signal has had, and
that those it gave up are empty (`BlocksKept`); that a connection knows the only
list in which its copy can be (`ConnectionsKnow`), which is what makes a
disconnection through an old connection harmless after a clear; and that what
an emission has called and has still to call is its snapshot, with nobody in it
who was gone when it was taken (`EmissionsFaithful`).

`TimerInv` takes `ListedWhileNeeded` as it is and adds that nobody is in the
list twice (`TimersLinked`). The pace is a relation between the time left to a
timer and the ages of its last two expiries (`InPace`): after a late tick the
catching-up leaves less than a period, so that two expiries may be close, and
the third is not. That one message of a paced dispatch is under way rests on its
token (`MessagesOnce`): who is in the queue or with the worker is pending, and
once.

### The watchdog

`RegistryKept` needs that an object is not destroyed while `CreateThread` has
its timeout still to store (`Started`) and the two facts about the list:
`RegisterFacts`, who is put at its head was not in it, and `UnregisterFacts`,
who is unlinked is not in it any more. `AlarmsJustified` speaks of the moment
of an alarm; what is inductive is how long a loop that knows its timeout may
have given no sign of life (`SignsOfLife`): while it waits, as long as it
waits; in a handler, as long as that runs, and on all ports but one the wait
before it. Time passes only when no loop that could go on is more than `Late`
ticks late. The theorem has the hypothesis `Punctual`: a wait and that delay
together are no longer than the timeout, which is what waiting for a tenth or a
fourth of the timeout is for ("Wake up frequently", Thread.cpp:401-404). Without
it an idle thread of a busy machine is reported, by the code as by the model.

### The network engine

`EngineInvariant` is about who is where: a call in progress has a number of its
own and the lock of its channel (`Calling`), a job that somebody waits for is in
the queue or under way once, and its caller is where it waits (`Posting`), the
network thread's call is that of its job (`Waiting`). `NothingAfterStop` follows
from `Stopping`: when the receive thread has been joined nothing of it is left
in the queue, and nothing can be posted for it. This holds for every script of
the owner, every limit of the queue that drops, and whatever the serializers
and transports fail at.

`CallsAlwaysExact` has the hypothesis `StreamsAreOwn`: no two threads write to
one stream unless through the channel that locks it. That is what
`DelegateRemote.h:12-20` asks of the application; without it two calls meet in
one stream and their parts are mixed. `SInv` follows the two parts of a call
from the stream through the air into the job that reads them (`Halfway`,
`OneCallsParts`), also after a failure has left half a call behind.

The answers of `RemoteInvokeWait` rest on the numbers. With no more calls than
numbers (`NumbersSuffice`) the counter never runs ahead of the calls that ended
(`Numbered`), so that no two have the same; what the monitor still waits for is
what was sent and not acknowledged (`Monitored`), and each status that a waiting
call has kept or taken is that of a message that was sent (`Known`). This gives
`TrueAnswers`: true means acknowledged. The converse, that no acknowledgement is
missed (`Noticed`), is false when the list of early statuses, of which there are
eight, is full while the number of the call is not yet known. So
`AnswersAlwaysExact` supposes that none is dropped (`NoStatusDropped`), and
`NoneDropped` shows that this is so while there are no more calls than places,
by counting: the list has one entry of each call at most (`Distinct`).

### The data bus and the node

The theorems of `DataBusProofs` are about `NodeSpec`, which is every behaviour
of the bus alone and every one of a node on it: any number of threads, topics,
subscriptions, participants, peers and publications, with the one bound that
less than half as many values are published as there are numbers
(`DataBusConstants`), since what comes half a cycle late is taken for new.

`BusTyped` has the types and the rule all else rests on, since the node has no
lock: one thread at a time is within a call of it (`WithinOne`) and its place in
that call is possible (`Shapes`). `TablesAgree` has the hypothesis that no topic
is cached before it has a type (`EarlyCache = FALSE`): then a stored value has
the type of its topic (`Cache`). Without it the property is false, see section 5.

`LastValueReachesAll` speaks of a bus at rest. What is inductive says where the
last value is meanwhile (`Covered`): with the subscriber, in its mailbox, with a
publication that has yet to call it, or with a call of `Subscribe` that has yet
to read the cache or to deliver what it read. That a subscription is connected
before it reads the cache is what leaves no gap between the last two. `Newest`
says that the guard is on the newest value that came, in whatever order; for
this the wrapping comparison of `IsNewer` is shown to be that of the numbers
themselves (`NewerIsLater`).

`NothingLostOrDoubled` needs both that a value is in one place only, still to be
sent, in the queue of the send thread or sent (`S1`), and that it is in one at
least unless its participant is closed (`S2`). The second depends on the node:
a participant that has a topic is a peer's (`Placed`, theorem `PeersPlaced`), so
that what the exiting thread discards in silence was for a participant that
`Stop` is about to close (`Leaves`).

`NodeDoesAsTold` is two facts. What the thread of the node had been given when
`Stop` was called stays in its queue or is sent, and the queue is empty when the
thread has been joined (`Flushed`); the transports are closed afterwards. And
each call of the node has a rule for how far it has come (`Progress`): `Send`
has given its topic to the peers before the one it is at, `AddPeer` has given
its peer the topics before that one, `Stop` has taken the peers from the last
down. For a topic not to come to the wrong peer the two participants of a peer
must be its own (`Distinct`) and those of the peers to come still without topics
(`Fresh`).

### What is only model-checked

* Liveness: `NobodyWaitsForEver`, `NothingIsLeftHanging`, `CallReturns`,
  `EventuallyForgotten`, `NothingOverdue`, `PostedIsHandled`, `OwnerReturns`.
  The prover has no rule for fairness and ENABLED that reaches these models.
* `MsgSerialize`, whose content is what recursive functions over data compute.

### What is not modelled

The pending row of an Appender, whose concurrent use is undefined behaviour
from the first step on; `DeadlineSubscription`, a timer and a subscription that
share no state beyond those modelled; the thread monitor, which only reads; the
allocator, which nothing in the build of the proxy switches on; transports
other than as what they do to messages; the examples and unit tests, which
are clients.
