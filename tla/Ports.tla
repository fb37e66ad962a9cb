-------------------------------- MODULE Ports -------------------------------
(***************************************************************************)
(* The worker thread on the other operating systems: the RTOS ports        *)
(* (FreeRTOS, ThreadX, Zephyr, CMSIS-RTOS2), whose queue is a kernel       *)
(* object that lives from CreateThread() to ExitThread(), the Win32 port   *)
(* and the Qt port.  One Thread object, its owner, and Users that          *)
(* dispatch to it.                                                         *)
(*                                                                         *)
(* The port and the queue-full policy are chosen once.  What the ports     *)
(* share is written once and every port's function says what it uses.      *)
(***************************************************************************)
EXTENDS Integers, SequencesExt

CONSTANTS
    Users,          \* threads that dispatch
    Owner,          \* the thread that calls CreateThread() and ExitThread()
    OsPorts,        \* the ports to look at
    Policies,       \* the FullPolicy values to look at
    Cap,            \* queue size
    MaxTasks,       \* bound: times the thread is created
    MaxMsgs         \* bound: delegate messages dispatched

Rtos == {"freertos", "threadx", "zephyr", "cmsis"}

ASSUME PortsConstants ==
    /\ Owner \notin Users /\ IsFiniteSet(Users)
    /\ Cap \in Nat \ {0} /\ MaxTasks \in Nat /\ MaxMsgs \in Nat
    /\ OsPorts \subseteq Rtos \cup {"win32", "qt"} /\ Policies \subseteq {"DROP", "TIMEOUT", "FAULT"}

VARIABLES
    port, policy,
    watched,        \* CreateThread() got a watchdog timeout: receives time out too
    hQueue,         \* the queue exists (RTOS)
    hTask,          \* the thread handle: the task it names, or 0
    m_exit,
    queue,          \* what waits, in the order it will be taken
    m_queueSize,    \* Qt: the counter that stands for the queue's length
    unacked,        \* Qt: MessageProcessed signals in the owner's event loop
    quit,           \* Qt: tasks whose event loop has been told to quit
    loop,           \* where every task is
    running,        \* the message a task's handler has
    exitSem,        \* tokens of the exit semaphore
    call,           \* what every other thread is doing
    halted,         \* an assertion has ended the program
    accepted,       \* history: messages for which DispatchDelegate() returned true
    served,         \* history: messages handled, in order
    selfExited      \* history: a handler has ended its own thread

handles == <<hQueue, hTask, m_exit, exitSem>>
tasks == <<loop, running>>
qtVars == <<m_queueSize, unacked, quit>>
history == <<accepted, served, selfExited>>
vars == <<port, policy, watched, handles, queue, qtVars, tasks, call, halted, history>>

TaskIds == 1 .. MaxTasks
ExitMsg == [id |-> 0, prio |-> "NORMAL"]
Msgs == [id : 0 .. MaxMsgs, prio : {"NORMAL", "HIGH"}]
Idle == [pc |-> "idle", msg |-> ExitMsg]
Created == {t \in TaskIds : loop[t] # "none"}
Waiting == {i \in DOMAIN queue : queue[i].id # 0}

Init ==
    /\ port \in OsPorts /\ policy \in Policies /\ watched \in BOOLEAN
    /\ hQueue = FALSE /\ hTask = 0 /\ m_exit = FALSE /\ exitSem = 0
    /\ queue = <<>> /\ m_queueSize = 0 /\ unacked = 0 /\ quit = {}
    /\ loop = [t \in TaskIds |-> "none"] /\ running = [t \in TaskIds |-> ExitMsg]
    /\ call = [u \in Users \cup {Owner} |-> Idle]
    /\ halted = FALSE /\ accepted = {} /\ served = <<>> /\ selfExited = FALSE

Goto(u, pc) == call' = [call EXCEPT ![u].pc = pc]
Return(u) == call' = [call EXCEPT ![u] = Idle]

-----------------------------------------------------------------------------
(* CreateThread(): nothing happens while the port's handle is set.         *)
StartTask ==
    \E t \in TaskIds \ Created :
        /\ \A s \in TaskIds \ Created : t <= s
        /\ hTask' = t /\ loop' = [loop EXCEPT ![t] = "top"]

NewQueue == hQueue' = TRUE /\ queue' = <<>>

FreeRTOSCreateThread ==
    /\ hTask = 0 /\ StartTask
    /\ IF hQueue THEN UNCHANGED <<hQueue, queue>> ELSE NewQueue
    /\ UNCHANGED <<m_exit, exitSem>>

ThreadXCreateThread == hTask = 0 /\ StartTask /\ NewQueue /\ UNCHANGED <<m_exit, exitSem>>

ZephyrCreateThread == hTask = 0 /\ StartTask /\ NewQueue /\ UNCHANGED <<m_exit, exitSem>>

CmsisCreateThread == hTask = 0 /\ StartTask /\ NewQueue /\ exitSem' = 0 /\ UNCHANGED m_exit

Win32CreateThread ==
    /\ hTask = 0 /\ StartTask /\ m_exit' = FALSE
    /\ UNCHANGED <<hQueue, queue, exitSem>>

QtCreateThread ==
    /\ hTask = 0 /\ StartTask /\ queue' = <<>>
    /\ UNCHANGED <<hQueue, m_exit, exitSem>>

CreateThread ==
    /\ call[Owner].pc = "idle"
    /\ \/ port = "freertos" /\ FreeRTOSCreateThread
       \/ port = "threadx" /\ ThreadXCreateThread
       \/ port = "zephyr" /\ ZephyrCreateThread
       \/ port = "cmsis" /\ CmsisCreateThread
       \/ port = "win32" /\ Win32CreateThread
       \/ port = "qt" /\ QtCreateThread
    /\ UNCHANGED <<port, policy, watched, qtVars, running, call, halted, history>>

-----------------------------------------------------------------------------
(* Where a message goes in the queue.                                      *)
ToBack(m) == queue' = Append(queue, m)
ToFront(m) == queue' = <<m>> \o queue
Urgent(i) == queue[i].prio = "HIGH"
BehindUrgent(m) ==
    \E n \in 0 .. Len(queue) :
        /\ \A i \in DOMAIN queue : Urgent(i) <=> i <= n
        /\ queue' = InsertAt(queue, n + 1, m)

(* Mutant: the branches of the priority test are swapped.                  *)
ThreadXPutSwapped(m) == IF m.prio = "HIGH" THEN ToBack(m) ELSE ToFront(m)

FreeRTOSPut(m) == IF m.prio = "HIGH" THEN ToFront(m) ELSE ToBack(m)
ThreadXPut(m) == IF m.prio = "HIGH" THEN ToFront(m) ELSE ToBack(m)
ZephyrPut(m) == ToBack(m)
(* Mutant: every message is put with priority 0.                           *)
CmsisPutFlat(m) == ToBack(m)
CmsisPut(m) == IF m.prio = "HIGH" THEN BehindUrgent(m) ELSE ToBack(m)
Win32Put(m) == IF m.prio = "HIGH" THEN BehindUrgent(m) ELSE ToBack(m)
QtPut(m) == ToBack(m) /\ m_queueSize' = m_queueSize + 1

Put(m) ==
    \/ port = "freertos" /\ FreeRTOSPut(m) /\ UNCHANGED m_queueSize
    \/ port = "threadx" /\ ThreadXPut(m) /\ UNCHANGED m_queueSize
    \/ port = "zephyr" /\ ZephyrPut(m) /\ UNCHANGED m_queueSize
    \/ port = "cmsis" /\ CmsisPut(m) /\ UNCHANGED m_queueSize
    \/ port = "win32" /\ Win32Put(m) /\ UNCHANGED m_queueSize
    \/ port = "qt" /\ QtPut(m)

(* DispatchDelegate(), the test of the handle.  It is made without a lock, *)
(* so that what follows may find the thread ended.                         *)
Alive ==
    CASE port \in {"freertos", "threadx"} -> hQueue
      [] port = "win32" -> ~m_exit /\ hTask # 0
      [] port = "qt" -> hTask # 0 /\ loop[hTask] # "gone"
      [] OTHER -> TRUE

(* Zephyr and CMSIS-RTOS2 assert that the thread exists.                   *)
Asserts == port \in {"zephyr", "cmsis"} /\ (IF port = "zephyr" THEN hTask = 0 ELSE ~hQueue)

Sent == Cardinality(accepted) + Cardinality({u \in Users : call[u].pc = "sending"})

Dispatch(u, prio) ==
    /\ call[u].pc = "idle" /\ Alive /\ Sent < MaxMsgs
    /\ halted' = Asserts
    /\ call' = [call EXCEPT ![u] = [pc |-> "sending", msg |-> [id |-> 0, prio |-> prio]]]
    /\ UNCHANGED <<port, policy, watched, handles, queue, qtVars, tasks, history>>

Full ==
    CASE port = "qt" -> m_queueSize >= Cap
      [] port = "win32" -> Len(queue) >= Cap
      [] OTHER -> Len(queue) = Cap

(* The queue takes the message; it is numbered by its place in the order   *)
(* of acceptance.                                                          *)
Accept(u) ==
    LET m == [call[u].msg EXCEPT !.id = Cardinality(accepted) + 1]
    IN  /\ Put(m) /\ accepted' = accepted \cup {m}
        /\ Return(u)
        /\ UNCHANGED <<port, policy, watched, handles, unacked, quit, tasks, halted, served, selfExited>>

(* The call can still be made: a kernel queue exists, a Qt thread exists.  *)
Usable ==
    CASE port \in Rtos -> hQueue
      [] port = "qt" -> hTask # 0
      [] OTHER -> TRUE

Closed == \/ port = "win32" /\ m_exit
          \/ port = "qt" /\ loop[hTask] = "gone"

Send(u) ==
    /\ call[u].pc = "sending" /\ Usable
    /\ ~Closed /\ ~Full
    /\ Accept(u)

(* It fails: at once on a full queue, after dispatchTimeout under TIMEOUT, *)
(* when the thread has ended, or with a fault.                             *)
SendFails(u) ==
    /\ call[u].pc = "sending" /\ Usable
    /\ Full \/ Closed
    /\ halted' = (policy = "FAULT" /\ Full)
    /\ Return(u)
    /\ UNCHANGED <<port, policy, watched, handles, queue, qtVars, tasks, history>>

(* The queue was deleted, or the QThread destroyed, after the test: the    *)
(* kernel is called with a dead handle.  The build may report anything or  *)
(* stop; the message goes nowhere.                                         *)
SendOnDeadHandle(u) ==
    /\ call[u].pc = "sending" /\ ~Usable
    /\ halted' \in BOOLEAN
    /\ Return(u)
    /\ UNCHANGED <<port, policy, watched, handles, queue, qtVars, tasks, history>>

-----------------------------------------------------------------------------
(* The loop.  RTOS: m_exit is looked at before every receive.              *)
Serve(t, m) ==
    /\ queue' = Tail(queue)
    /\ loop' = [loop EXCEPT ![t] = "run"] /\ running' = [running EXCEPT ![t] = m]

LoopTop(t) ==
    /\ loop[t] = "top"
    /\ loop' = [loop EXCEPT ![t] = IF m_exit THEN "leave" ELSE "wait"]
    /\ UNCHANGED <<queue, running>>

(* With a watchdog the receive ends after a quarter of its period.         *)
ReceiveTimeout(t) ==
    /\ loop[t] = "wait" /\ watched /\ queue = <<>>
    /\ loop' = [loop EXCEPT ![t] = "top"]
    /\ UNCHANGED <<queue, running>>

Receive(t) ==
    /\ loop[t] = "wait" /\ hQueue /\ queue # <<>>
    /\ IF Head(queue) = ExitMsg
       THEN /\ queue' = Tail(queue) /\ loop' = [loop EXCEPT ![t] = "leave"]
            /\ UNCHANGED running
       ELSE Serve(t, Head(queue))

Loops(t) ==
    /\ LoopTop(t) \/ ReceiveTimeout(t) \/ Receive(t)
    /\ UNCHANGED exitSem

(* The loop has been left: a token for the one who waits in ExitThread().  *)
Gone(t) == loop[t] = "leave" /\ loop' = [loop EXCEPT ![t] = "gone"] /\ UNCHANGED <<queue, running>>
GiveBinary == exitSem' = 1

(* Mutant: a thread that saw m_exit returns without giving the semaphore.  *)
FreeRTOSRunReturns(t) == Loops(t) \/ (Gone(t) /\ UNCHANGED exitSem)

FreeRTOSRun(t) == Loops(t) \/ (Gone(t) /\ GiveBinary)
ThreadXRun(t) == Loops(t) \/ (Gone(t) /\ exitSem' = exitSem + 1)
ZephyrRun(t) == Loops(t) \/ (Gone(t) /\ GiveBinary)
CmsisRun(t) == Loops(t) \/ (Gone(t) /\ GiveBinary)

(* Win32: the exit message is one of the urgent ones; an empty queue and   *)
(* m_exit end the thread too.                                              *)
Win32Process(t) ==
    /\ loop[t] = "top"
    /\ \/ /\ queue = <<>> /\ m_exit
          /\ loop' = [loop EXCEPT ![t] = "gone"] /\ UNCHANGED <<queue, running>>
       \/ /\ queue # <<>>
          /\ IF Head(queue).id = 0
             THEN /\ loop' = [loop EXCEPT ![t] = "gone"] /\ queue' = Tail(queue)
                  /\ UNCHANGED running
             ELSE Serve(t, Head(queue))
    /\ UNCHANGED exitSem

(* Qt: the event loop hands out the queued signals; once told to quit it   *)
(* may still deliver what is posted.                                       *)
QtEventLoop(t) ==
    /\ loop[t] = "top"
    /\ \/ /\ t \in quit
          /\ loop' = [loop EXCEPT ![t] = "gone"] /\ UNCHANGED <<queue, running>>
       \/ queue # <<>> /\ hTask = t /\ Serve(t, Head(queue))
    /\ UNCHANGED exitSem

Run(t) ==
    /\ \/ port = "freertos" /\ FreeRTOSRun(t)
       \/ port = "threadx" /\ ThreadXRun(t)
       \/ port = "zephyr" /\ ZephyrRun(t)
       \/ port = "cmsis" /\ CmsisRun(t)
       \/ port = "win32" /\ Win32Process(t)
       \/ port = "qt" /\ QtEventLoop(t)
    /\ UNCHANGED <<port, policy, watched, hQueue, hTask, m_exit, qtVars, call, halted, history>>

(* The handler returns; Qt then signals MessageProcessed.                  *)
HandlerReturns(t) ==
    /\ loop[t] = "run"
    /\ served' = Append(served, running[t])
    /\ loop' = [loop EXCEPT ![t] = "top"]
    /\ unacked' = IF port = "qt" THEN unacked + 1 ELSE unacked
    /\ UNCHANGED <<port, policy, watched, handles, queue, m_queueSize, quit, running, call, halted,
                   accepted, selfExited>>

(* Qt: the owner's event loop counts the message as done.                  *)
OnMessageProcessed ==
    /\ unacked > 0 /\ call[Owner].pc = "idle"
    /\ unacked' = unacked - 1 /\ m_queueSize' = m_queueSize - 1
    /\ UNCHANGED <<port, policy, watched, handles, queue, quit, tasks, call, halted, history>>

-----------------------------------------------------------------------------
(* ExitThread() of the RTOS ports: m_exit, then the exit message, however  *)
(* long the queue is full, then the token of the loop, then the queue.     *)
BeginExit == hQueue /\ m_exit' = TRUE /\ UNCHANGED <<hQueue, hTask, exitSem, queue>>
PostExit == hQueue /\ Len(queue) < Cap /\ queue' = Append(queue, ExitMsg) /\ UNCHANGED handles
DeleteQueue == hQueue' = FALSE /\ queue' = <<>> /\ hTask' = 0 /\ UNCHANGED m_exit

(* Mutant: the exit semaphore is not waited for.                           *)
FreeRTOSCleanUpUnjoined == DeleteQueue /\ UNCHANGED <<exitSem, loop>>

TakeToken == exitSem > 0 /\ exitSem' = exitSem - 1

FreeRTOSCleanUp == TakeToken /\ DeleteQueue /\ UNCHANGED loop
ZephyrCleanUp == TakeToken /\ DeleteQueue /\ UNCHANGED loop
CmsisCleanUp == TakeToken /\ DeleteQueue /\ UNCHANGED loop
ThreadXCleanUp == TakeToken /\ DeleteQueue /\ loop' = [loop EXCEPT ![hTask] = "gone"]

RtosExitThread ==
    /\ port \in Rtos
    /\ \/ call[Owner].pc = "idle" /\ BeginExit /\ Goto(Owner, "posting") /\ UNCHANGED loop
       \/ call[Owner].pc = "posting" /\ PostExit /\ Goto(Owner, "joining") /\ UNCHANGED loop
       \/ /\ call[Owner].pc = "joining"
          /\ \/ port = "freertos" /\ FreeRTOSCleanUp
             \/ port = "threadx" /\ ThreadXCleanUp
             \/ port = "zephyr" /\ ZephyrCleanUp
             \/ port = "cmsis" /\ CmsisCleanUp
          /\ Return(Owner)
    /\ UNCHANGED qtVars

(* Win32: the exit message passes the limit, and the thread is waited for. *)
Win32ExitThread ==
    /\ port = "win32"
    /\ \/ /\ call[Owner].pc = "idle" /\ hTask # 0
          /\ m_exit' = TRUE /\ BehindUrgent([ExitMsg EXCEPT !.prio = "HIGH"])
          /\ Goto(Owner, "joining") /\ UNCHANGED hTask
       \/ /\ call[Owner].pc = "joining" /\ (hTask # 0 => loop[hTask] = "gone")
          /\ hTask' = 0 /\ Return(Owner) /\ UNCHANGED <<m_exit, queue>>
    /\ UNCHANGED <<hQueue, exitSem, loop, qtVars>>

QtExitThread ==
    /\ port = "qt" /\ hTask # 0
    /\ \/ /\ call[Owner].pc = "idle"
          /\ quit' = quit \cup {hTask} /\ Goto(Owner, "joining") /\ UNCHANGED <<hTask, queue>>
       \/ /\ call[Owner].pc = "joining" /\ loop[hTask] = "gone"
          /\ hTask' = 0 /\ queue' = <<>> /\ Return(Owner) /\ UNCHANGED quit
    /\ UNCHANGED <<hQueue, m_exit, exitSem, loop, m_queueSize, unacked>>

ExitThread ==
    /\ RtosExitThread \/ Win32ExitThread \/ QtExitThread
    /\ UNCHANGED <<port, policy, watched, running, halted, history>>

(* ExitThread() from a handler: nobody is waited for.  ThreadX terminates  *)
(* the caller, so that neither the queue is deleted nor the semaphore      *)
(* given.                                                                  *)
ExitsItself(t) ==
    /\ loop[t] = "run" /\ hTask = t
    /\ \/ /\ port \in {"freertos", "cmsis", "threadx"} /\ BeginExit
          /\ loop' = [loop EXCEPT ![t] = "posting"]
       \/ /\ port = "win32" /\ m_exit' = TRUE /\ hTask' = 0
          /\ BehindUrgent([ExitMsg EXCEPT !.prio = "HIGH"])
          /\ UNCHANGED <<hQueue, exitSem, loop>>
    /\ selfExited' = TRUE
    /\ UNCHANGED <<port, policy, watched, qtVars, running, call, halted, accepted, served>>

PostsToItself(t) ==
    /\ loop[t] = "posting" /\ hQueue /\ Len(queue) < Cap
    /\ \/ /\ port = "threadx" /\ queue' = Append(queue, ExitMsg)
          /\ loop' = [loop EXCEPT ![t] = "gone"] /\ UNCHANGED handles
       \/ /\ port # "threadx" /\ DeleteQueue /\ UNCHANGED exitSem
          /\ loop' = [loop EXCEPT ![t] = "run"]
    /\ UNCHANGED <<port, policy, watched, qtVars, running, call, halted, history>>

-----------------------------------------------------------------------------
Caller(u) == Send(u) \/ SendFails(u) \/ SendOnDeadHandle(u)
Handler(t) == HandlerReturns(t) \/ PostsToItself(t)

Next ==
    /\ ~halted
    /\ \/ CreateThread \/ ExitThread \/ OnMessageProcessed
       \/ \E u \in Users : (\E prio \in {"NORMAL", "HIGH"} : Dispatch(u, prio)) \/ Caller(u)
       \/ \E t \in TaskIds : Run(t) \/ Handler(t) \/ ExitsItself(t)

(* The kernel schedules every task, handlers return, and a call that can   *)
(* go on does; nobody has to dispatch, create or exit.                     *)
Fairness ==
    /\ \A t \in TaskIds : WF_vars(~halted /\ Run(t)) /\ WF_vars(~halted /\ Handler(t))
    /\ \A u \in Users : WF_vars(~halted /\ Caller(u))
    /\ WF_vars(~halted /\ OnMessageProcessed)
    /\ WF_vars(~halted /\ ExitThread /\ call[Owner].pc # "idle")

Spec == Init /\ [][Next]_vars /\ Fairness

-----------------------------------------------------------------------------
TypeOK ==
    /\ port \in OsPorts /\ policy \in Policies /\ watched \in BOOLEAN
    /\ hQueue \in BOOLEAN /\ hTask \in 0 .. MaxTasks /\ m_exit \in BOOLEAN
    /\ exitSem \in Nat /\ queue \in Seq(Msgs) /\ m_queueSize \in Nat /\ unacked \in Nat
    /\ quit \subseteq TaskIds /\ running \in [TaskIds -> Msgs]
    /\ loop \in [TaskIds -> {"none", "top", "wait", "run", "posting", "leave", "gone"}]
    /\ call \in [Users \cup {Owner} -> [pc : {"idle", "sending", "posting", "joining"}, msg : Msgs]]
    /\ halted \in BOOLEAN /\ accepted \subseteq Msgs /\ served \in Seq(Msgs) /\ selfExited \in BOOLEAN

(* The queue is deleted only when no task is in a receive on it: the exit  *)
(* semaphore is what keeps ExitThread() from pulling it away.              *)
QueueOutlivesLoop == port \in Rtos => \A t \in TaskIds : loop[t] = "wait" => hQueue

(* After ExitThread() from another thread no task of the object is left    *)
(* that could still run a handler.                                         *)
ExitMeansStopped ==
    ~selfExited /\ hTask = 0 => \A t \in Created : loop[t] = "gone"

(* Two tasks never run handlers of one Thread object at once, although a   *)
(* thread may be created again while a task that ended itself is still in  *)
(* its handler.  (Win32 clears m_exit then and cannot promise it.)         *)
HandlersSerial ==
    \/ port = "win32" /\ selfExited
    \/ Cardinality({t \in TaskIds : loop[t] = "run"}) <= 1

(* Queue, task and Thread object do not outlive each other.                *)
LifetimesHold == TypeOK /\ QueueOutlivesLoop /\ ExitMeansStopped /\ HandlersSerial

(* Normal messages are handled in the order in which they were accepted,   *)
(* whatever urgent ones pass them, on every port and over re-creation.     *)
NormalOrder ==
    \A i, j \in DOMAIN served :
        i < j /\ served[i].prio = "NORMAL" /\ served[j].prio = "NORMAL" => served[i].id < served[j].id

(* On the ports that know priorities, no normal message is taken while an  *)
(* urgent one waits.                                                       *)
UrgentFirst ==
    [][\A t \in TaskIds :
         loop[t] \in {"top", "wait"} /\ loop'[t] = "run" /\ running'[t].prio = "NORMAL"
            /\ port \in {"freertos", "threadx", "cmsis", "win32"}
         => \A i \in DOMAIN queue : ~Urgent(i)]_vars

(* As long as nobody has asked the thread to end, an accepted message is   *)
(* waiting, being handled or handled: only the end of a thread drops any.  *)
OnlyExitDrops ==
    ~m_exit /\ quit = {} /\ ~selfExited
    => \A m \in accepted :
         \/ m \in ToSet(queue) \cup ToSet(served)
         \/ \E t \in TaskIds : loop[t] = "run" /\ running[t] = m

(* No more delegate messages wait than the limit, and Qt's counter, which  *)
(* is all it has of the queue, never falls below what really waits.        *)
QueueBounded == Cardinality(Waiting) <= Cap /\ (port = "qt" => Len(queue) <= m_queueSize)

(* The queue of every port keeps its order, its messages and its limit.    *)
QueueIsKept == NormalOrder /\ OnlyExitDrops /\ QueueBounded

(* ExitThread() returns once its exit message is in the queue.             *)
PostedExitReturns ==
    ~(port = "threadx" /\ selfExited) /\ call[Owner].pc = "joining"
    ~> call[Owner].pc = "idle" \/ halted \/ selfExited

(* A message that was accepted is handled unless the thread is told to     *)
(* end.  (A handler that ends its own thread while the owner does so too   *)
(* leaves Win32 a second exit message, which ends the next thread.)        *)
AcceptedIsServed ==
    \A n \in 1 .. MaxMsgs :
        (\E m \in accepted : m.id = n)
        ~> (\E m \in ToSet(served) : m.id = n) \/ m_exit \/ quit # {} \/ halted \/ selfExited

(* What is in the queue is got to, messages and exit messages alike.       *)
PostedIsHandled == PostedExitReturns /\ AcceptedIsServed

(* freertos/Thread.cpp:181 "This ensures the thread WILL receive it": what *)
(* ExitThread() posts is taken, and the call returns.                      *)
ExitReturns ==
    port = "freertos" /\ call[Owner].pc = "posting"
    ~> call[Owner].pc = "idle" \/ halted \/ selfExited
=============================================================================
