------------------------------- MODULE Thread -------------------------------
(***************************************************************************)
(* The worker thread of DelegateMQ's standard-library port                 *)
(* (src/DelegateMQ/port/os/stdlib/Thread.cpp): two message queues under    *)
(* one mutex, a loop that serves them, blocking dispatch with three        *)
(* queue-full policies, and a thread that is created, ended and created    *)
(* again.                                                                  *)
(*                                                                         *)
(* Every action is one step that no other thread can cut in two: a         *)
(* critical section of m_mutex, or one read of m_exit or m_thread made     *)
(* outside of it.                                                          *)
(***************************************************************************)
EXTENDS Naturals, Sequences, FiniteSets

CONSTANTS
  Callers,       \* application threads
  Workers,       \* OS threads that CreateThread may spawn, each at most once
  Msgs,          \* delegate messages, each dispatched at most once
  HighMsgs,      \* the messages of Priority::HIGH
  MaxQueueSize,  \* MAX_QUEUE_SIZE; 0 means unlimited
  Policies,      \* the queue-full policies a thread may be constructed with
  NoThread,      \* m_thread == nullopt
  NoMsg,         \* no message at hand
  ExitMsg        \* the message MSG_EXIT_THREAD

Threads == Callers \cup Workers

ASSUME ThreadAssumption ==
  /\ Callers \cap Workers = {}
  /\ NoThread \notin Threads
  /\ NoMsg \notin Msgs
  /\ ExitMsg \notin Msgs
  /\ HighMsgs \subseteq Msgs
  /\ MaxQueueSize \in Nat
  /\ Policies \subseteq {"DROP", "FAULT", "TIMEOUT"}

ASSUME FiniteThreads == IsFiniteSet(Threads)

VARIABLES
  policy,       \* FULL_POLICY, const
  mThread,      \* the OS thread m_thread holds, or NoThread
  mExit,        \* m_exit
  highQueue,    \* m_highQueue
  normalQueue,  \* m_normalQueue
  worker,       \* where each OS thread is in Process()
  wmsg,         \* the message it is invoking
  selfExit,     \* the OS threads whose t_self_exit flag is set
  dpc,          \* where each thread is in DispatchDelegate()
  dmsg,         \* the message it is dispatching
  ctlpc,        \* where the create or exit call under way is
  ctlby,        \* the thread that makes it
  status,       \* history: what became of each message
  fault         \* what has ended the process: none, a full queue, a handler

Aborted == fault # "none"

queues == <<highQueue, normalQueue>>
loop   == <<worker, wmsg, selfExit>>
calls  == <<dpc, dmsg>>
ctl    == <<ctlpc, ctlby>>
vars == <<policy, mThread, mExit, queues, loop, calls, ctl, status, fault>>

WorkerStates == {"unborn", "starting", "idle", "invoking", "stopped"}
CallStates   == {"out", "hasThread", "lock", "waiting", "notified"}
CtlStates    == {"none", "spawn", "emplace", "started", "join", "reset"}
Fates        == {"new", "calling", "queued", "invoking", "done",
                 "refused", "dropped", "threw", "discarded"}

Size == Len(highQueue) + Len(normalQueue)
Full == MaxQueueSize > 0 /\ Size >= MaxQueueSize

TypeOK ==
  /\ policy \in Policies
  /\ mThread \in Workers \cup {NoThread}
  /\ mExit \in BOOLEAN
  /\ highQueue \in Seq(Msgs)
  /\ normalQueue \in Seq(Msgs \cup {ExitMsg})
  /\ worker \in [Workers -> WorkerStates]
  /\ wmsg \in [Workers -> Msgs \cup {NoMsg}]
  /\ selfExit \in SUBSET Workers
  /\ dpc \in [Threads -> CallStates]
  /\ dmsg \in [Threads -> Msgs \cup {NoMsg}]
  /\ ctlpc \in CtlStates
  /\ ctlby \in Threads \cup {NoThread}
  /\ status \in [Msgs -> Fates]
  /\ fault \in {"none", "full", "handler"}

Init ==
  /\ policy \in Policies
  /\ mThread = NoThread
  /\ mExit = FALSE
  /\ highQueue = <<>>
  /\ normalQueue = <<>>
  /\ worker = [w \in Workers |-> "unborn"]
  /\ wmsg = [w \in Workers |-> NoMsg]
  /\ selfExit = {}
  /\ dpc = [t \in Threads |-> "out"]
  /\ dmsg = [t \in Threads |-> NoMsg]
  /\ ctlpc = "none"
  /\ ctlby = NoThread
  /\ status = [m \in Msgs |-> "new"]
  /\ fault = "none"

-----------------------------------------------------------------------------
(* Where a thread is. A fault ends the process, and no thread takes a step *)
(* after it.                                                               *)
InCall(t, s)   == ~Aborted /\ dpc[t] = s
InLoop(w, s)   == ~Aborted /\ worker[w] = s
InControl(s)   == ~Aborted /\ ctlpc = s

(* Code of an application, or of a message handler, runs on t and is not   *)
(* inside a call of this class.                                            *)
Free(t) ==
  /\ InCall(t, "out")
  /\ ctlby # t
  /\ t \in Workers => worker[t] = "invoking"

(* notify_all on m_cvNotFull. *)
NotifyAll(d) == [t \in Threads |-> IF d[t] = "waiting" THEN "notified" ELSE d[t]]

(* Mutant: no notification. *)
NotifyNobody(d, e) == e = d

(* notify_one on m_cvNotFull, which wakes any one of the waiting producers. *)
NotifyOne(d, e) ==
  IF \E t \in Threads : d[t] = "waiting"
    THEN \E t \in Threads : d[t] = "waiting" /\ e = [d EXCEPT ![t] = "notified"]
    ELSE e = d

-----------------------------------------------------------------------------
(* DispatchDelegate, run by thread t.                                      *)

Return(t, fate) ==
  /\ dpc' = [dpc EXCEPT ![t] = "out"]
  /\ dmsg' = [dmsg EXCEPT ![t] = NoMsg]
  /\ status' = [status EXCEPT ![dmsg[t]] = fate]

Push(t) ==
  /\ Return(t, "queued")
  /\ IF dmsg[t] \in HighMsgs
       THEN highQueue' = Append(highQueue, dmsg[t]) /\ UNCHANGED normalQueue
       ELSE normalQueue' = Append(normalQueue, dmsg[t]) /\ UNCHANGED highQueue

(* Mutant: m_exit is not checked again. *)
EnqueueUnchecked(t) == Push(t)

(* With the lock held and room in the queue: refuse if the thread is       *)
(* exiting, else enqueue and notify the worker.                            *)
Enqueue(t) ==
  \/ mExit /\ Return(t, "refused") /\ UNCHANGED queues
  \/ ~mExit /\ Push(t)

(* The early, unlocked check of m_exit. *)
DispatchDelegate(t, m) ==
  /\ Free(t)
  /\ status[m] = "new"
  /\ \/ /\ mExit
        /\ status' = [status EXCEPT ![m] = "refused"]
        /\ UNCHANGED calls
     \/ /\ ~mExit
        /\ dpc' = [dpc EXCEPT ![t] = "hasThread"]
        /\ dmsg' = [dmsg EXCEPT ![t] = m]
        /\ status' = [status EXCEPT ![m] = "calling"]
  /\ UNCHANGED <<policy, mThread, mExit, queues, loop, ctl, fault>>

(* The unlocked check of m_thread: std::invalid_argument when it is null.  *)
CheckThread(t) ==
  /\ InCall(t, "hasThread")
  /\ \/ mThread = NoThread /\ Return(t, "threw")
     \/ /\ mThread # NoThread
        /\ dpc' = [dpc EXCEPT ![t] = "lock"]
        /\ UNCHANGED <<dmsg, status>>
  /\ UNCHANGED <<policy, mThread, mExit, queues, loop, ctl, fault>>

(* The predicate of wait_for. *)
MayProceed == ~Full \/ mExit

(* The critical section, up to the return or to the wait for room. wait_for *)
(* evaluates its predicate before it waits.                                 *)
Lock(t) ==
  /\ InCall(t, "lock")
  /\ \/ /\ ~Full \/ (policy = "TIMEOUT" /\ MayProceed)
        /\ Enqueue(t)
        /\ UNCHANGED fault
     \/ Full /\ policy = "DROP" /\ Return(t, "dropped") /\ UNCHANGED <<queues, fault>>
     \/ Full /\ policy = "FAULT" /\ fault' = "full" /\ UNCHANGED <<calls, status, queues>>
     \/ /\ policy = "TIMEOUT" /\ ~MayProceed
        /\ dpc' = [dpc EXCEPT ![t] = "waiting"]
        /\ UNCHANGED <<dmsg, status, queues, fault>>
  /\ UNCHANGED <<policy, mThread, mExit, loop, ctl>>

(* A notified producer holds the lock again: proceed, or wait on. *)
Wake(t) ==
  /\ InCall(t, "notified")
  /\ \/ MayProceed /\ Enqueue(t)
     \/ /\ ~MayProceed
        /\ dpc' = [dpc EXCEPT ![t] = "waiting"]
        /\ UNCHANGED <<dmsg, status, queues>>
  /\ UNCHANGED <<policy, mThread, mExit, loop, ctl, fault>>

(* Mutant: the wait starts over. *)
WaitTimeoutRetries(t) ==
  /\ InCall(t, "waiting") \/ InCall(t, "notified")
  /\ \/ MayProceed /\ Enqueue(t)
     \/ /\ ~MayProceed
        /\ dpc' = [dpc EXCEPT ![t] = "waiting"]
        /\ UNCHANGED <<dmsg, status, queues>>
  /\ UNCHANGED <<policy, mThread, mExit, loop, ctl, fault>>

(* m_dispatchTimeout has passed: the predicate decides one last time. *)
WaitTimeout(t) ==
  /\ InCall(t, "waiting") \/ InCall(t, "notified")
  /\ \/ MayProceed /\ Enqueue(t)
     \/ ~MayProceed /\ Return(t, "dropped") /\ UNCHANGED queues
  /\ UNCHANGED <<policy, mThread, mExit, loop, ctl, fault>>

-----------------------------------------------------------------------------
(* Process, run by the OS thread w.                                        *)

(* m_threadStartPromise->set_value(). *)
Started(w) ==
  /\ InLoop(w, "starting")
  /\ worker' = [worker EXCEPT ![w] = "idle"]
  /\ UNCHANGED <<policy, mThread, mExit, queues, wmsg, selfExit, calls, ctl, status, fault>>

(* Mutant: the normal queue goes first. *)
PopNormalFirst(m) ==
  \/ /\ normalQueue # <<>>
     /\ m = Head(normalQueue)
     /\ normalQueue' = Tail(normalQueue) /\ UNCHANGED highQueue
  \/ /\ normalQueue = <<>> /\ highQueue # <<>>
     /\ m = Head(highQueue)
     /\ highQueue' = Tail(highQueue) /\ UNCHANGED normalQueue

(* Mutant: the newest message of the normal queue goes first. *)
PopNewest(m) ==
  /\ normalQueue # <<>>
  /\ m = normalQueue[Len(normalQueue)]
  /\ normalQueue' = SubSeq(normalQueue, 1, Len(normalQueue) - 1)
  /\ UNCHANGED highQueue

(* m is the first message, of the high queue if it has one. *)
Pop(m) ==
  \/ /\ highQueue # <<>>
     /\ m = Head(highQueue)
     /\ highQueue' = Tail(highQueue) /\ UNCHANGED normalQueue
  \/ /\ highQueue = <<>> /\ normalQueue # <<>>
     /\ m = Head(normalQueue)
     /\ normalQueue' = Tail(normalQueue) /\ UNCHANGED highQueue

(* Take a message and free a blocked producer. MSG_EXIT_THREAD ends the    *)
(* loop. The loop's other exit, both queues empty and m_exit set, is never *)
(* reached: see ExitReachesWorker.                                         *)
Take(w) ==
  /\ InLoop(w, "idle")
  /\ \E m \in Msgs \cup {ExitMsg} :
       /\ Pop(m)
       /\ \/ /\ m = ExitMsg
             /\ worker' = [worker EXCEPT ![w] = "stopped"]
             /\ UNCHANGED <<wmsg, status>>
          \/ /\ m # ExitMsg
             /\ worker' = [worker EXCEPT ![w] = "invoking"]
             /\ wmsg' = [wmsg EXCEPT ![w] = m]
             /\ status' = [status EXCEPT ![m] = "invoking"]
  /\ IF MaxQueueSize > 0 THEN NotifyOne(dpc, dpc') ELSE UNCHANGED dpc
  /\ UNCHANGED <<policy, mThread, mExit, selfExit, dmsg, ctl, fault>>

(* The handler has returned. A handler that ended its own thread leaves    *)
(* t_self_exit set, and the loop ends without touching the object again.   *)
Finish(w) ==
  /\ InLoop(w, "invoking")
  /\ Free(w)
  /\ worker' = [worker EXCEPT ![w] = IF w \in selfExit THEN "stopped" ELSE "idle"]
  /\ wmsg' = [wmsg EXCEPT ![w] = NoMsg]
  /\ status' = [status EXCEPT ![wmsg[w]] = "done"]
  /\ UNCHANGED <<policy, mThread, mExit, queues, selfExit, calls, ctl, fault>>

(* The handler has let an exception escape: caught, and turned into a fault. *)
HandlerThrows(w) ==
  /\ InLoop(w, "invoking")
  /\ Free(w)
  /\ fault' = "handler"
  /\ UNCHANGED <<policy, mThread, mExit, queues, loop, calls, ctl, status>>

-----------------------------------------------------------------------------
(* CreateThread and ExitThread, run by thread t. Thread.h says of both     *)
(* "called once": no two such calls overlap.                               *)

(* m_thread is null: a new promise, and m_exit is cleared. *)
CreateThread(t) ==
  /\ InControl("none") /\ Free(t)
  /\ mThread = NoThread
  /\ \E w \in Workers : worker[w] = "unborn"    \* bound: restarts
  /\ mExit' = FALSE
  /\ ctlpc' = "spawn" /\ ctlby' = t
  /\ UNCHANGED <<policy, mThread, queues, loop, calls, status, fault>>

(* std::thread's constructor starts Process before m_thread is engaged. *)
Spawn ==
  /\ InControl("spawn")
  /\ \E w \in Workers :
       /\ worker[w] = "unborn"
       /\ worker' = [worker EXCEPT ![w] = "starting"]
  /\ ctlpc' = "emplace"
  /\ UNCHANGED <<policy, mThread, mExit, queues, wmsg, selfExit, calls, ctlby, status, fault>>

(* m_thread holds the thread just spawned: the one live thread that did    *)
(* not end itself.                                                         *)
Emplace ==
  /\ InControl("emplace")
  /\ \E w \in Workers \ selfExit :
       /\ worker[w] \in {"starting", "idle", "invoking"}
       /\ mThread' = w
  /\ ctlpc' = "started"
  /\ UNCHANGED <<policy, mExit, queues, loop, calls, ctlby, status, fault>>

(* m_threadStartFuture->get() returns once Process has started. *)
CreateReturns ==
  /\ InControl("started")
  /\ worker[mThread] # "starting"
  /\ ctlpc' = "none" /\ ctlby' = NoThread
  /\ UNCHANGED <<policy, mThread, mExit, queues, loop, calls, status, fault>>

(* m_thread is not null: set m_exit, push the exit message past any limit, *)
(* notify the worker and every blocked producer.                           *)
ExitThread(t) ==
  /\ InControl("none") /\ Free(t)
  /\ mThread # NoThread
  /\ mExit' = TRUE
  /\ normalQueue' = Append(normalQueue, ExitMsg)
  /\ dpc' = NotifyAll(dpc)
  /\ ctlpc' = "join" /\ ctlby' = t
  /\ UNCHANGED <<policy, mThread, highQueue, loop, dmsg, status, fault>>

(* Mutant: the thread is never waited for. *)
JoinDetaches ==
  /\ InControl("join")
  /\ \/ ctlby # mThread /\ UNCHANGED selfExit
     \/ ctlby = mThread /\ selfExit' = selfExit \cup {ctlby}
  /\ ctlpc' = "reset"
  /\ UNCHANGED <<policy, mThread, mExit, queues, worker, wmsg, calls, ctlby, status, fault>>

(* join() from another thread; the thread itself is detached instead. *)
Join ==
  /\ InControl("join")
  /\ \/ ctlby # mThread /\ worker[mThread] = "stopped" /\ UNCHANGED selfExit
     \/ ctlby = mThread /\ selfExit' = selfExit \cup {ctlby}
  /\ ctlpc' = "reset"
  /\ UNCHANGED <<policy, mThread, mExit, queues, worker, wmsg, calls, ctlby, status, fault>>

(* The last critical section: m_thread is reset and the queues are cleared. *)
Reset ==
  /\ InControl("reset")
  /\ mThread' = NoThread
  /\ highQueue' = <<>>
  /\ normalQueue' = <<>>
  /\ status' = [m \in Msgs |-> IF status[m] = "queued" THEN "discarded" ELSE status[m]]
  /\ dpc' = NotifyAll(dpc)
  /\ ctlpc' = "none" /\ ctlby' = NoThread
  /\ UNCHANGED <<policy, mExit, loop, dmsg, fault>>

-----------------------------------------------------------------------------
Dispatching(t) ==
  \/ \E m \in Msgs : DispatchDelegate(t, m)
  \/ CheckThread(t) \/ Lock(t) \/ Wake(t) \/ WaitTimeout(t)

Process(w) == Started(w) \/ Take(w) \/ Finish(w) \/ HandlerThrows(w)

Lifecycle ==
  \/ \E t \in Threads : CreateThread(t) \/ ExitThread(t)
  \/ Spawn \/ Emplace \/ CreateReturns \/ Join \/ Reset

(* Nothing is under way: every call has returned and no handler runs. *)
Quiet ==
  /\ \A t \in Threads : dpc[t] = "out"
  /\ \A w \in Workers : worker[w] \in {"unborn", "idle", "stopped"}
  /\ ctlpc = "none"
  /\ Size = 0

(* A program that makes no further call rests here, and so does one that   *)
(* a fault has ended.                                                      *)
Rest == (Aborted \/ Quiet) /\ UNCHANGED vars

Next ==
  \/ \E t \in Threads : Dispatching(t)
  \/ \E w \in Workers : Process(w)
  \/ Lifecycle
  \/ Rest

(* The scheduler runs every thread, handlers return, timeouts expire; no   *)
(* program is obliged to dispatch a message, or to create or end a thread. *)
Fairness ==
  /\ \A t \in Threads : WF_vars(CheckThread(t) \/ Lock(t) \/ Wake(t))
  /\ \A t \in Threads : WF_vars(WaitTimeout(t))
  /\ \A w \in Workers : WF_vars(Process(w))
  /\ WF_vars(Spawn \/ Emplace \/ CreateReturns \/ Join \/ Reset)

Spec == Init /\ [][Next]_vars
FairSpec == Spec /\ Fairness

-----------------------------------------------------------------------------
(* No wake-up is lost on m_cvNotFull: while the queue has room, or the     *)
(* thread is exiting, a producer blocked in DispatchDelegate is either     *)
(* notified already or outnumbered by notified ones that will use the      *)
(* room. One notify_one per message taken is enough, although a producer   *)
(* that never waited may take the room first.                              *)
NoLostWakeup ==
  LET waiting  == {t \in Threads : dpc[t] = "waiting"}
      notified == {t \in Threads : dpc[t] = "notified"}
  IN  /\ waiting # {} => MaxQueueSize <= Size + Cardinality(notified)
      /\ mExit => waiting = {}

(* The queue keeps its limit, which only the exit message may exceed, when  *)
(* room that one producer was notified of is taken by another.             *)
QueueBounded ==
  MaxQueueSize > 0 =>
    Size <= MaxQueueSize + (IF ExitMsg \in {normalQueue[i] : i \in 1..Len(normalQueue)} THEN 1 ELSE 0)

(* The thread join() waits for always finds the exit message, at the very  *)
(* end of what it still has to serve: nothing is accepted after ExitThread *)
(* set m_exit, so the loop never ends early and never ends late.           *)
ExitReachesWorker ==
  /\ \A i \in 1..Len(normalQueue) :
       normalQueue[i] = ExitMsg => i = Len(normalQueue) /\ mExit
  /\ (ctlpc = "join" /\ worker[mThread] # "stopped")
       => normalQueue # <<>> /\ normalQueue[Len(normalQueue)] = ExitMsg

(* Handlers never overlap: two OS threads are inside a handler only when   *)
(* one of them ended its own thread and has been detached.                 *)
HandlersSerial ==
  \A v, w \in Workers :
    (worker[v] = "invoking" /\ worker[w] = "invoking" /\ v # w)
      => v \in selfExit \/ w \in selfExit

(* A thread that is gone leaves nothing behind: no message is accepted     *)
(* into a queue nobody serves, whatever a slow DispatchDelegate saw of     *)
(* m_exit and m_thread before ExitThread ran.                              *)
NothingStranded ==
  (mThread = NoThread /\ ctlpc = "none") => Size = 0

(* ExitThread called from outside serves all that was accepted before it:  *)
(* no message is discarded unless a handler ended its own thread.          *)
DrainedAtExit ==
  (\E m \in Msgs : status[m] = "discarded") => selfExit # {}

(* The queue is kept to its limit and its order of ending: the four above  *)
(* together, which races of producers for room and with ExitThread try.    *)
QueueIsKept == QueueBounded /\ NoLostWakeup /\ ExitReachesWorker /\ DrainedAtExit

(* Seen from its users, the thread is a mailbox. The exit message, which   *)
(* is the last one if it has been posted, is none of theirs.               *)
MailboxNormal ==
  LET last == Len(normalQueue)
  IN  IF last > 0 /\ normalQueue[last] = ExitMsg THEN SubSeq(normalQueue, 1, last - 1)
      ELSE normalQueue
MailboxPhase ==
  IF ~mExit THEN "open"
  ELSE IF mThread = NoThread THEN "closed"
  ELSE IF ctlpc = "reset" /\ ctlby = mThread THEN "abandoning"
  ELSE "closing"
MailboxFate == [m \in Msgs |->
  CASE status[m] = "calling" -> "new"
    [] status[m] \in {"refused", "dropped", "threw"} -> "refused"
    [] status[m] = "invoking" /\ (\E w \in selfExit : wmsg[w] = m) -> "detached"
    [] OTHER -> status[m]]
MB == INSTANCE Mailbox WITH
  phase <- MailboxPhase, high <- highQueue,
  normal <- MailboxNormal, fate <- MailboxFate
ImplementsMailbox == MB!Spec

(* Every call of DispatchDelegate returns, even one that a handler makes   *)
(* to its own full queue, which only the timeout can end.                  *)
DispatchReturns == \A t \in Threads : dpc[t] # "out" ~> (dpc[t] = "out" \/ Aborted)

(* Every accepted message is served, unless a handler ends its own thread. *)
AcceptedIsServed ==
  \A m \in Msgs :
    status[m] = "queued" ~> (status[m] = "done" \/ selfExit # {} \/ Aborted)

(* CreateThread and ExitThread return: join() never waits for ever, even   *)
(* while producers are blocked on a full queue.                            *)
LifecycleReturns == ctlpc # "none" ~> (ctlpc = "none" \/ Aborted)

(* Nobody waits for ever: neither producers, nor messages, nor who creates *)
(* and ends the thread.                                                    *)
NobodyWaitsForEver == DispatchReturns /\ AcceptedIsServed /\ LifecycleReturns
=============================================================================
