---------------------------- MODULE ThreadProofs ----------------------------
(***************************************************************************)
(* Theorems about Thread, for every number of threads and messages, every  *)
(* queue limit and every policy: its invariants first, then that it        *)
(* implements a Mailbox.                                                   *)
(***************************************************************************)
EXTENDS Thread, FiniteSetTheorems, SequenceTheorems, TLAPS

(* An OS thread that still runs the loop for its object: it has not left   *)
(* Process() and has not been detached by a handler.                       *)
Live(w) == worker[w] \in {"starting", "idle", "invoking"} /\ w \notin selfExit

(* The inductive invariant: what the create and exit calls know of the     *)
(* live thread and of m_exit at each of their steps.                       *)
SingleLive == \A v, w \in Workers : Live(v) /\ Live(w) => v = w
LiveIsHeld == \A w \in Workers : Live(w) => mThread = w \/ ctlpc = "emplace"
Lifetime ==
  /\ ctlpc \in {"spawn", "emplace"} => mThread = NoThread
  /\ ctlpc \in {"started", "join", "reset"} => mThread # NoThread
  /\ ctlpc \in {"join", "reset"} => mExit
  /\ ctlpc = "reset" => ~Live(mThread)
Dispatches == \A t \in Threads : dpc[t] # "out" => dmsg[t] \in Msgs
Stranding ==
  (mThread = NoThread /\ ctlpc = "none") =>
    /\ highQueue = <<>> /\ normalQueue = <<>>
    /\ mExit \/ \A t \in Threads : dpc[t] \in {"out", "hasThread"}

Inv == SingleLive /\ LiveIsHeld /\ Lifetime
IInv == TypeOK /\ Inv /\ Dispatches /\ Stranding

(* Where a thread is says in every proof where it was: the guards are      *)
(* expanded throughout.                                                    *)
USE DEF InCall, InLoop, InControl

-----------------------------------------------------------------------------
(* A step that touches neither the OS threads nor the create and exit      *)
(* calls keeps what is known of them.                                      *)
LEMMA LifeFrame ==
  ASSUME Inv, UNCHANGED <<policy, mThread, mExit, worker, selfExit, ctlpc>>
  PROVE  Inv'
BY DEF Inv, SingleLive, LiveIsHeld, Lifetime, Live

(* The initial state satisfies the invariant. *)
LEMMA InitIInv == Init => IInv
<1> SUFFICES ASSUME Init PROVE IInv
  OBVIOUS
<1>1. TypeOK
  <2>1. highQueue \in Seq(Msgs) /\ normalQueue \in Seq(Msgs \cup {ExitMsg})
    BY DEF Init
  <2> QED
    BY <2>1 DEF Init, TypeOK, WorkerStates, CallStates, CtlStates, Fates
<1>2. Inv
  BY DEF Init, Inv, SingleLive, LiveIsHeld, Lifetime, Live
<1>3. Dispatches /\ Stranding
  BY DEF Init, Dispatches, Stranding
<1> QED
  BY <1>1, <1>2, <1>3 DEF IInv

(* With the lock held and room in the queue, a dispatch is refused or      *)
(* queued, and never queued where nobody serves.                           *)
LEMMA EnqueueIInv ==
  ASSUME IInv, NEW t \in Threads, dpc[t] \in {"lock", "waiting", "notified"},
         Enqueue(t), UNCHANGED <<policy, mThread, mExit, loop, ctl, fault>>
  PROVE  IInv'
<1>1. dmsg[t] \in Msgs
  BY DEF IInv, Dispatches
<1>2. TypeOK'
  <2>1. highQueue' \in Seq(Msgs) /\ normalQueue' \in Seq(Msgs \cup {ExitMsg})
    <3>1. /\ highQueue \in Seq(Msgs) /\ normalQueue \in Seq(Msgs \cup {ExitMsg})
          /\ dmsg[t] \in Msgs \cup {ExitMsg}
      BY <1>1 DEF IInv, TypeOK
    <3>2. /\ Append(highQueue, dmsg[t]) \in Seq(Msgs)
          /\ Append(normalQueue, dmsg[t]) \in Seq(Msgs \cup {ExitMsg})
      BY <1>1, <3>1
    <3> QED
      BY <3>1, <3>2 DEF Enqueue, Push, queues
  <2>2. /\ dpc' \in [Threads -> CallStates]
        /\ dmsg' \in [Threads -> Msgs \cup {NoMsg}]
        /\ status' \in [Msgs -> Fates]
    BY DEF IInv, TypeOK, Enqueue, Push, Return, CallStates, Fates
  <2> QED
    BY <2>1, <2>2 DEF IInv, TypeOK, loop, ctl
<1>3. Inv'
  BY LifeFrame DEF IInv, loop, ctl
<1>4. Dispatches'
  BY DEF IInv, TypeOK, Dispatches, Enqueue, Push, Return
<1>5. Stranding'
  BY DEF IInv, TypeOK, Stranding, Enqueue, Push, Return, queues, ctl
<1> QED
  BY <1>2, <1>3, <1>4, <1>5 DEF IInv

(* A refused dispatch that leaves the queues alone keeps the invariant. *)
LEMMA ReturnIInv ==
  ASSUME IInv, NEW t \in Threads, NEW fate \in {"refused", "dropped", "threw"},
         Return(t, fate), UNCHANGED <<policy, mThread, mExit, queues, loop, ctl, fault>>
  PROVE  IInv'
<1>1. TypeOK'
  BY DEF IInv, TypeOK, Return, queues, loop, ctl, CallStates, Fates
<1>2. Inv'
  BY LifeFrame DEF IInv, loop, ctl
<1>3. Dispatches' /\ Stranding'
  BY DEF IInv, TypeOK, Dispatches, Stranding, Return, queues, ctl
<1> QED
  BY <1>1, <1>2, <1>3 DEF IInv

LEMMA DispatchDelegateIInv ==
  ASSUME IInv, NEW t \in Threads, NEW m \in Msgs, DispatchDelegate(t, m)
  PROVE  IInv'
<1>1. TypeOK'
  BY DEF IInv, TypeOK, DispatchDelegate, calls, queues, loop, ctl, CallStates, Fates
<1>2. Inv'
  BY LifeFrame DEF IInv, DispatchDelegate, loop, ctl
<1>3. Dispatches' /\ Stranding'
  BY DEF IInv, TypeOK, Dispatches, Stranding, DispatchDelegate, calls, queues, ctl
<1> QED
  BY <1>1, <1>2, <1>3 DEF IInv

LEMMA CheckThreadIInv ==
  ASSUME IInv, NEW t \in Threads, CheckThread(t)
  PROVE  IInv'
<1>1. CASE mThread = NoThread /\ Return(t, "threw")
  BY <1>1, ReturnIInv DEF CheckThread
<1>2. CASE /\ mThread # NoThread
           /\ dpc' = [dpc EXCEPT ![t] = "lock"]
           /\ UNCHANGED <<dmsg, status>>
  <2>1. TypeOK'
    BY <1>2 DEF IInv, TypeOK, CheckThread, queues, loop, ctl, CallStates
  <2>2. Inv'
    BY LifeFrame DEF IInv, CheckThread, loop, ctl
  <2>3. Dispatches' /\ Stranding'
    BY <1>2 DEF IInv, TypeOK, Dispatches, Stranding, CheckThread, ctl
  <2> QED
    BY <2>1, <2>2, <2>3 DEF IInv
<1> QED
  BY <1>1, <1>2 DEF CheckThread

(* A producer that starts to wait, or waits on. *)
LEMMA WaitIInv ==
  ASSUME IInv, NEW t \in Threads, dpc[t] \in {"lock", "notified"}, ~MayProceed,
         dpc' = [dpc EXCEPT ![t] = "waiting"],
         UNCHANGED <<dmsg, status, queues, policy, mThread, mExit, loop, ctl, fault>>
  PROVE  IInv'
<1>1. TypeOK'
  BY DEF IInv, TypeOK, queues, loop, ctl, CallStates
<1>2. Inv'
  BY LifeFrame DEF IInv, loop, ctl
<1>3. Dispatches' /\ Stranding'
  BY DEF IInv, TypeOK, Dispatches, Stranding, MayProceed, queues, ctl
<1> QED
  BY <1>1, <1>2, <1>3 DEF IInv

LEMMA LockIInv ==
  ASSUME IInv, NEW t \in Threads, Lock(t)
  PROVE  IInv'
<1>1. CASE Enqueue(t) /\ UNCHANGED fault
  BY <1>1, EnqueueIInv DEF Lock
<1>2. CASE Return(t, "dropped") /\ UNCHANGED <<queues, fault>>
  BY <1>2, ReturnIInv DEF Lock
<1>3. CASE fault' = "full" /\ UNCHANGED <<calls, status, queues>>
  <2>1. TypeOK'
    BY <1>3 DEF IInv, TypeOK, Lock, calls, queues, loop, ctl
  <2>2. Inv'
    BY LifeFrame DEF IInv, Lock, loop, ctl
  <2>3. Dispatches' /\ Stranding'
    BY <1>3 DEF IInv, Dispatches, Stranding, Lock, calls, queues, ctl
  <2> QED
    BY <2>1, <2>2, <2>3 DEF IInv
<1>4. CASE /\ ~MayProceed
           /\ dpc' = [dpc EXCEPT ![t] = "waiting"]
           /\ UNCHANGED <<dmsg, status, queues, fault>>
  BY <1>4, WaitIInv DEF Lock
<1> QED
  BY <1>1, <1>2, <1>3, <1>4 DEF Lock

LEMMA WakeIInv ==
  ASSUME IInv, NEW t \in Threads, Wake(t)
  PROVE  IInv'
<1>1. CASE MayProceed /\ Enqueue(t)
  BY <1>1, EnqueueIInv DEF Wake
<1>2. CASE /\ ~MayProceed
           /\ dpc' = [dpc EXCEPT ![t] = "waiting"]
           /\ UNCHANGED <<dmsg, status, queues>>
  BY <1>2, WaitIInv DEF Wake
<1> QED
  BY <1>1, <1>2 DEF Wake

LEMMA WaitTimeoutIInv ==
  ASSUME IInv, NEW t \in Threads, WaitTimeout(t)
  PROVE  IInv'
<1>1. CASE MayProceed /\ Enqueue(t)
  BY <1>1, EnqueueIInv DEF WaitTimeout
<1>2. CASE Return(t, "dropped") /\ UNCHANGED queues
  BY <1>2, ReturnIInv DEF WaitTimeout
<1> QED
  BY <1>1, <1>2 DEF WaitTimeout

LEMMA StartedIInv ==
  ASSUME IInv, NEW w \in Workers, Started(w)
  PROVE  IInv'
<1>1. TypeOK'
  BY DEF IInv, TypeOK, Started, queues, calls, ctl, WorkerStates
<1>2. Inv'
  BY DEF IInv, TypeOK, Started, ctl, Inv, SingleLive, LiveIsHeld, Lifetime, Live
<1>3. Dispatches' /\ Stranding'
  BY DEF IInv, Dispatches, Stranding, Started, queues, calls, ctl
<1> QED
  BY <1>1, <1>2, <1>3 DEF IInv

(* A producer that is woken stays where the invariant allows it.           *)
LEMMA NotifyOneType ==
  ASSUME dpc \in [Threads -> CallStates], NotifyOne(dpc, dpc')
  PROVE  /\ dpc' \in [Threads -> CallStates]
         /\ \A t \in Threads : dpc'[t] \in {"out", "hasThread"} <=> dpc[t] \in {"out", "hasThread"}
         /\ \A t \in Threads : dpc'[t] = "out" <=> dpc[t] = "out"
<1>1. CASE \E t \in Threads : dpc[t] = "waiting"
  <2> PICK t \in Threads : dpc[t] = "waiting" /\ dpc' = [dpc EXCEPT ![t] = "notified"]
    BY <1>1 DEF NotifyOne
  <2> QED
    BY DEF CallStates
<1>2. CASE ~\E t \in Threads : dpc[t] = "waiting"
  BY <1>2 DEF NotifyOne
<1> QED
  BY <1>1, <1>2

LEMMA NotifyAllType ==
  ASSUME dpc \in [Threads -> CallStates], dpc' = NotifyAll(dpc)
  PROVE  /\ dpc' \in [Threads -> CallStates]
         /\ \A t \in Threads : dpc'[t] \in {"out", "hasThread"} <=> dpc[t] \in {"out", "hasThread"}
         /\ \A t \in Threads : dpc'[t] = "out" <=> dpc[t] = "out"
BY DEF NotifyAll, CallStates

(* The message taken is in one of the queues, which stay queues.           *)
LEMMA PopType ==
  ASSUME TypeOK, NEW m \in Msgs \cup {ExitMsg}, Pop(m)
  PROVE  /\ highQueue' \in Seq(Msgs) /\ normalQueue' \in Seq(Msgs \cup {ExitMsg})
         /\ ~(highQueue = <<>> /\ normalQueue = <<>>)
<1>1. highQueue \in Seq(Msgs) /\ normalQueue \in Seq(Msgs \cup {ExitMsg})
  BY DEF TypeOK
<1>2. CASE highQueue # <<>> /\ highQueue' = Tail(highQueue) /\ UNCHANGED normalQueue
  <2>1. Tail(highQueue) \in Seq(Msgs)
    BY <1>1, <1>2
  <2> QED
    BY <1>1, <1>2, <2>1
<1>3. CASE normalQueue # <<>> /\ normalQueue' = Tail(normalQueue) /\ UNCHANGED highQueue
  <2>1. Tail(normalQueue) \in Seq(Msgs \cup {ExitMsg})
    BY <1>1, <1>3
  <2> QED
    BY <1>1, <1>3, <2>1
<1> QED
  BY <1>2, <1>3 DEF Pop

LEMMA TakeIInv ==
  ASSUME IInv, NEW w \in Workers, Take(w)
  PROVE  IInv'
<1>1. PICK m \in Msgs \cup {ExitMsg} :
        /\ Pop(m)
        /\ \/ /\ m = ExitMsg
              /\ worker' = [worker EXCEPT ![w] = "stopped"]
              /\ UNCHANGED <<wmsg, status>>
           \/ /\ m # ExitMsg
              /\ worker' = [worker EXCEPT ![w] = "invoking"]
              /\ wmsg' = [wmsg EXCEPT ![w] = m]
              /\ status' = [status EXCEPT ![m] = "invoking"]
  BY DEF Take
<1>2. /\ highQueue' \in Seq(Msgs) /\ normalQueue' \in Seq(Msgs \cup {ExitMsg})
      /\ ~(highQueue = <<>> /\ normalQueue = <<>>)
  BY <1>1, PopType DEF IInv
<1>3. /\ dpc' \in [Threads -> CallStates]
      /\ \A t \in Threads : dpc'[t] = "out" <=> dpc[t] = "out"
  <2>1. dpc \in [Threads -> CallStates]
    BY DEF IInv, TypeOK
  <2>2. CASE MaxQueueSize > 0
    <3> NotifyOne(dpc, dpc')
      BY <2>2 DEF Take
    <3> QED
      BY <2>1, NotifyOneType
  <2>3. CASE ~(MaxQueueSize > 0)
    BY <2>1, <2>3 DEF Take
  <2> QED
    BY <2>2, <2>3
<1>4. TypeOK'
  <2>1. /\ worker' \in [Workers -> WorkerStates]
        /\ wmsg' \in [Workers -> Msgs \cup {NoMsg}]
        /\ status' \in [Msgs -> Fates]
    BY <1>1 DEF IInv, TypeOK, WorkerStates, Fates
  <2> QED
    BY <1>2, <1>3, <2>1 DEF IInv, TypeOK, Take, ctl
<1>5. Inv'
  <2>1. \A v \in Workers : Live(v)' => Live(v)
    BY <1>1 DEF Take, IInv, TypeOK, Live
  <2>2. mThread \in Workers => (Live(mThread)' => Live(mThread))
    BY <2>1 DEF Take
  <2> QED
    BY <2>1, <2>2 DEF IInv, TypeOK, Take, ctl, Inv, SingleLive, LiveIsHeld, Lifetime
<1>6. Dispatches'
  BY <1>3 DEF IInv, Dispatches, Take
<1>7. Stranding'
  BY <1>2 DEF IInv, Stranding, Take, ctl
<1> QED
  BY <1>4, <1>5, <1>6, <1>7 DEF IInv

LEMMA FinishIInv ==
  ASSUME IInv, NEW w \in Workers, Finish(w)
  PROVE  IInv'
<1>1. TypeOK'
  BY DEF IInv, TypeOK, Finish, queues, calls, ctl, WorkerStates, Fates
<1>2. Inv'
  BY DEF IInv, TypeOK, Finish, ctl, Inv, SingleLive, LiveIsHeld, Lifetime, Live
<1>3. Dispatches' /\ Stranding'
  BY DEF IInv, Dispatches, Stranding, Finish, queues, calls, ctl
<1> QED
  BY <1>1, <1>2, <1>3 DEF IInv

LEMMA HandlerThrowsIInv ==
  ASSUME IInv, NEW w \in Workers, HandlerThrows(w)
  PROVE  IInv'
<1>1. TypeOK'
  BY DEF IInv, TypeOK, HandlerThrows, queues, loop, calls, ctl
<1>2. Inv'
  BY LifeFrame DEF IInv, HandlerThrows, loop, ctl
<1>3. Dispatches' /\ Stranding'
  BY DEF IInv, Dispatches, Stranding, HandlerThrows, queues, calls, ctl
<1> QED
  BY <1>1, <1>2, <1>3 DEF IInv

(* No OS thread is live when m_thread is null: m_exit can be cleared.      *)
LEMMA CreateThreadIInv ==
  ASSUME IInv, NEW t \in Threads, CreateThread(t)
  PROVE  IInv'
<1>1. TypeOK'
  BY DEF IInv, TypeOK, CreateThread, queues, loop, calls, CtlStates
<1>2. Inv'
  BY DEF IInv, TypeOK, CreateThread, loop, Inv, SingleLive, LiveIsHeld, Lifetime, Live
<1>3. Dispatches' /\ Stranding'
  BY DEF IInv, Dispatches, Stranding, CreateThread, calls
<1> QED
  BY <1>1, <1>2, <1>3 DEF IInv

LEMMA SpawnIInv ==
  ASSUME IInv, Spawn
  PROVE  IInv'
<1> PICK w \in Workers : worker[w] = "unborn" /\ worker' = [worker EXCEPT ![w] = "starting"]
  BY DEF Spawn
<1>1. TypeOK'
  BY DEF IInv, TypeOK, Spawn, queues, calls, CtlStates, WorkerStates
<1>2. Inv'
  <2>1. \A v \in Workers : ~Live(v)
    BY ThreadAssumption DEF IInv, Spawn, Inv, LiveIsHeld, Lifetime, Threads
  <2>2. \A v \in Workers : Live(v)' => v = w
    BY <2>1 DEF IInv, TypeOK, Spawn, Live
  <2> QED
    BY <2>2 DEF IInv, Spawn, Inv, SingleLive, LiveIsHeld, Lifetime
<1>3. Dispatches' /\ Stranding'
  BY DEF IInv, Dispatches, Stranding, Spawn, calls
<1> QED
  BY <1>1, <1>2, <1>3 DEF IInv

(* m_thread holds the one live thread.                                     *)
LEMMA EmplaceIInv ==
  ASSUME IInv, Emplace
  PROVE  IInv'
<1> PICK w \in Workers : Live(w) /\ mThread' = w
  BY DEF Emplace, Live
<1>1. TypeOK'
  BY DEF IInv, TypeOK, Emplace, queues, loop, calls, CtlStates
<1>2. Inv'
  <2>1. \A v \in Workers : Live(v)' => v = w
    BY DEF IInv, Emplace, loop, Inv, SingleLive, Live
  <2>2. w # NoThread
    BY ThreadAssumption DEF Threads
  <2> QED
    BY <2>1, <2>2 DEF IInv, Emplace, loop, Inv, SingleLive, LiveIsHeld, Lifetime
<1>3. Dispatches' /\ Stranding'
  BY DEF IInv, Dispatches, Stranding, Emplace, calls
<1> QED
  BY <1>1, <1>2, <1>3 DEF IInv

LEMMA CreateReturnsIInv ==
  ASSUME IInv, CreateReturns
  PROVE  IInv'
<1>1. TypeOK'
  BY DEF IInv, TypeOK, CreateReturns, queues, loop, calls, CtlStates
<1>2. Inv'
  BY DEF IInv, CreateReturns, loop, Inv, SingleLive, LiveIsHeld, Lifetime, Live
<1>3. Dispatches' /\ Stranding'
  BY DEF IInv, Inv, Lifetime, Dispatches, Stranding, CreateReturns, calls
<1> QED
  BY <1>1, <1>2, <1>3 DEF IInv

LEMMA ExitThreadIInv ==
  ASSUME IInv, NEW t \in Threads, ExitThread(t)
  PROVE  IInv'
<1>1. /\ dpc' \in [Threads -> CallStates]
      /\ \A s \in Threads : dpc'[s] = "out" <=> dpc[s] = "out"
  BY NotifyAllType DEF IInv, TypeOK, ExitThread
<1>2. normalQueue' \in Seq(Msgs \cup {ExitMsg})
  BY DEF IInv, TypeOK, ExitThread
<1>3. TypeOK'
  BY <1>1, <1>2 DEF IInv, TypeOK, ExitThread, loop, CtlStates
<1>4. Inv'
  BY DEF IInv, ExitThread, loop, Inv, SingleLive, LiveIsHeld, Lifetime, Live
<1>5. Dispatches' /\ Stranding'
  BY <1>1 DEF IInv, Dispatches, Stranding, ExitThread
<1> QED
  BY <1>3, <1>4, <1>5 DEF IInv

(* The thread that m_thread holds has stopped or has been detached.        *)
LEMMA JoinIInv ==
  ASSUME IInv, Join
  PROVE  IInv'
<1>1. mThread \in Workers
  BY DEF IInv, TypeOK, Inv, Lifetime, Join
<1>2. TypeOK'
  BY <1>1 DEF IInv, TypeOK, Join, queues, calls, CtlStates
<1>3. Inv'
  <2>1. \A v \in Workers : Live(v)' => Live(v)
    BY DEF Join, Live
  <2>2. ~Live(mThread)'
    BY DEF Join, Live
  <2> QED
    BY <2>1, <2>2 DEF IInv, Join, Inv, SingleLive, LiveIsHeld, Lifetime
<1>4. Dispatches' /\ Stranding'
  BY DEF IInv, Dispatches, Stranding, Join, calls
<1> QED
  BY <1>2, <1>3, <1>4 DEF IInv

(* Nobody can use the emptied queues before m_exit is cleared again.       *)
LEMMA ResetIInv ==
  ASSUME IInv, Reset
  PROVE  IInv'
<1>1. /\ dpc' \in [Threads -> CallStates]
      /\ \A s \in Threads : dpc'[s] = "out" <=> dpc[s] = "out"
  BY NotifyAllType DEF IInv, TypeOK, Reset
<1>2. highQueue' \in Seq(Msgs) /\ normalQueue' \in Seq(Msgs \cup {ExitMsg})
  BY DEF Reset
<1>3. TypeOK'
  <2>1. status' \in [Msgs -> Fates]
    BY DEF IInv, TypeOK, Reset, Fates
  <2> QED
    BY <1>1, <1>2, <2>1 DEF IInv, TypeOK, Reset, loop, CtlStates
<1>4. Inv'
  <2>1. \A v \in Workers : ~Live(v)
    BY DEF IInv, Reset, Inv, LiveIsHeld, Lifetime
  <2>2. \A v \in Workers : ~Live(v)'
    BY <2>1 DEF Reset, loop, Live
  <2> QED
    BY <2>2 DEF Reset, Inv, SingleLive, LiveIsHeld, Lifetime
<1>5. Dispatches' /\ Stranding'
  BY <1>1 DEF IInv, Inv, Lifetime, Dispatches, Stranding, Reset
<1> QED
  BY <1>3, <1>4, <1>5 DEF IInv

-----------------------------------------------------------------------------
(* Every step keeps the invariant.                                         *)
LEMMA NextIInv == IInv /\ [Next]_vars => IInv'
<1> SUFFICES ASSUME IInv, [Next]_vars PROVE IInv'
  OBVIOUS
<1>1. CASE \E t \in Threads : Dispatching(t)
  BY <1>1, DispatchDelegateIInv, CheckThreadIInv, LockIInv, WakeIInv, WaitTimeoutIInv
     DEF Dispatching
<1>2. CASE \E w \in Workers : Process(w)
  BY <1>2, StartedIInv, TakeIInv, FinishIInv, HandlerThrowsIInv DEF Process
<1>3. CASE Lifecycle
  BY <1>3, CreateThreadIInv, SpawnIInv, EmplaceIInv, CreateReturnsIInv,
     ExitThreadIInv, JoinIInv, ResetIInv DEF Lifecycle
<1>4. CASE UNCHANGED vars
  <2>1. TypeOK'
    BY <1>4 DEF IInv, TypeOK, vars, queues, loop, calls, ctl
  <2>2. Inv'
    BY <1>4, LifeFrame DEF IInv, vars, loop, ctl
  <2>3. Dispatches' /\ Stranding'
    BY <1>4 DEF IInv, Dispatches, Stranding, vars, queues, calls, ctl
  <2> QED
    BY <2>1, <2>2, <2>3 DEF IInv
<1> QED
  BY <1>1, <1>2, <1>3, <1>4 DEF Next, Rest

LEMMA AlwaysIInv == Spec => []IInv
BY InitIInv, NextIInv, PTL DEF Spec

(* The variables of the thread keep their types.                           *)
THEOREM TypeCorrect == Spec => []TypeOK
<1>1. IInv => TypeOK
  BY DEF IInv
<1> QED
  BY <1>1, AlwaysIInv, PTL

(* Handlers of one thread object never overlap, through any number of      *)
(* exits and restarts, unless a handler has ended its own thread.          *)
THEOREM HandlersAreSerial == Spec => []HandlersSerial
<1>1. IInv => HandlersSerial
  BY DEF IInv, Inv, SingleLive, Live, HandlersSerial
<1> QED
  BY <1>1, AlwaysIInv, PTL

(* A thread object without an OS thread holds no message, however slow the *)
(* dispatches that saw m_exit and m_thread before ExitThread ran.          *)
THEOREM NothingIsStranded == Spec => []NothingStranded
<1>1. IInv => NothingStranded
  BY DEF IInv, Stranding, NothingStranded, Size
<1> QED
  BY <1>1, AlwaysIInv, PTL

-----------------------------------------------------------------------------
(* How the queue is kept: its limit, the wake-ups of blocked producers, and *)
(* the exit message.                                                        *)

(* What the lifecycle calls and the OS threads know of each other: m_exit  *)
(* is set only from ExitThread on, who ended its own thread is still in    *)
(* its handler or gone, and so is a handler that creates or ends a thread. *)
(* The thread held is one that has been detached only between the two last *)
(* steps of ExitThread.                                                    *)
Accepting ==
  /\ ctlpc \in {"spawn", "emplace", "started"} => ~mExit
  /\ ctlpc = "none" /\ mThread # NoThread => ~mExit
SelfExited == \A w \in selfExit : worker[w] \in {"invoking", "stopped"}
Busy == ctlpc # "none" /\ ctlby \in Workers => worker[ctlby] = "invoking"
Joined ==
  /\ ctlpc = "reset" /\ ctlby # mThread => worker[mThread] = "stopped"
  /\ mThread \in selfExit <=> ctlpc = "reset" /\ ctlby = mThread

Ending == Accepting /\ SelfExited /\ Busy /\ Joined

(* Where the exit message is, and what is left when it has been taken.     *)
Holds(q, m) == \E i \in 1..Len(q) : q[i] = m
Filed == \A m \in Msgs : status[m] = "queued" => Holds(highQueue, m) \/ Holds(normalQueue, m)
Drained ==
  mThread # NoThread /\ worker[mThread] = "stopped" /\ mThread \notin selfExit =>
    mExit /\ highQueue = <<>> /\ normalQueue = <<>>

QInv == IInv /\ Ending /\ ExitReachesWorker /\ Filed /\ Drained

-----------------------------------------------------------------------------
LEMMA InitQInv == Init => QInv
<1> SUFFICES ASSUME Init PROVE QInv
  OBVIOUS
<1>1. IInv
  BY InitIInv
<1>2. Ending /\ Drained /\ Filed
  BY ThreadAssumption DEF Init, Ending, Accepting, SelfExited, Busy, Joined, Drained, Filed, Threads
<1>3. ExitReachesWorker
  BY DEF Init, ExitReachesWorker
<1> QED
  BY <1>1, <1>2, <1>3 DEF QInv

-----------------------------------------------------------------------------
(* Ending is kept by every step that leaves the lifecycle alone.           *)
LEMMA EndingFrame ==
  ASSUME Ending, UNCHANGED <<mThread, mExit, worker, selfExit, ctlpc, ctlby>>
  PROVE  Ending'
BY DEF Ending, Accepting, SelfExited, Busy, Joined

(* A step of the loop of w: nobody who has ended itself takes it, except   *)
(* to leave its handler for good.                                          *)
LEMMA EndingProcess ==
  ASSUME QInv, NEW w \in Workers, Process(w)
  PROVE  Ending'
<1>1. CASE Started(w)
  BY <1>1 DEF QInv, IInv, TypeOK, Ending, Accepting, SelfExited, Busy, Joined, Started, ctl
<1>2. CASE Take(w)
  <2>1. PICK s \in {"stopped", "invoking"} : worker' = [worker EXCEPT ![w] = s]
    BY <1>2 DEF Take
  <2>2. worker[w] = "idle" /\ UNCHANGED <<mThread, mExit, selfExit, ctlpc, ctlby>>
    BY <1>2 DEF Take, ctl
  <2> QED
    BY <2>1, <2>2 DEF QInv, IInv, TypeOK, Ending, Accepting, SelfExited, Busy, Joined
<1>3. CASE Finish(w)
  BY <1>3 DEF QInv, IInv, TypeOK, Ending, Accepting, SelfExited, Busy, Joined, Finish, Free, ctl
<1>4. CASE HandlerThrows(w)
  BY <1>4, EndingFrame DEF QInv, HandlerThrows, loop, ctl
<1> QED
  BY <1>1, <1>2, <1>3, <1>4 DEF Process

(* The steps of CreateThread and ExitThread.                               *)
LEMMA EndingLifecycle ==
  ASSUME QInv, Lifecycle
  PROVE  Ending'
<1>0. /\ worker \in [Workers -> WorkerStates] /\ selfExit \in SUBSET Workers
      /\ mThread \in Workers \cup {NoThread} /\ NoThread \notin Workers /\ Lifetime /\ Ending
  BY ThreadAssumption DEF QInv, IInv, Inv, TypeOK, Threads
<1>1. CASE \E t \in Threads : CreateThread(t)
  BY <1>0, <1>1 DEF Ending, Accepting, SelfExited, Busy, Joined, CreateThread, Free, loop
<1>2. CASE \E t \in Threads : ExitThread(t)
  BY <1>0, <1>2 DEF Ending, Accepting, SelfExited, Busy, Joined, ExitThread, Free, loop
<1>3. CASE Spawn
  BY <1>0, <1>3 DEF Ending, Accepting, SelfExited, Busy, Joined, Spawn
<1>4. CASE Emplace
  BY <1>0, <1>4 DEF Ending, Accepting, SelfExited, Busy, Joined, Emplace, loop
<1>5. CASE CreateReturns
  BY <1>0, <1>5 DEF Ending, Accepting, SelfExited, Busy, Joined, CreateReturns, loop
<1>6. CASE Join
  BY <1>0, <1>6 DEF Ending, Accepting, SelfExited, Busy, Joined, Lifetime, Join
<1>7. CASE Reset
  BY <1>0, <1>7 DEF Ending, Accepting, SelfExited, Busy, Joined, Reset, loop
<1> QED
  BY <1>1, <1>2, <1>3, <1>4, <1>5, <1>6, <1>7 DEF Lifecycle

LEMMA EndingKept == QInv /\ [Next]_vars => Ending'
<1> SUFFICES ASSUME QInv, [Next]_vars PROVE Ending'
  OBVIOUS
<1>1. CASE \E t \in Threads : Dispatching(t)
  <2>1. UNCHANGED <<mThread, mExit, worker, selfExit, ctlpc, ctlby>>
    BY <1>1 DEF Dispatching, DispatchDelegate, CheckThread, Lock, Wake, WaitTimeout, loop, ctl
  <2> QED
    BY <2>1, EndingFrame DEF QInv
<1>2. CASE UNCHANGED vars
  BY <1>2, EndingFrame DEF QInv, vars, loop, ctl
<1> QED
  BY <1>1, <1>2, EndingProcess, EndingLifecycle DEF Next, Rest

-----------------------------------------------------------------------------
(* Sequences: what is in a queue after an append and after a removal.      *)
LEMMA HoldsAppend ==
  ASSUME NEW S, NEW q \in Seq(S), NEW m \in S, NEW n
  PROVE  Holds(Append(q, m), n) <=> Holds(q, n) \/ n = m
<1>1. Len(Append(q, m)) = Len(q) + 1 /\ Len(q) \in Nat
  OBVIOUS
<1>2. \A i \in 1..Len(q) : Append(q, m)[i] = q[i]
  OBVIOUS
<1>3. Append(q, m)[Len(q) + 1] = m
  OBVIOUS
<1> QED
  BY <1>1, <1>2, <1>3 DEF Holds

LEMMA HoldsTail ==
  ASSUME NEW S, NEW q \in Seq(S), q # <<>>, NEW n
  PROVE  Holds(q, n) <=> Holds(Tail(q), n) \/ n = Head(q)
<1>1. Len(Tail(q)) = Len(q) - 1 /\ Len(q) \in Nat \ {0} /\ q[1] = Head(q)
  OBVIOUS
<1>2. \A i \in 1..Len(q) - 1 : Tail(q)[i] = q[i + 1]
  OBVIOUS
<1>3. ASSUME Holds(q, n), n # Head(q) PROVE Holds(Tail(q), n)
  <2>1. PICK i \in 1..Len(q) : q[i] = n
    BY <1>3 DEF Holds
  <2>2. i - 1 \in 1..Len(q) - 1 /\ i = (i - 1) + 1
    BY <1>1, <1>3, <2>1
  <2> QED
    BY <1>1, <1>2, <2>1, <2>2 DEF Holds
<1>4. ASSUME Holds(Tail(q), n) PROVE Holds(q, n)
  <2>1. PICK i \in 1..Len(q) - 1 : Tail(q)[i] = n
    BY <1>1, <1>4 DEF Holds
  <2>2. i + 1 \in 1..Len(q)
    BY <1>1, <2>1
  <2> QED
    BY <1>2, <2>1, <2>2 DEF Holds
<1>5. n = Head(q) => Holds(q, n)
  BY <1>1 DEF Holds
<1> QED
  BY <1>3, <1>4, <1>5

-----------------------------------------------------------------------------
(* The order of the queue: a step that leaves it, the threads and the      *)
(* lifecycle alone, and queues no message, keeps it.                       *)
Order == ExitReachesWorker /\ Filed /\ Drained

LEMMA OrderFrame ==
  ASSUME Order, UNCHANGED <<queues, mThread, mExit, worker, selfExit, ctlpc>>,
         \A m \in Msgs : status'[m] = "queued" => status[m] = "queued"
  PROVE  Order'
<1>1. ExitReachesWorker' /\ Drained'
  BY DEF Order, ExitReachesWorker, Drained, queues
<1>2. Filed'
  BY DEF Order, Filed, Holds, queues
<1> QED
  BY <1>1, <1>2 DEF Order

(* Nothing is pushed behind the exit message.                              *)
LEMMA OrderEnqueue ==
  ASSUME QInv, NEW t \in Threads, dpc[t] # "out", Enqueue(t),
         UNCHANGED <<mThread, mExit, worker, selfExit, ctlpc>>
  PROVE  Order'
<1>1. /\ dmsg[t] \in Msgs /\ dmsg[t] # ExitMsg /\ status \in [Msgs -> Fates]
      /\ highQueue \in Seq(Msgs) /\ normalQueue \in Seq(Msgs \cup {ExitMsg})
  BY ThreadAssumption DEF QInv, IInv, TypeOK, Dispatches
<1>2. CASE Return(t, "refused") /\ UNCHANGED queues
  <2>1. \A m \in Msgs : status'[m] = "queued" => status[m] = "queued"
    BY <1>1, <1>2 DEF Return
  <2> QED
    BY <1>2, <2>1, OrderFrame DEF QInv, Order
<1>3. CASE ~mExit /\ Push(t)
  <2>1. \A m \in Msgs : status'[m] = "queued" => status[m] = "queued" \/ m = dmsg[t]
    BY <1>1, <1>3 DEF Push, Return
  <2>2. ctlpc # "join" /\ \A i \in 1..Len(normalQueue) : normalQueue[i] # ExitMsg
    BY <1>3 DEF QInv, IInv, Inv, Lifetime, ExitReachesWorker
  <2>3. CASE highQueue' = Append(highQueue, dmsg[t]) /\ UNCHANGED normalQueue
    <3>1. ExitReachesWorker' /\ Drained'
      BY <1>3, <2>2, <2>3 DEF QInv, ExitReachesWorker, Drained
    <3>2. \A m \in Msgs : Holds(highQueue', m) <=> Holds(highQueue, m) \/ m = dmsg[t]
      BY <1>1, <2>3, HoldsAppend
    <3>3. Filed'
      BY <2>1, <2>3, <3>2 DEF QInv, Filed
    <3> QED
      BY <3>1, <3>3 DEF Order
  <2>4. CASE normalQueue' = Append(normalQueue, dmsg[t]) /\ UNCHANGED highQueue
    <3>1. \A i \in 1..Len(normalQueue') : normalQueue'[i] # ExitMsg
      BY <1>1, <2>2, <2>4
    <3>2. ExitReachesWorker' /\ Drained'
      BY <1>3, <2>2, <3>1 DEF QInv, ExitReachesWorker, Drained
    <3>3. \A m \in Msgs : Holds(normalQueue', m) <=> Holds(normalQueue, m) \/ m = dmsg[t]
      BY <1>1, <2>4, HoldsAppend
    <3>4. Filed'
      BY <2>1, <2>4, <3>3 DEF QInv, Filed
    <3> QED
      BY <3>2, <3>4 DEF Order
  <2> QED
    BY <1>3, <2>3, <2>4 DEF Push
<1> QED
  BY <1>2, <1>3 DEF Enqueue

LEMMA OrderDispatching ==
  ASSUME QInv, NEW t \in Threads, Dispatching(t)
  PROVE  Order'
<1>1. UNCHANGED <<mThread, mExit, worker, selfExit, ctlpc>>
  BY DEF Dispatching, DispatchDelegate, CheckThread, Lock, Wake, WaitTimeout, loop, ctl
<1>2. CASE dpc[t] # "out" /\ Enqueue(t)
  BY <1>1, <1>2, OrderEnqueue
<1>3. CASE /\ UNCHANGED queues
           /\ \/ UNCHANGED status
              \/ \E fate \in {"refused", "dropped", "threw"} : Return(t, fate)
              \/ \E m \in Msgs, fate \in {"refused", "calling"} : status' = [status EXCEPT ![m] = fate]
  <2>1. status \in [Msgs -> Fates]
    BY DEF QInv, IInv, TypeOK
  <2>2. \A m \in Msgs : status'[m] = "queued" => status[m] = "queued"
    BY <1>3, <2>1 DEF Return
  <2> QED
    BY <1>1, <1>3, <2>2, OrderFrame DEF QInv, Order
<1>4. CASE \E m \in Msgs : DispatchDelegate(t, m)
  BY <1>3, <1>4 DEF DispatchDelegate
<1>5. CASE CheckThread(t)
  BY <1>3, <1>5 DEF CheckThread
<1>6. CASE Lock(t)
  BY <1>2, <1>3, <1>6 DEF Lock
<1>7. CASE Wake(t)
  BY <1>2, <1>3, <1>7 DEF Wake
<1>8. CASE WaitTimeout(t)
  BY <1>2, <1>3, <1>8 DEF WaitTimeout
<1> QED
  BY <1>4, <1>5, <1>6, <1>7, <1>8 DEF Dispatching

-----------------------------------------------------------------------------
(* The first message of a queue is taken; the exit message is taken last.  *)
LEMMA OrderTake ==
  ASSUME QInv, NEW w \in Workers, Take(w)
  PROVE  Order'
<1>0. /\ highQueue \in Seq(Msgs) /\ normalQueue \in Seq(Msgs \cup {ExitMsg})
      /\ worker \in [Workers -> WorkerStates] /\ status \in [Msgs -> Fates]
      /\ ExitMsg \notin Msgs /\ NoThread \notin Workers /\ mThread \in Workers \cup {NoThread}
  BY ThreadAssumption DEF QInv, IInv, TypeOK, Threads
<1>1. worker[w] = "idle" /\ UNCHANGED <<mThread, mExit, selfExit, ctlpc>>
  BY DEF Take, ctl
<1>2. mThread \in {w, NoThread} /\ (ctlpc = "join" => mThread = w)
  BY <1>1 DEF QInv, IInv, Inv, LiveIsHeld, Lifetime, Live, Ending, SelfExited
<1>3. PICK m \in Msgs \cup {ExitMsg} :
        /\ Pop(m)
        /\ \/ /\ m = ExitMsg
              /\ worker' = [worker EXCEPT ![w] = "stopped"]
              /\ UNCHANGED <<wmsg, status>>
           \/ /\ m # ExitMsg
              /\ worker' = [worker EXCEPT ![w] = "invoking"]
              /\ wmsg' = [wmsg EXCEPT ![w] = m]
              /\ status' = [status EXCEPT ![m] = "invoking"]
  BY DEF Take
<1>4. \A n \in Msgs : status'[n] = "queued" => status[n] = "queued" /\ n # m
  BY <1>0, <1>3
<1>5. CASE /\ highQueue # <<>> /\ m = Head(highQueue)
           /\ highQueue' = Tail(highQueue) /\ UNCHANGED normalQueue
  <2>1. m \in Msgs /\ worker' = [worker EXCEPT ![w] = "invoking"]
    BY <1>0, <1>3, <1>5
  <2>2. ExitReachesWorker' /\ Drained'
    BY <1>0, <1>1, <1>2, <1>5, <2>1 DEF QInv, ExitReachesWorker, Drained
  <2>3. \A n \in Msgs : Holds(highQueue, n) <=> Holds(highQueue', n) \/ n = m
    BY <1>0, <1>5, HoldsTail
  <2>4. Filed'
    BY <1>4, <1>5, <2>3 DEF QInv, Filed
  <2> QED
    BY <2>2, <2>4 DEF Order
<1>6. CASE /\ highQueue = <<>> /\ normalQueue # <<>> /\ m = Head(normalQueue)
           /\ normalQueue' = Tail(normalQueue) /\ UNCHANGED highQueue
  <2>1. /\ Len(normalQueue) \in Nat \ {0} /\ Len(normalQueue') = Len(normalQueue) - 1
        /\ m = normalQueue[1]
        /\ \A i \in 1..Len(normalQueue') : normalQueue'[i] = normalQueue[i + 1]
    BY <1>0, <1>6
  <2>2. m = ExitMsg => mExit /\ Len(normalQueue) = 1 /\ normalQueue' = <<>>
    <3>1. m = ExitMsg => mExit /\ Len(normalQueue) = 1
      <4>1. 1 \in 1..Len(normalQueue)
        BY <2>1
      <4>2. normalQueue[1] = ExitMsg => 1 = Len(normalQueue) /\ mExit
        BY <4>1 DEF QInv, ExitReachesWorker
      <4> QED
        BY <2>1, <4>2
    <3>2. normalQueue' \in Seq(Msgs \cup {ExitMsg})
      BY <1>0, <1>6
    <3>3. Len(normalQueue') = 0 => normalQueue' = <<>>
      BY <3>2
    <3> QED
      BY <2>1, <3>1, <3>3
  <2>3. \A i \in 1..Len(normalQueue') :
          normalQueue'[i] = ExitMsg => i = Len(normalQueue') /\ mExit'
    <3> SUFFICES ASSUME NEW i \in 1..Len(normalQueue'), normalQueue'[i] = ExitMsg
                 PROVE  i = Len(normalQueue') /\ mExit'
      OBVIOUS
    <3>1. i + 1 \in 1..Len(normalQueue) /\ normalQueue[i + 1] = ExitMsg
      BY <2>1
    <3>2. i + 1 = Len(normalQueue) /\ mExit
      BY <3>1 DEF QInv, ExitReachesWorker
    <3> QED
      BY <1>1, <2>1, <3>2
  <2>4. ctlpc' = "join" /\ worker'[mThread'] # "stopped"
          => normalQueue' # <<>> /\ normalQueue'[Len(normalQueue')] = ExitMsg
    <3> SUFFICES ASSUME ctlpc' = "join", worker'[mThread'] # "stopped"
                 PROVE  normalQueue' # <<>> /\ normalQueue'[Len(normalQueue')] = ExitMsg
      OBVIOUS
    <3>1. mThread = w /\ worker[mThread] # "stopped" /\ m # ExitMsg
      BY <1>0, <1>1, <1>2, <1>3
    <3>2. normalQueue[Len(normalQueue)] = ExitMsg
      BY <1>1, <3>1 DEF QInv, ExitReachesWorker
    <3>3. Len(normalQueue') \in 1..Len(normalQueue')
      BY <2>1, <3>1, <3>2
    <3> QED
      BY <2>1, <3>2, <3>3
  <2>5. Drained'
    BY <1>0, <1>1, <1>2, <1>3, <1>6, <2>2 DEF Drained
  <2>6. \A n \in Msgs : Holds(normalQueue, n) <=> Holds(normalQueue', n) \/ n = m
    BY <1>0, <1>6, HoldsTail
  <2>7. Filed'
    BY <1>4, <1>6, <2>6 DEF QInv, Filed
  <2> QED
    BY <2>3, <2>4, <2>5, <2>7 DEF Order, ExitReachesWorker
<1> QED
  BY <1>3, <1>5, <1>6 DEF Pop

LEMMA OrderProcess ==
  ASSUME QInv, NEW w \in Workers, Process(w)
  PROVE  Order'
<1>0. worker \in [Workers -> WorkerStates] /\ status \in [Msgs -> Fates]
  BY DEF QInv, IInv, TypeOK
<1>1. CASE Started(w)
  <2>1. ExitReachesWorker' /\ Drained'
    BY <1>0, <1>1 DEF QInv, ExitReachesWorker, Drained, Started, queues, ctl
  <2>2. Filed'
    BY <1>1 DEF QInv, Filed, Holds, Started, queues
  <2> QED
    BY <2>1, <2>2 DEF Order
<1>2. CASE Take(w)
  BY <1>2, OrderTake
<1>3. CASE Finish(w)
  <2>1. ExitReachesWorker' /\ Drained'
    BY <1>0, <1>3 DEF QInv, ExitReachesWorker, Drained, Finish, queues, ctl
  <2>2. \A m \in Msgs : status'[m] = "queued" => status[m] = "queued"
    BY <1>0, <1>3 DEF Finish
  <2>3. Filed'
    BY <1>3, <2>2 DEF QInv, Filed, Holds, Finish, queues
  <2> QED
    BY <2>1, <2>3 DEF Order
<1>4. CASE HandlerThrows(w)
  BY <1>4, OrderFrame DEF QInv, Order, HandlerThrows, loop, ctl
<1> QED
  BY <1>1, <1>2, <1>3, <1>4 DEF Process

-----------------------------------------------------------------------------
(* ExitThread posts the exit message once, behind all that was accepted.   *)
LEMMA OrderExitThread ==
  ASSUME QInv, NEW t \in Threads, ExitThread(t)
  PROVE  Order'
<1>0. /\ normalQueue \in Seq(Msgs \cup {ExitMsg}) /\ ~mExit
      /\ normalQueue' = Append(normalQueue, ExitMsg) /\ mExit'
      /\ UNCHANGED <<mThread, highQueue, worker, selfExit, status>>
  BY DEF QInv, IInv, TypeOK, Ending, Accepting, ExitThread, loop
<1>1. /\ Len(normalQueue') = Len(normalQueue) + 1 /\ Len(normalQueue) \in Nat
      /\ \A i \in 1..Len(normalQueue) : normalQueue'[i] = normalQueue[i]
      /\ normalQueue'[Len(normalQueue')] = ExitMsg /\ normalQueue' # <<>>
  BY <1>0
<1>2. \A i \in 1..Len(normalQueue) : normalQueue[i] # ExitMsg
  BY <1>0 DEF QInv, ExitReachesWorker
<1>3. \A i \in 1..Len(normalQueue') : normalQueue'[i] = ExitMsg => i = Len(normalQueue')
  BY <1>1, <1>2
<1>4. ExitReachesWorker'
  BY <1>0, <1>1, <1>3 DEF ExitReachesWorker
<1>5. Drained'
  BY <1>0 DEF QInv, Drained
<1>6. \A m \in Msgs : Holds(normalQueue', m) <=> Holds(normalQueue, m) \/ m = ExitMsg
  BY <1>0, HoldsAppend
<1>7. Filed'
  BY <1>0, <1>6 DEF QInv, Filed
<1> QED
  BY <1>4, <1>5, <1>7 DEF Order

LEMMA OrderLifecycle ==
  ASSUME QInv, Lifecycle
  PROVE  Order'
<1>0. /\ worker \in [Workers -> WorkerStates] /\ selfExit \in SUBSET Workers
      /\ NoThread \notin Workers /\ Lifetime
  BY ThreadAssumption DEF QInv, IInv, Inv, TypeOK, Threads
<1>1. CASE \E t \in Threads : CreateThread(t)
  <2>1. /\ highQueue' = <<>> /\ normalQueue' = <<>> /\ ctlpc' = "spawn" /\ mThread' = NoThread
        /\ UNCHANGED <<status, queues>>
    BY <1>1 DEF CreateThread, QInv, IInv, Stranding, queues
  <2>2. ExitReachesWorker' /\ Drained'
    BY <2>1 DEF ExitReachesWorker, Drained
  <2>3. Filed'
    BY <2>1 DEF QInv, Filed, Holds, queues
  <2> QED
    BY <2>2, <2>3 DEF Order
<1>2. CASE \E t \in Threads : ExitThread(t)
  BY <1>2, OrderExitThread
<1>3. CASE Spawn
  <2>1. UNCHANGED <<queues, status, mExit>> /\ ctlpc' = "emplace" /\ mThread' = NoThread
    BY <1>0, <1>3 DEF Spawn, Lifetime
  <2>2. ExitReachesWorker' /\ Drained' /\ Filed'
    BY <2>1 DEF QInv, ExitReachesWorker, Drained, Filed, Holds, queues
  <2> QED
    BY <2>2 DEF Order
<1>4. CASE Emplace
  <2>1. UNCHANGED <<queues, status, mExit>> /\ ctlpc' = "started" /\ worker'[mThread'] # "stopped"
    BY <1>0, <1>4 DEF Emplace, loop
  <2>2. ExitReachesWorker' /\ Drained' /\ Filed'
    BY <2>1 DEF QInv, ExitReachesWorker, Drained, Filed, Holds, queues
  <2> QED
    BY <2>2 DEF Order
<1>5. CASE CreateReturns
  BY <1>5 DEF QInv, Order, ExitReachesWorker, Drained, Filed, Holds, CreateReturns, queues, loop
<1>6. CASE Join
  <2>1. UNCHANGED <<queues, status, mExit, mThread, worker>> /\ ctlpc' = "reset" /\ selfExit \subseteq selfExit'
    BY <1>6 DEF Join
  <2>2. ExitReachesWorker' /\ Drained' /\ Filed'
    BY <2>1 DEF QInv, ExitReachesWorker, Drained, Filed, Holds, queues
  <2> QED
    BY <2>2 DEF Order
<1>7. CASE Reset
  <2>1. /\ highQueue' = <<>> /\ normalQueue' = <<>> /\ ctlpc' = "none" /\ mThread' = NoThread
        /\ \A m \in Msgs : status'[m] # "queued"
    BY <1>7 DEF Reset
  <2>2. ExitReachesWorker' /\ Drained' /\ Filed'
    BY <2>1 DEF ExitReachesWorker, Drained, Filed
  <2> QED
    BY <2>2 DEF Order
<1> QED
  BY <1>1, <1>2, <1>3, <1>4, <1>5, <1>6, <1>7 DEF Lifecycle

LEMMA QInvInductive == QInv /\ [Next]_vars => QInv'
<1> SUFFICES ASSUME QInv, [Next]_vars PROVE QInv'
  OBVIOUS
<1>1. IInv'
  BY NextIInv DEF QInv
<1>2. Ending'
  BY EndingKept
<1>3. Order'
  <2>1. CASE UNCHANGED vars
    BY <2>1, OrderFrame DEF QInv, Order, vars, loop, ctl
  <2> QED
    BY <2>1, OrderDispatching, OrderProcess, OrderLifecycle DEF Next, Rest
<1> QED
  BY <1>1, <1>2, <1>3 DEF QInv, Order

LEMMA AlwaysQInv == Spec => []QInv
BY InitQInv, QInvInductive, PTL DEF Spec

(* The exit message reaches the thread that join() waits for, behind       *)
(* everything accepted before it, and no other message is ever behind it.  *)
THEOREM ExitAlwaysReachesWorker == Spec => []ExitReachesWorker
<1>1. QInv => ExitReachesWorker
  BY DEF QInv
<1> QED
  BY <1>1, AlwaysQInv, PTL

-----------------------------------------------------------------------------
(* Producers: who waits for room, and who has been told of it.             *)
Waiting  == {t \in Threads : dpc[t] = "waiting"}
Notified == {t \in Threads : dpc[t] = "notified"}

Limited == MaxQueueSize > 0 =>
             Size <= MaxQueueSize + (IF Holds(normalQueue, ExitMsg) THEN 1 ELSE 0)
Woken ==
  /\ Waiting # {} => MaxQueueSize <= Size + Cardinality(Notified)
  /\ mExit => Waiting = {}

KInv == QInv /\ Limited /\ Woken

LEMMA Counted ==
  ASSUME NEW N \in SUBSET Threads
  PROVE  IsFiniteSet(N) /\ Cardinality(N) \in Nat
BY FiniteThreads, FS_Subset, FS_CardinalityType

LEMMA SizeIsNatural ==
  ASSUME TypeOK
  PROVE  Size \in Nat /\ Len(highQueue) \in Nat /\ Len(normalQueue) \in Nat
<1>1. highQueue \in Seq(Msgs) /\ normalQueue \in Seq(Msgs \cup {ExitMsg})
  BY DEF TypeOK
<1> QED
  BY <1>1 DEF Size

(* Three ways to lose no wake-up: nobody waits, no room appears, and the   *)
(* queue is full.                                                          *)
LEMMA WokenNobodyWaits ==
  ASSUME Waiting' = {}
  PROVE  Woken'
BY DEF Woken

LEMMA WokenFrame ==
  ASSUME Woken, UNCHANGED queues, Waiting' = Waiting, Notified' = Notified, mExit' => mExit
  PROVE  Woken'
<1>1. Size' = Size
  BY DEF Size, queues
<1> QED
  BY <1>1 DEF Woken

LEMMA WokenFull ==
  ASSUME TypeOK, Full, UNCHANGED queues, ~mExit'
  PROVE  Woken'
<1>1. Size' = Size /\ Size \in Nat /\ MaxQueueSize \in Nat
  BY SizeIsNatural, ThreadAssumption DEF Size, queues
<1>2. Cardinality(Notified') \in Nat
  BY Counted DEF Notified
<1>3. MaxQueueSize <= Size'
  BY <1>1 DEF Full
<1> QED
  BY <1>1, <1>2, <1>3 DEF Woken

LEMMA LimitedFrame ==
  ASSUME Limited, UNCHANGED queues
  PROVE  Limited'
BY DEF Limited, Size, Holds, queues

(* One message is pushed: the room it takes was there, and it uses up one  *)
(* notification at most.                                                   *)
LEMMA KeptEnqueue ==
  ASSUME KInv, NEW t \in Threads, dpc[t] # "out", mExit \/ ~Full, Enqueue(t), UNCHANGED mExit
  PROVE  Limited' /\ Woken'
<1>0. /\ dmsg[t] \in Msgs /\ dpc \in [Threads -> CallStates]
      /\ highQueue \in Seq(Msgs) /\ normalQueue \in Seq(Msgs \cup {ExitMsg})
      /\ Size \in Nat /\ MaxQueueSize \in Nat
  BY SizeIsNatural, ThreadAssumption DEF KInv, QInv, IInv, TypeOK, Dispatches
<1>1. dpc' = [dpc EXCEPT ![t] = "out"]
  BY DEF Enqueue, Push, Return
<1>2. Waiting' \subseteq Waiting /\ Notified' = Notified \ {t}
  BY <1>0, <1>1 DEF Waiting, Notified
<1>3. CASE mExit
  <2>1. Waiting' = {} /\ UNCHANGED queues
    BY <1>2, <1>3 DEF KInv, Woken, Enqueue
  <2> QED
    BY <2>1, WokenNobodyWaits, LimitedFrame DEF KInv
<1>4. CASE ~mExit
  <2>1. Size' = Size + 1
    <3>1. /\ Len(Append(highQueue, dmsg[t])) = Len(highQueue) + 1
          /\ Len(Append(normalQueue, dmsg[t])) = Len(normalQueue) + 1
          /\ Len(highQueue) \in Nat /\ Len(normalQueue) \in Nat
      BY <1>0
    <3> QED
      BY <1>4, <3>1 DEF Enqueue, Push, Size
  <2>2. MaxQueueSize > 0 => Size' <= MaxQueueSize
    BY <1>0, <1>4, <2>1 DEF Full
  <2>3. Limited'
    BY <1>0, <2>1, <2>2 DEF Limited
  <2>4. /\ Cardinality(Notified) \in Nat /\ Cardinality(Notified') \in Nat
        /\ Cardinality(Notified) <= Cardinality(Notified') + 1
    <3>1. IsFiniteSet(Notified) /\ Cardinality(Notified) \in Nat /\ Cardinality(Notified') \in Nat
      BY Counted DEF Notified
    <3>2. Cardinality(Notified') = IF t \in Notified THEN Cardinality(Notified) - 1
                                                     ELSE Cardinality(Notified)
      BY <1>2, <3>1, FS_RemoveElement
    <3> QED
      BY <3>1, <3>2
  <2>5. Waiting' # {} => MaxQueueSize <= Size + Cardinality(Notified)
    BY <1>2 DEF KInv, Woken
  <2>6. Woken'
    BY <1>0, <1>4, <2>1, <2>4, <2>5 DEF Woken
  <2> QED
    BY <2>3, <2>6
<1> QED
  BY <1>3, <1>4

LEMMA KeptDispatching ==
  ASSUME KInv, NEW t \in Threads, Dispatching(t)
  PROVE  Limited' /\ Woken'
<1>0. dpc \in [Threads -> CallStates] /\ TypeOK
  BY DEF KInv, QInv, IInv, TypeOK
<1>1. UNCHANGED mExit
  BY DEF Dispatching, DispatchDelegate, CheckThread, Lock, Wake, WaitTimeout
<1>2. CASE dpc[t] # "out" /\ (mExit \/ ~Full) /\ Enqueue(t)
  BY <1>1, <1>2, KeptEnqueue
<1>3. CASE /\ UNCHANGED queues
           /\ \/ UNCHANGED dpc
              \/ /\ dpc[t] \in {"out", "hasThread", "lock"}
                 /\ \E s \in {"out", "hasThread", "lock"} : dpc' = [dpc EXCEPT ![t] = s]
  <2>1. Waiting' = Waiting /\ Notified' = Notified
    BY <1>0, <1>3 DEF Waiting, Notified
  <2> QED
    BY <1>1, <1>3, <2>1, WokenFrame, LimitedFrame DEF KInv
<1>4. CASE UNCHANGED queues /\ ~MayProceed
  BY <1>0, <1>1, <1>4, WokenFull, LimitedFrame DEF KInv, MayProceed
<1>5. CASE \E m \in Msgs : DispatchDelegate(t, m)
  BY <1>3, <1>5 DEF DispatchDelegate, Free, calls
<1>6. CASE CheckThread(t)
  BY <1>3, <1>6 DEF CheckThread, Return
<1>7. CASE Lock(t)
  BY <1>2, <1>3, <1>4, <1>7 DEF Lock, Return, MayProceed, calls
<1>8. CASE Wake(t)
  BY <1>2, <1>4, <1>8 DEF Wake, MayProceed
<1>9. CASE WaitTimeout(t)
  BY <1>2, <1>4, <1>9 DEF WaitTimeout, MayProceed
<1> QED
  BY <1>5, <1>6, <1>7, <1>8, <1>9 DEF Dispatching

(* One message is taken: the room it leaves is announced to one producer,  *)
(* if any waits.                                                           *)
LEMMA WokenTake ==
  ASSUME KInv, NEW w \in Workers, Take(w), Size' = Size - 1
  PROVE  Woken'
<1>0. /\ dpc \in [Threads -> CallStates] /\ Size \in Nat /\ MaxQueueSize \in Nat
      /\ mExit' = mExit
  BY SizeIsNatural, ThreadAssumption DEF KInv, QInv, IInv, TypeOK, Take
<1>1. CASE MaxQueueSize > 0 /\ Waiting # {}
  <2>1. PICK t \in Threads : dpc[t] = "waiting" /\ dpc' = [dpc EXCEPT ![t] = "notified"]
    BY <1>1 DEF Take, NotifyOne, Waiting
  <2>2. Notified' = Notified \cup {t} /\ t \notin Notified
    BY <1>0, <2>1 DEF Notified
  <2>3. IsFiniteSet(Notified) /\ Cardinality(Notified) \in Nat
    BY Counted DEF Notified
  <2>4. Cardinality(Notified') = Cardinality(Notified) + 1
    BY <2>2, <2>3, FS_AddElement
  <2>5. MaxQueueSize <= Size' + Cardinality(Notified')
    <3>1. MaxQueueSize <= Size + Cardinality(Notified)
      BY <1>1 DEF KInv, Woken
    <3> QED
      BY <1>0, <2>3, <2>4, <3>1
  <2>6. ~mExit'
    BY <1>0, <1>1 DEF KInv, Woken
  <2> QED
    BY <2>5, <2>6 DEF Woken
<1>2. CASE Waiting = {}
  <2>1. dpc' = dpc
    <3>1. \A t \in Threads : dpc[t] # "waiting"
      BY <1>2 DEF Waiting
    <3> QED
      BY <3>1 DEF Take, NotifyOne
  <2>2. Waiting' = {}
    BY <1>2, <2>1 DEF Waiting
  <2> QED
    BY <2>2, WokenNobodyWaits
<1>3. CASE ~(MaxQueueSize > 0)
  <2>1. PICK m \in Msgs \cup {ExitMsg} : Pop(m)
    BY DEF Take
  <2>2. highQueue' \in Seq(Msgs) /\ normalQueue' \in Seq(Msgs \cup {ExitMsg})
    BY <2>1, PopType DEF KInv, QInv, IInv
  <2>3. Size' \in Nat
    <3>1. Len(highQueue') \in Nat /\ Len(normalQueue') \in Nat
      BY <2>2
    <3> QED
      BY <3>1 DEF Size
  <2>4. Cardinality(Notified') \in Nat
    BY Counted DEF Notified
  <2>5. MaxQueueSize <= Size' + Cardinality(Notified')
    BY <1>0, <1>3, <2>3, <2>4
  <2>6. dpc' = dpc
    BY <1>3 DEF Take
  <2>7. mExit' => Waiting' = {}
    BY <1>0, <2>6 DEF KInv, Woken, Waiting
  <2> QED
    BY <2>5, <2>7 DEF Woken
<1> QED
  BY <1>0, <1>1, <1>2, <1>3

LEMMA KeptTake ==
  ASSUME KInv, NEW w \in Workers, Take(w)
  PROVE  Limited' /\ Woken'
<1>0. /\ highQueue \in Seq(Msgs) /\ normalQueue \in Seq(Msgs \cup {ExitMsg})
      /\ Size \in Nat /\ MaxQueueSize \in Nat /\ ExitMsg \notin Msgs
  BY SizeIsNatural, ThreadAssumption DEF KInv, QInv, IInv, TypeOK
<1>1. PICK m \in Msgs \cup {ExitMsg} : Pop(m)
  BY DEF Take
<1>2. CASE /\ highQueue # <<>> /\ m = Head(highQueue)
           /\ highQueue' = Tail(highQueue) /\ UNCHANGED normalQueue
  <2>1. Size' = Size - 1
    <3>1. Len(highQueue) \in Nat /\ Len(normalQueue) \in Nat /\ Len(highQueue') = Len(highQueue) - 1
      BY <1>0, <1>2
    <3> QED
      BY <1>2, <3>1 DEF Size
  <2>2. Limited'
    BY <1>0, <1>2, <2>1 DEF KInv, Limited, Holds
  <2> QED
    BY <2>1, <2>2, WokenTake
<1>3. CASE /\ highQueue = <<>> /\ normalQueue # <<>> /\ m = Head(normalQueue)
           /\ normalQueue' = Tail(normalQueue) /\ UNCHANGED highQueue
  <2>1. Size' = Size - 1
    <3>1. Len(highQueue) \in Nat /\ Len(normalQueue) \in Nat /\ Len(normalQueue') = Len(normalQueue) - 1
      BY <1>0, <1>3
    <3> QED
      BY <1>3, <3>1 DEF Size
  <2>2. Holds(normalQueue, ExitMsg) <=> Holds(normalQueue', ExitMsg) \/ ExitMsg = m
    BY <1>0, <1>3, HoldsTail
  <2>3. Limited'
    BY <1>0, <2>1, <2>2 DEF KInv, Limited
  <2> QED
    BY <2>1, <2>3, WokenTake
<1> QED
  BY <1>1, <1>2, <1>3 DEF Pop

(* ExitThread alone exceeds the limit, by its message.                     *)
LEMMA KeptLifecycle ==
  ASSUME KInv, Lifecycle
  PROVE  Limited' /\ Woken'
<1>0. dpc \in [Threads -> CallStates]
  BY DEF KInv, QInv, IInv, TypeOK
<1>1. CASE \E t \in Threads : ExitThread(t)
  <2>0. /\ normalQueue \in Seq(Msgs \cup {ExitMsg}) /\ ~mExit
        /\ Size \in Nat /\ MaxQueueSize \in Nat
        /\ Len(highQueue) \in Nat /\ Len(normalQueue) \in Nat
        /\ normalQueue' = Append(normalQueue, ExitMsg) /\ UNCHANGED highQueue
    BY <1>1, SizeIsNatural, ThreadAssumption
       DEF KInv, QInv, IInv, TypeOK, Ending, Accepting, ExitThread
  <2>1. ~Holds(normalQueue, ExitMsg)
    BY <2>0 DEF KInv, QInv, ExitReachesWorker, Holds
  <2>2. Holds(normalQueue', ExitMsg)
    BY <2>0, HoldsAppend
  <2>3. Size' = Size + 1
    BY <2>0 DEF Size
  <2>4. Limited'
    BY <2>0, <2>1, <2>2, <2>3 DEF KInv, Limited
  <2>5. Waiting' = {}
    BY <1>0, <1>1 DEF ExitThread, NotifyAll, Waiting
  <2> QED
    BY <2>4, <2>5, WokenNobodyWaits
<1>2. CASE Reset
  <2>1. Waiting' = {}
    BY <1>0, <1>2 DEF Reset, NotifyAll, Waiting
  <2>2. Size' = 0 /\ MaxQueueSize \in Nat
    BY <1>2, ThreadAssumption DEF Reset, Size
  <2>3. Limited'
    BY <2>2 DEF Limited
  <2> QED
    BY <2>1, <2>3, WokenNobodyWaits
<1>3. CASE \/ \E t \in Threads : CreateThread(t)
           \/ Spawn \/ Emplace \/ CreateReturns \/ Join
  <2>1. UNCHANGED <<queues, dpc>> /\ (mExit' => mExit)
    BY <1>3 DEF CreateThread, Spawn, Emplace, CreateReturns, Join, calls
  <2>2. Waiting' = Waiting /\ Notified' = Notified
    BY <2>1 DEF Waiting, Notified
  <2> QED
    BY <2>1, <2>2, WokenFrame, LimitedFrame DEF KInv
<1> QED
  BY <1>1, <1>2, <1>3 DEF Lifecycle

LEMMA KeptFrame ==
  ASSUME KInv, UNCHANGED <<queues, dpc, mExit>>
  PROVE  Limited' /\ Woken'
<1>1. Waiting' = Waiting /\ Notified' = Notified
  BY DEF Waiting, Notified
<1> QED
  BY <1>1, WokenFrame, LimitedFrame DEF KInv

LEMMA KInvInductive == KInv /\ [Next]_vars => KInv'
<1> SUFFICES ASSUME KInv, [Next]_vars PROVE KInv'
  OBVIOUS
<1>1. QInv'
  BY QInvInductive DEF KInv
<1>2. ASSUME NEW w \in Workers, Process(w) PROVE Limited' /\ Woken'
  <2>1. CASE Take(w)
    BY <2>1, KeptTake
  <2>2. CASE Started(w) \/ Finish(w) \/ HandlerThrows(w)
    <3> UNCHANGED <<queues, dpc, mExit>>
      BY <2>2 DEF Started, Finish, HandlerThrows, calls
    <3> QED
      BY KeptFrame
  <2> QED
    BY <1>2, <2>1, <2>2 DEF Process
<1>3. ASSUME UNCHANGED vars PROVE Limited' /\ Woken'
  <2> UNCHANGED <<queues, dpc, mExit>>
    BY <1>3 DEF vars, calls
  <2> QED
    BY KeptFrame
<1>4. Limited' /\ Woken'
  BY <1>2, <1>3, KeptDispatching, KeptLifecycle DEF Next, Rest
<1> QED
  BY <1>1, <1>4 DEF KInv

LEMMA AlwaysKInv == Spec => []KInv
<1>1. Init => Limited /\ Woken
  <2> SUFFICES ASSUME Init PROVE Limited /\ Woken
    OBVIOUS
  <2>1. Size = 0 /\ MaxQueueSize \in Nat
    BY ThreadAssumption DEF Init, Size
  <2>2. Waiting = {}
    BY DEF Init, Waiting
  <2> QED
    BY <2>1, <2>2 DEF Limited, Woken
<1> QED
  BY <1>1, InitQInv, KInvInductive, PTL DEF Spec, KInv

-----------------------------------------------------------------------------
(* Nothing accepted is discarded as long as no handler ends its own        *)
(* thread: by the time the queues are cleared, the joined thread has       *)
(* served them.                                                            *)
LEMMA DrainedKept == QInv /\ DrainedAtExit /\ [Next]_vars => DrainedAtExit'
<1> SUFFICES ASSUME QInv, DrainedAtExit, [Next]_vars PROVE DrainedAtExit'
  OBVIOUS
<1>0. status \in [Msgs -> Fates] /\ dmsg \in [Threads -> Msgs \cup {NoMsg}]
  BY DEF QInv, IInv, TypeOK
<1>1. selfExit \subseteq selfExit'
  BY DEF Next, Rest, vars, loop, Dispatching, DispatchDelegate, CheckThread, Lock, Wake,
         WaitTimeout, Process, Started, Take, Finish, HandlerThrows, Lifecycle, CreateThread,
         ExitThread, Spawn, Emplace, CreateReturns, Join, Reset
<1>2. CASE \A m \in Msgs : status'[m] = "discarded" => status[m] = "discarded"
  BY <1>1, <1>2 DEF DrainedAtExit
<1>3. CASE \E t \in Threads : Dispatching(t)
  <2>1. PICK t \in Threads : Dispatching(t)
    BY <1>3
  <2>2. \/ UNCHANGED status
        \/ \E m \in Msgs \cup {NoMsg}, fate \in Fates \ {"discarded"} :
             status' = [status EXCEPT ![m] = fate]
    BY <1>0, <2>1 DEF Dispatching, DispatchDelegate, CheckThread, Lock, Wake, WaitTimeout,
                      Enqueue, Push, Return, Fates
  <2> QED
    BY <1>0, <1>2, <2>2
<1>4. CASE \E w \in Workers : Process(w)
  <2>1. PICK w \in Workers : Process(w)
    BY <1>4
  <2>2. \/ UNCHANGED status
        \/ \E m \in Msgs \cup {NoMsg, ExitMsg, wmsg[w]}, fate \in {"invoking", "done"} :
             status' = [status EXCEPT ![m] = fate]
    BY <2>1 DEF Process, Started, Take, Finish, HandlerThrows
  <2> QED
    BY <1>0, <1>2, <2>2
<1>5. CASE Reset
  <2>1. mThread # NoThread
    BY <1>5 DEF Reset, QInv, IInv, Inv, Lifetime
  <2>2. selfExit = {} => highQueue = <<>> /\ normalQueue = <<>>
    BY <1>5, <2>1 DEF Reset, QInv, Ending, Joined, Drained
  <2>3. selfExit = {} => \A m \in Msgs : status[m] # "queued"
    <3>1. Len(<<>>) = 0
      OBVIOUS
    <3> QED
      BY <2>2, <3>1 DEF QInv, Filed, Holds
  <2> QED
    BY <1>0, <1>2, <1>5, <2>3 DEF Reset, loop, DrainedAtExit
<1>6. CASE Lifecycle /\ ~Reset
  <2>1. UNCHANGED status
    BY <1>6 DEF Lifecycle, CreateThread, ExitThread, Spawn, Emplace, CreateReturns, Join
  <2> QED
    BY <1>2, <2>1
<1>7. CASE UNCHANGED vars
  BY <1>2, <1>7 DEF vars
<1> QED
  BY <1>3, <1>4, <1>5, <1>6, <1>7 DEF Next, Rest

(* The queue never exceeds its limit except by the exit message, no        *)
(* blocked producer misses the room or the exit it waits for, the exit     *)
(* message reaches the thread that is joined behind all accepted messages, *)
(* and none of these is discarded unless a handler ends its own thread.    *)
THEOREM QueueAlwaysKept == Spec => []QueueIsKept
<1>1. KInv => QueueBounded /\ NoLostWakeup /\ ExitReachesWorker
  BY DEF KInv, QInv, Limited, Woken, Waiting, Notified, Holds, QueueBounded, NoLostWakeup
<1>2. Init => DrainedAtExit
  BY DEF Init, DrainedAtExit
<1>3. Spec => []DrainedAtExit
  BY <1>2, DrainedKept, AlwaysQInv, PTL DEF Spec
<1>4. KInv /\ DrainedAtExit => QueueIsKept
  BY <1>1 DEF QueueIsKept
<1> QED
  BY <1>3, <1>4, AlwaysKInv, PTL

-----------------------------------------------------------------------------
(* A Thread implements a Mailbox.                                          *)

(* Each message is in one place: in the hands of the one thread that       *)
(* dispatches it, once in the queue of its priority, or with the one       *)
(* handler that serves it; and its status tells which.                     *)
Carried ==
  \A t \in Threads : dpc[t] # "out" =>
    /\ status[dmsg[t]] = "calling"
    /\ \A u \in Threads : dpc[u] # "out" /\ dmsg[u] = dmsg[t] => u = t
Once(q) == \A i, j \in 1..Len(q) : q[i] = q[j] => i = j
Listed ==
  /\ Once(highQueue) /\ Once(normalQueue)
  /\ \A m \in Msgs : Holds(highQueue, m) => status[m] = "queued" /\ m \in HighMsgs
  /\ \A m \in Msgs : Holds(normalQueue, m) => status[m] = "queued" /\ m \notin HighMsgs
Handled ==
  /\ \A w \in Workers :
       IF worker[w] = "invoking" THEN wmsg[w] \in Msgs /\ status[wmsg[w]] = "invoking"
       ELSE wmsg[w] = NoMsg
  /\ \A v, w \in Workers : worker[w] = "invoking" /\ wmsg[v] = wmsg[w] => v = w
  /\ \A m \in Msgs : status[m] = "invoking" => \E w \in Workers : wmsg[w] = m

Placed == Carried /\ Listed /\ Handled
MInv == QInv /\ Placed

USE DEF InCall, InLoop, InControl

-----------------------------------------------------------------------------
LEMMA InitPlaced == Init => Placed
<1> SUFFICES ASSUME Init PROVE Placed
  OBVIOUS
<1>1. Carried /\ Handled
  BY ThreadAssumption DEF Init, Carried, Handled
<1>2. Listed
  BY DEF Init, Listed, Once, Holds
<1> QED
  BY <1>1, <1>2 DEF Placed

(* The types of what the proofs below look at.                             *)
LEMMA Types ==
  ASSUME QInv
  PROVE  /\ highQueue \in Seq(Msgs) /\ normalQueue \in Seq(Msgs \cup {ExitMsg})
         /\ worker \in [Workers -> WorkerStates] /\ wmsg \in [Workers -> Msgs \cup {NoMsg}]
         /\ dpc \in [Threads -> CallStates] /\ dmsg \in [Threads -> Msgs \cup {NoMsg}]
         /\ status \in [Msgs -> Fates] /\ selfExit \in SUBSET Workers
         /\ mThread \in Workers \cup {NoThread} /\ mExit \in BOOLEAN
         /\ NoMsg \notin Msgs /\ ExitMsg \notin Msgs /\ NoThread \notin Workers
         /\ \A t \in Threads : dpc[t] # "out" => dmsg[t] \in Msgs
BY ThreadAssumption DEF QInv, IInv, TypeOK, Dispatches, Threads

(* Appending a message that a queue does not hold.                         *)
LEMMA OnceAppend ==
  ASSUME NEW S, NEW q \in Seq(S), NEW m \in S, Once(q), ~Holds(q, m)
  PROVE  Once(Append(q, m))
<1>1. Len(Append(q, m)) = Len(q) + 1 /\ Len(q) \in Nat
  OBVIOUS
<1>2. \A i \in 1..Len(q) : Append(q, m)[i] = q[i] /\ q[i] # m
  BY DEF Holds
<1>3. Append(q, m)[Len(q) + 1] = m
  OBVIOUS
<1>4. \A i \in 1..Len(q) + 1 : i \in 1..Len(q) \/ i = Len(q) + 1
  BY <1>1
<1> QED
  BY <1>1, <1>2, <1>3, <1>4 DEF Once

(* Removing the first message: the rest holds each at most once, and not   *)
(* the one removed.                                                        *)
LEMMA OnceTail ==
  ASSUME NEW S, NEW q \in Seq(S), q # <<>>, Once(q)
  PROVE  Once(Tail(q)) /\ ~Holds(Tail(q), Head(q))
<1>1. Len(Tail(q)) = Len(q) - 1 /\ Len(q) \in Nat \ {0} /\ q[1] = Head(q)
  OBVIOUS
<1>2. \A i \in 1..Len(q) - 1 : Tail(q)[i] = q[i + 1] /\ i + 1 \in 1..Len(q) /\ i + 1 # 1
  BY <1>1
<1>3. 1 \in 1..Len(q)
  BY <1>1
<1>4. Once(Tail(q))
  BY <1>1, <1>2 DEF Once
<1>5. ~Holds(Tail(q), Head(q))
  BY <1>1, <1>2, <1>3 DEF Once, Holds
<1> QED
  BY <1>4, <1>5

-----------------------------------------------------------------------------
(* A dispatch that is refused, dropped or thrown out of.                   *)
LEMMA PlacedReturn ==
  ASSUME MInv, NEW t \in Threads, dpc[t] # "out",
         NEW fate \in {"refused", "dropped", "threw"}, Return(t, fate),
         UNCHANGED <<queues, loop>>
  PROVE  Placed'
<1>0. Carried /\ Listed /\ Handled /\ status[dmsg[t]] = "calling"
  BY DEF MInv, Placed, Carried
<1>1. Carried'
  BY <1>0, Types DEF MInv, Carried, Return
<1>2. \A m \in Msgs : m # dmsg[t] => status'[m] = status[m]
  BY Types DEF MInv, Return
<1>3. Listed'
  BY <1>0, <1>2 DEF Listed, Holds, Once, queues
<1>4. Handled'
  BY <1>0, <1>2, Types DEF MInv, Handled, Return, loop
<1> QED
  BY <1>1, <1>3, <1>4 DEF Placed

LEMMA PlacedPush ==
  ASSUME MInv, NEW t \in Threads, dpc[t] # "out", Push(t), ~mExit, UNCHANGED loop
  PROVE  Placed'
<1>0. /\ Carried /\ Listed /\ Handled /\ status[dmsg[t]] = "calling" /\ dmsg[t] \in Msgs
      /\ dmsg[t] \in Msgs \cup {ExitMsg}
      /\ highQueue \in Seq(Msgs) /\ normalQueue \in Seq(Msgs \cup {ExitMsg})
  BY Types DEF MInv, Placed, Carried
<1>1. Carried'
  BY <1>0, Types DEF MInv, Carried, Push, Return
<1>2. \A m \in Msgs : status'[m] = IF m = dmsg[t] THEN "queued" ELSE status[m]
  BY Types DEF MInv, Push, Return
<1>3. ~Holds(highQueue, dmsg[t]) /\ ~Holds(normalQueue, dmsg[t])
  BY <1>0 DEF Listed
<1>4. Listed'
  <2>1. CASE dmsg[t] \in HighMsgs
    <3>1. highQueue' = Append(highQueue, dmsg[t]) /\ normalQueue' = normalQueue
      BY <2>1 DEF Push
    <3>2. Once(highQueue')
      BY <1>0, <1>3, <3>1, OnceAppend DEF Listed
    <3>3. \A m \in Msgs : Holds(highQueue', m) <=> Holds(highQueue, m) \/ m = dmsg[t]
      BY <1>0, <3>1, HoldsAppend
    <3> QED
      BY <1>0, <1>2, <1>3, <2>1, <3>1, <3>2, <3>3 DEF Listed
  <2>2. CASE dmsg[t] \notin HighMsgs
    <3>1. normalQueue' = Append(normalQueue, dmsg[t]) /\ highQueue' = highQueue
      BY <2>2 DEF Push
    <3>2. Once(normalQueue')
      BY <1>0, <1>3, <3>1, OnceAppend DEF Listed
    <3>3. \A m \in Msgs : Holds(normalQueue', m) <=> Holds(normalQueue, m) \/ m = dmsg[t]
      BY <1>0, <3>1, HoldsAppend
    <3> QED
      BY <1>0, <1>2, <1>3, <2>2, <3>1, <3>2, <3>3 DEF Listed
  <2> QED
    BY <2>1, <2>2
<1>5. Handled'
  BY <1>0, <1>2, Types DEF MInv, Handled, loop
<1> QED
  BY <1>1, <1>4, <1>5 DEF Placed

(* A thread moves on inside its dispatch.                                  *)
LEMMA PlacedMove ==
  ASSUME MInv, UNCHANGED <<dmsg, status, queues, wmsg>>,
         \A t \in Threads : dpc[t] = "out" <=> dpc'[t] = "out",
         \A w \in Workers : worker[w] = "invoking" <=> worker'[w] = "invoking"
  PROVE  Placed'
<1>1. Carried'
  BY DEF MInv, Placed, Carried
<1>2. Listed'
  BY DEF MInv, Placed, Listed, Once, Holds, queues
<1>3. Handled'
  BY DEF MInv, Placed, Handled
<1> QED
  BY <1>1, <1>2, <1>3 DEF Placed

LEMMA PlacedDispatch ==
  ASSUME MInv, NEW t \in Threads, NEW m \in Msgs, DispatchDelegate(t, m)
  PROVE  Placed'
<1>0. /\ Carried /\ Listed /\ Handled /\ status[m] = "new" /\ dpc[t] = "out"
      /\ UNCHANGED <<queues, worker, wmsg>>
  BY DEF MInv, Placed, DispatchDelegate, Free, loop
<1>1. status'[m] \in {"refused", "calling"} /\ \A n \in Msgs \ {m} : status'[n] = status[n]
  BY Types DEF MInv, DispatchDelegate
<1>2. Carried'
  BY <1>0, <1>1, Types DEF MInv, Carried, DispatchDelegate, calls
<1>3. Listed'
  BY <1>0, <1>1 DEF Listed, Once, Holds, queues
<1>4. Handled'
  BY <1>0, <1>1, Types DEF MInv, Handled
<1> QED
  BY <1>2, <1>3, <1>4 DEF Placed

(* Notifying producers moves none of them out of its dispatch.             *)
LEMMA NotifiedStay ==
  ASSUME QInv, \/ UNCHANGED dpc
               \/ NotifyOne(dpc, dpc')
               \/ dpc' = NotifyAll(dpc)
  PROVE  \A t \in Threads : dpc[t] = "out" <=> dpc'[t] = "out"
BY Types DEF NotifyOne, NotifyAll

(* The exit message is taken when nothing else is left, and changes only   *)
(* the queue.                                                              *)
LEMMA PlacedTake ==
  ASSUME MInv, NEW w \in Workers, Take(w)
  PROVE  Placed'
<1>0. /\ Carried /\ Listed /\ Handled /\ QInv
      /\ highQueue \in Seq(Msgs) /\ normalQueue \in Seq(Msgs \cup {ExitMsg})
      /\ worker[w] = "idle" /\ UNCHANGED dmsg
      /\ status \in [Msgs -> Fates] /\ worker \in [Workers -> WorkerStates]
      /\ wmsg \in [Workers -> Msgs \cup {NoMsg}] /\ NoMsg \notin Msgs /\ ExitMsg \notin Msgs
  BY Types DEF MInv, Placed, Take
<1>1. \A t \in Threads : dpc[t] = "out" <=> dpc'[t] = "out"
  BY <1>0, NotifiedStay DEF Take
<1>2. PICK m \in Msgs \cup {ExitMsg} :
        /\ Pop(m)
        /\ \/ /\ m = ExitMsg
              /\ worker' = [worker EXCEPT ![w] = "stopped"]
              /\ UNCHANGED <<wmsg, status>>
           \/ /\ m # ExitMsg
              /\ worker' = [worker EXCEPT ![w] = "invoking"]
              /\ wmsg' = [wmsg EXCEPT ![w] = m]
              /\ status' = [status EXCEPT ![m] = "invoking"]
  BY DEF Take
<1>3. /\ Once(highQueue') /\ Once(normalQueue')
      /\ \A n \in Msgs : Holds(highQueue', n) => Holds(highQueue, n) /\ n # m
      /\ \A n \in Msgs : Holds(normalQueue', n) => Holds(normalQueue, n) /\ n # m
      /\ m \in Msgs => Holds(highQueue, m) \/ Holds(normalQueue, m)
  <2>1. CASE /\ highQueue # <<>> /\ m = Head(highQueue)
             /\ highQueue' = Tail(highQueue) /\ UNCHANGED normalQueue
    <3>1. /\ Once(highQueue') /\ ~Holds(highQueue', m)
          /\ \A n : Holds(highQueue, n) <=> Holds(highQueue', n) \/ n = m
      BY <1>0, <2>1, OnceTail, HoldsTail DEF Listed
    <3>2. m \in Msgs
      BY <1>0, <2>1
    <3>3. m \in HighMsgs /\ ~Holds(normalQueue, m)
      BY <1>0, <3>1, <3>2 DEF Listed
    <3> QED
      BY <1>0, <2>1, <3>1, <3>3 DEF Listed
  <2>2. CASE /\ highQueue = <<>> /\ normalQueue # <<>> /\ m = Head(normalQueue)
             /\ normalQueue' = Tail(normalQueue) /\ UNCHANGED highQueue
    <3>1. /\ Once(normalQueue') /\ ~Holds(normalQueue', m)
          /\ \A n : Holds(normalQueue, n) <=> Holds(normalQueue', n) \/ n = m
      BY <1>0, <2>2, OnceTail, HoldsTail DEF Listed
    <3>2. \A n : ~Holds(highQueue, n)
      BY <2>2 DEF Holds
    <3> QED
      BY <1>0, <2>2, <3>1, <3>2 DEF Listed
  <2> QED
    BY <1>2, <2>1, <2>2 DEF Pop
<1>4. CASE m = ExitMsg
  <2>1. UNCHANGED <<wmsg, status>> /\ worker' = [worker EXCEPT ![w] = "stopped"]
    BY <1>2, <1>4
  <2>2. Carried' /\ Handled'
    BY <1>0, <1>1, <2>1 DEF Carried, Handled
  <2>3. Listed'
    BY <1>0, <1>3, <2>1 DEF Listed
  <2> QED
    BY <2>2, <2>3 DEF Placed
<1>5. CASE m \in Msgs
  <2>1. /\ worker' = [worker EXCEPT ![w] = "invoking"]
        /\ wmsg' = [wmsg EXCEPT ![w] = m]
        /\ status' = [status EXCEPT ![m] = "invoking"]
    BY <1>0, <1>2, <1>5
  <2>2. status[m] = "queued" /\ \A n \in Msgs \ {m} : status'[n] = status[n]
    BY <1>0, <1>3, <1>5, <2>1 DEF Listed
  <2>3. Carried'
    BY <1>0, <1>1, <2>2, Types DEF Carried
  <2>4. Listed'
    BY <1>0, <1>3, <2>2 DEF Listed
  <2>5. \A v \in Workers : worker[v] = "invoking" => wmsg[v] # m
    BY <1>0, <2>2 DEF Handled
  <2>6. Handled'
    BY <1>0, <1>5, <2>1, <2>2, <2>5 DEF Handled
  <2> QED
    BY <2>3, <2>4, <2>6 DEF Placed
<1> QED
  BY <1>4, <1>5

LEMMA PlacedFinish ==
  ASSUME MInv, NEW w \in Workers, Finish(w)
  PROVE  Placed'
<1>0. /\ Carried /\ Listed /\ Handled
      /\ worker[w] = "invoking" /\ UNCHANGED <<dpc, dmsg, queues>>
      /\ wmsg[w] \in Msgs /\ status[wmsg[w]] = "invoking"
  BY DEF MInv, Placed, Finish, calls, Handled
<1>1. status'[wmsg[w]] = "done" /\ \A n \in Msgs \ {wmsg[w]} : status'[n] = status[n]
  BY <1>0, Types DEF MInv, Finish
<1>2. Carried'
  BY <1>0, <1>1, Types DEF MInv, Carried
<1>3. Listed'
  BY <1>0, <1>1 DEF Listed, Once, Holds, queues
<1>4. Handled'
  <2>1. \A v \in Workers : worker'[v] = "invoking" <=> worker[v] = "invoking" /\ v # w
    BY <1>0, Types DEF MInv, Finish
  <2>2. \A v \in Workers : wmsg'[v] = IF v = w THEN NoMsg ELSE wmsg[v]
    BY Types DEF MInv, Finish
  <2>3. \A v \in Workers : v # w => wmsg[v] # wmsg[w]
    BY <1>0 DEF Handled
  <2>4. \A v \in Workers : IF worker'[v] = "invoking"
                             THEN wmsg'[v] \in Msgs /\ status'[wmsg'[v]] = "invoking"
                             ELSE wmsg'[v] = NoMsg
    BY <1>0, <1>1, <2>1, <2>2, <2>3 DEF Handled
  <2>5. \A u, v \in Workers : worker'[v] = "invoking" /\ wmsg'[u] = wmsg'[v] => u = v
    BY <1>0, <2>1, <2>2, Types DEF Handled, MInv
  <2>6. \A m \in Msgs : status'[m] = "invoking" => \E v \in Workers : wmsg'[v] = m
    BY <1>0, <1>1, <2>2, Types DEF Handled
  <2> QED
    BY <2>4, <2>5, <2>6 DEF Handled
<1> QED
  BY <1>2, <1>3, <1>4 DEF Placed

(* When the queues are cleared, no message is left in them.                *)
LEMMA PlacedReset ==
  ASSUME MInv, Reset
  PROVE  Placed'
<1>0. /\ Carried /\ Listed /\ Handled /\ QInv
      /\ highQueue' = <<>> /\ normalQueue' = <<>> /\ UNCHANGED <<worker, wmsg, dmsg>>
  BY DEF MInv, Placed, Reset, loop
<1>1. \A t \in Threads : dpc[t] = "out" <=> dpc'[t] = "out"
  BY <1>0, NotifiedStay DEF Reset
<1>2. \A m \in Msgs : status'[m] = IF status[m] = "queued" THEN "discarded" ELSE status[m]
  BY DEF Reset
<1>3. Carried'
  BY <1>0, <1>1, <1>2, Types DEF Carried
<1>4. Listed'
  BY <1>0 DEF Listed, Once, Holds
<1>5. Handled'
  BY <1>0, <1>2, Types DEF Handled
<1> QED
  BY <1>3, <1>4, <1>5 DEF Placed

(* The exit message is nobody's.                                           *)
LEMMA PlacedExitThread ==
  ASSUME MInv, NEW t \in Threads, ExitThread(t)
  PROVE  Placed'
<1>0. /\ Carried /\ Listed /\ Handled /\ QInv /\ ~mExit
      /\ normalQueue \in Seq(Msgs \cup {ExitMsg})
      /\ normalQueue' = Append(normalQueue, ExitMsg)
      /\ UNCHANGED <<highQueue, worker, wmsg, dmsg, status>>
  BY Types DEF MInv, Placed, QInv, Ending, Accepting, ExitThread, loop
<1>1. \A u \in Threads : dpc[u] = "out" <=> dpc'[u] = "out"
  BY <1>0, NotifiedStay DEF ExitThread
<1>2. ~Holds(normalQueue, ExitMsg)
  BY <1>0 DEF QInv, ExitReachesWorker, Holds
<1>3. Once(normalQueue')
  BY <1>0, <1>2, OnceAppend DEF Listed
<1>4. \A n : Holds(normalQueue', n) <=> Holds(normalQueue, n) \/ n = ExitMsg
  BY <1>0, HoldsAppend
<1>5. Carried' /\ Handled'
  BY <1>0, <1>1 DEF Carried, Handled
<1>6. Listed'
  BY <1>0, <1>3, <1>4, Types DEF Listed
<1> QED
  BY <1>5, <1>6 DEF Placed

-----------------------------------------------------------------------------
(* What a step of DispatchDelegate amounts to.                             *)
Taken(t)   == dpc[t] # "out" /\ ~mExit /\ Push(t)
Refused(t) == dpc[t] # "out" /\ UNCHANGED queues
              /\ \E fate \in {"refused", "dropped", "threw"} : Return(t, fate)
Goes(t)    == UNCHANGED <<dmsg, status, queues>>
              /\ \A u \in Threads : dpc[u] = "out" <=> dpc'[u] = "out"

LEMMA DispatchingCases ==
  ASSUME QInv, NEW t \in Threads, Dispatching(t)
  PROVE  /\ UNCHANGED <<mThread, mExit, loop, ctl>>
         /\ (\E m \in Msgs : DispatchDelegate(t, m)) \/ Taken(t) \/ Refused(t) \/ Goes(t)
<1>0. dpc \in [Threads -> CallStates]
  BY Types
<1>1. UNCHANGED <<mThread, mExit, loop, ctl>>
  BY DEF Dispatching, DispatchDelegate, CheckThread, Lock, Wake, WaitTimeout
<1>2. Enqueue(t) /\ dpc[t] # "out" => Taken(t) \/ Refused(t)
  BY DEF Enqueue, Taken, Refused
<1>3. CASE CheckThread(t)
  BY <1>0, <1>1, <1>3 DEF CheckThread, Refused, Goes
<1>4. CASE Lock(t)
  BY <1>0, <1>1, <1>2, <1>4 DEF Lock, Refused, Goes, calls
<1>5. CASE Wake(t)
  BY <1>0, <1>1, <1>2, <1>5 DEF Wake, Refused, Goes
<1>6. CASE WaitTimeout(t)
  BY <1>0, <1>1, <1>2, <1>6 DEF WaitTimeout, Refused, Goes
<1> QED
  BY <1>1, <1>3, <1>4, <1>5, <1>6 DEF Dispatching

LEMMA PlacedKept == MInv /\ [Next]_vars => Placed'
<1> SUFFICES ASSUME MInv, [Next]_vars PROVE Placed'
  OBVIOUS
<1>0. QInv
  BY DEF MInv
<1>1. CASE \E t \in Threads : Dispatching(t)
  <2>1. PICK t \in Threads : Dispatching(t)
    BY <1>1
  <2>2. UNCHANGED loop
    BY <1>0, <2>1, DispatchingCases
  <2>3. CASE Goes(t)
    BY <2>2, <2>3, PlacedMove DEF Goes, loop
  <2>4. CASE Refused(t)
    BY <2>2, <2>4, PlacedReturn DEF Refused
  <2>5. CASE Taken(t)
    BY <2>2, <2>5, PlacedPush DEF Taken
  <2> QED
    BY <1>0, <2>1, <2>3, <2>4, <2>5, DispatchingCases, PlacedDispatch
<1>2. CASE \E w \in Workers : Process(w)
  <2>1. PICK w \in Workers : Process(w)
    BY <1>2
  <2>2. CASE Started(w)
    <3>1. \A v \in Workers : worker[v] = "invoking" <=> worker'[v] = "invoking"
      BY <1>0, <2>2, Types DEF Started
    <3> QED
      BY <2>2, <3>1, PlacedMove DEF Started, calls
  <2>3. CASE HandlerThrows(w)
    BY <2>3, PlacedMove DEF HandlerThrows, calls, loop
  <2> QED
    BY <2>1, <2>2, <2>3, PlacedTake, PlacedFinish DEF Process
<1>3. CASE Lifecycle
  <2>1. CASE Spawn
    <3>1. \A v \in Workers : worker[v] = "invoking" <=> worker'[v] = "invoking"
      BY <1>0, <2>1, Types DEF Spawn
    <3> QED
      BY <2>1, <3>1, PlacedMove DEF Spawn, calls
  <2>2. CASE (\E t \in Threads : CreateThread(t)) \/ Emplace \/ CreateReturns \/ Join
    <3>1. UNCHANGED <<calls, status, queues, wmsg, worker>>
      BY <2>2 DEF CreateThread, Emplace, CreateReturns, Join, loop
    <3> QED
      BY <3>1, PlacedMove DEF calls
  <2> QED
    BY <1>3, <2>1, <2>2, PlacedExitThread, PlacedReset DEF Lifecycle
<1>4. CASE UNCHANGED vars
  BY <1>4, PlacedMove DEF vars, loop, calls
<1> QED
  BY <1>1, <1>2, <1>3, <1>4 DEF Next, Rest

LEMMA AlwaysMInv == Spec => []MInv
<1>1. MInv /\ [Next]_vars => MInv'
  BY PlacedKept, QInvInductive DEF MInv
<1> QED
  BY <1>1, InitQInv, InitPlaced, PTL DEF Spec, MInv

-----------------------------------------------------------------------------
(* The normal queue without the exit message.                              *)
Stripped(q) == IF Len(q) > 0 /\ q[Len(q)] = ExitMsg THEN SubSeq(q, 1, Len(q) - 1) ELSE q

LEMMA StrippedNone ==
  ASSUME NEW q, ~Holds(q, ExitMsg), Len(q) \in Nat
  PROVE  Stripped(q) = q
BY DEF Stripped, Holds

LEMMA StrippedAppend ==
  ASSUME NEW S, NEW q \in Seq(S), ExitMsg \in S
  PROVE  Stripped(Append(q, ExitMsg)) = q
<1>1. /\ Len(Append(q, ExitMsg)) = Len(q) + 1 /\ Len(q) \in Nat
      /\ Append(q, ExitMsg)[Len(q) + 1] = ExitMsg
  OBVIOUS
<1>2. SubSeq(Append(q, ExitMsg), 1, Len(q)) = q
  OBVIOUS
<1>3. Len(q) + 1 > 0 /\ (Len(q) + 1) - 1 = Len(q)
  BY <1>1
<1> QED
  BY <1>1, <1>2, <1>3 DEF Stripped

LEMMA StrippedTail ==
  ASSUME NEW S, NEW q \in Seq(S), q # <<>>, Head(q) # ExitMsg
  PROVE  /\ Stripped(q) # <<>> /\ Head(Stripped(q)) = Head(q)
         /\ Tail(Stripped(q)) = Stripped(Tail(q))
<1>1. /\ Len(q) \in Nat \ {0} /\ Len(Tail(q)) = Len(q) - 1 /\ q[1] = Head(q)
      /\ Tail(q) \in Seq(S) /\ Len(q) - 1 \in Nat
  OBVIOUS
<1>2. \A i \in 1..Len(q) - 1 : Tail(q)[i] = q[i + 1]
  OBVIOUS
<1>3. CASE q[Len(q)] = ExitMsg
  <2>1. 1 \in 1..Len(q) /\ 2 \in 1..Len(q) /\ Len(q) - 1 \in 1..Len(q) - 1
    BY <1>1, <1>3
  <2>2. Tail(q)[Len(q) - 1] = q[(Len(q) - 1) + 1] /\ (Len(q) - 1) + 1 = Len(q)
    BY <1>1, <1>2, <2>1
  <2>3. Stripped(q) = SubSeq(q, 1, Len(q) - 1) /\ Stripped(Tail(q)) = SubSeq(Tail(q), 1, Len(q) - 2)
    BY <1>1, <1>3, <2>1, <2>2 DEF Stripped
  <2>4. /\ Head(SubSeq(q, 1, Len(q) - 1)) = q[1]
        /\ Tail(SubSeq(q, 1, Len(q) - 1)) = SubSeq(q, 2, Len(q) - 1)
    BY <2>1, HeadTailOfSubSeq
  <2>5. SubSeq(q, 1, Len(q) - 1) # <<>>
    <3>1. Len(SubSeq(q, 1, Len(q) - 1)) = Len(q) - 1 /\ Len(q) - 1 # 0
      BY <1>1, <2>1
    <3>2. Len(<<>>) = 0
      OBVIOUS
    <3> QED
      BY <3>1, <3>2
  <2>6. SubSeq(Tail(q), 1, Len(q) - 2) = SubSeq(q, 2, Len(q) - 1)
    <3>1. Tail(q) = SubSeq(q, 2, Len(q))
      BY TailIsSubSeq
    <3>2. CASE Len(q) = 2
      <4>1. SubSeq(Tail(q), 1, 0) = <<>> /\ SubSeq(q, 2, 1) = <<>>
        BY SubSeqEmpty
      <4> QED
        BY <3>2, <4>1
    <3>3. CASE Len(q) # 2
      <4>1. /\ 1 \in 1..Len(q) - 2 + 1 /\ Len(q) - 2 \in 1..Len(q) - 2 + 1 /\ Len(q) \in 1..Len(q)
            /\ 2 + 1 - 1 = 2 /\ 2 + (Len(q) - 2) - 1 = Len(q) - 1
        BY <1>1, <2>1, <3>3
      <4>2. SubSeq(SubSeq(q, 2, Len(q)), 1, Len(q) - 2)
              = SubSeq(q, 2 + 1 - 1, 2 + (Len(q) - 2) - 1)
        BY <2>1, <4>1, SubSeqOfSubSeq
      <4> QED
        BY <3>1, <4>1, <4>2
    <3> QED
      BY <3>2, <3>3
  <2> QED
    BY <1>1, <2>3, <2>4, <2>5, <2>6
<1>4. CASE q[Len(q)] # ExitMsg
  <2>1. Stripped(q) = q
    BY <1>4 DEF Stripped
  <2>2. Len(q) > 1 => Tail(q)[Len(q) - 1] = q[Len(q)]
    <3>1. Len(q) > 1 => Len(q) - 1 \in 1..Len(q) - 1 /\ (Len(q) - 1) + 1 = Len(q)
      BY <1>1
    <3> QED
      BY <1>2, <3>1
  <2>3. Stripped(Tail(q)) = Tail(q)
    <3>1. Len(Tail(q)) > 0 => Tail(q)[Len(Tail(q))] # ExitMsg
      BY <1>1, <1>4, <2>2
    <3> QED
      BY <3>1 DEF Stripped
  <2> QED
    BY <2>1, <2>3
<1> QED
  BY <1>3, <1>4

-----------------------------------------------------------------------------
(* A step that keeps the mapped state.                                     *)
LEMMA FateSame ==
  ASSUME \A m \in Msgs : MailboxFate'[m] = MailboxFate[m]
  PROVE  MailboxFate' = MailboxFate
BY DEF MailboxFate

(* A step that changes the fate of one message.                            *)
LEMMA FateChange ==
  ASSUME NEW m \in Msgs, NEW f, MailboxFate'[m] = f,
         \A n \in Msgs \ {m} : MailboxFate'[n] = MailboxFate[n]
  PROVE  MailboxFate' = [MailboxFate EXCEPT ![m] = f]
<1>1. MailboxFate = [n \in Msgs |-> MailboxFate[n]] /\ MailboxFate' = [n \in Msgs |-> MailboxFate'[n]]
  BY DEF MailboxFate
<1> QED
  BY <1>1

LEMMA PhaseSame ==
  ASSUME UNCHANGED <<mExit, mThread, ctlpc, ctlby>>
  PROVE  MailboxPhase' = MailboxPhase
BY DEF MailboxPhase

LEMMA MailboxStutters ==
  ASSUME MailboxPhase' = MailboxPhase, MailboxFate' = MailboxFate, UNCHANGED queues
  PROVE  [MB!Next]_(MB!vars)
<1>1. MailboxNormal' = MailboxNormal /\ highQueue' = highQueue
  BY DEF MailboxNormal, queues
<1> QED
  BY <1>1 DEF MB!vars

LEMMA NormalStripped == MailboxNormal = Stripped(normalQueue)
BY DEF MailboxNormal, Stripped

(* DispatchDelegate: a message is accepted, refused, or not decided upon.  *)
LEMMA DispatchingMaps ==
  ASSUME MInv, NEW t \in Threads, Dispatching(t)
  PROVE  [MB!Next]_(MB!vars)
<1>0. /\ QInv /\ Carried /\ UNCHANGED <<mThread, mExit, worker, wmsg, selfExit, ctlpc, ctlby>>
      /\ dpc[t] # "out" => dmsg[t] \in Msgs /\ status[dmsg[t]] = "calling"
      /\ status \in [Msgs -> Fates]
  <2>1. QInv /\ Carried
    BY DEF MInv, Placed
  <2> QED
    BY <2>1, DispatchingCases, Types DEF loop, ctl, Carried
<1>1. MailboxPhase' = MailboxPhase
  BY <1>0, PhaseSame
<1>2. ASSUME NEW m \in Msgs, status[m] \in {"new", "calling"},
             status' = [status EXCEPT ![m] = "refused"] \/ status' = [status EXCEPT ![m] = "dropped"]
               \/ status' = [status EXCEPT ![m] = "threw"],
             UNCHANGED queues
      PROVE  [MB!Next]_(MB!vars)
  <2>1. MailboxFate[m] = "new" /\ MailboxFate'[m] = "refused"
    BY <1>0, <1>2 DEF MailboxFate
  <2>2. \A n \in Msgs \ {m} : MailboxFate'[n] = MailboxFate[n]
    BY <1>0, <1>2 DEF MailboxFate
  <2>3. MailboxFate' = [MailboxFate EXCEPT ![m] = "refused"]
    BY <2>1, <2>2, FateChange
  <2>4. MailboxNormal' = MailboxNormal /\ highQueue' = highQueue
    BY <1>2 DEF MailboxNormal, queues
  <2>5. MB!Refuse(m)
    BY <1>1, <2>1, <2>3, <2>4 DEF MB!Refuse
  <2> QED
    BY <2>5 DEF MB!Next
<1>3. CASE \E m \in Msgs : DispatchDelegate(t, m)
  <2>1. PICK m \in Msgs : DispatchDelegate(t, m)
    BY <1>3
  <2>2. CASE status' = [status EXCEPT ![m] = "refused"]
    BY <1>2, <2>1, <2>2 DEF DispatchDelegate
  <2>3. CASE status' = [status EXCEPT ![m] = "calling"]
    <3>1. \A n \in Msgs : MailboxFate'[n] = MailboxFate[n]
      BY <1>0, <2>1, <2>3 DEF MailboxFate, DispatchDelegate
    <3> QED
      BY <1>1, <2>1, <3>1, FateSame, MailboxStutters DEF DispatchDelegate
  <2> QED
    BY <2>1, <2>2, <2>3 DEF DispatchDelegate
<1>4. CASE Refused(t)
  BY <1>0, <1>2, <1>4 DEF Refused, Return
<1>5. CASE Goes(t)
  <2>1. MailboxFate' = MailboxFate
    BY <1>0, <1>5 DEF MailboxFate, Goes
  <2> QED
    BY <1>1, <1>5, <2>1, MailboxStutters DEF Goes
<1>6. CASE Taken(t)
  <2>0. /\ dmsg[t] \in Msgs /\ ~mExit /\ status' = [status EXCEPT ![dmsg[t]] = "queued"]
        /\ status[dmsg[t]] = "calling" /\ dmsg[t] # ExitMsg
        /\ normalQueue \in Seq(Msgs \cup {ExitMsg})
    BY <1>0, <1>6, Types DEF Taken, Push, Return
  <2>1. MailboxPhase = "open"
    BY <2>0 DEF MailboxPhase
  <2>2. MailboxFate[dmsg[t]] = "new" /\ MailboxFate'[dmsg[t]] = "queued"
    BY <1>0, <2>0 DEF MailboxFate
  <2>3. \A n \in Msgs \ {dmsg[t]} : MailboxFate'[n] = MailboxFate[n]
    BY <1>0, <2>0 DEF MailboxFate
  <2>4. MailboxFate' = [MailboxFate EXCEPT ![dmsg[t]] = "queued"]
    BY <2>0, <2>2, <2>3, FateChange
  <2>5. ~Holds(normalQueue, ExitMsg) /\ Len(normalQueue) \in Nat
    BY <1>0, <2>0 DEF QInv, ExitReachesWorker, Holds
  <2>6. MailboxNormal = normalQueue
    BY <2>5, StrippedNone, NormalStripped
  <2>7. MailboxNormal' = normalQueue'
    <3>1. CASE UNCHANGED normalQueue
      BY <2>6, <3>1 DEF MailboxNormal
    <3>2. CASE normalQueue' = Append(normalQueue, dmsg[t])
      <4>1. normalQueue'[Len(normalQueue')] # ExitMsg
        BY <2>0, <3>2
      <4> QED
        BY <4>1 DEF MailboxNormal
    <3> QED
      BY <1>6, <3>1, <3>2 DEF Taken, Push
  <2>8. MB!Accept(dmsg[t])
    BY <1>1, <1>6, <2>1, <2>2, <2>4, <2>6, <2>7 DEF MB!Accept, Taken, Push
  <2> QED
    BY <2>0, <2>8 DEF MB!Next
<1> QED
  BY <1>0, <1>3, <1>4, <1>5, <1>6, DispatchingCases

-----------------------------------------------------------------------------
(* While the loop looks for a message, nobody else is being served, and    *)
(* the mailbox is not abandoned.                                           *)
LEMMA IdleServesNobody ==
  ASSUME MInv, NEW w \in Workers, worker[w] = "idle"
  PROVE  MB!Serving = {} /\ MailboxPhase \in {"open", "closing"}
<1>0. QInv /\ Handled /\ Inv /\ Ending
  BY DEF MInv, Placed, QInv, IInv
<1>1. w \notin selfExit /\ Live(w)
  BY <1>0 DEF Ending, SelfExited, Live
<1>2. MailboxPhase \in {"open", "closing"}
  <2>1. mThread = w \/ ctlpc = "emplace"
    BY <1>0, <1>1 DEF Inv, LiveIsHeld
  <2>2. CASE mThread = w
    BY <1>0, <1>1, <2>2, Types DEF MailboxPhase, Ending, Joined
  <2>3. CASE ctlpc = "emplace"
    BY <1>0, <2>3 DEF MailboxPhase, Ending, Accepting
  <2> QED
    BY <2>1, <2>2, <2>3
<1>3. MB!Serving = {}
  <2> SUFFICES ASSUME NEW m \in Msgs, MailboxFate[m] = "invoking" PROVE FALSE
    BY DEF MB!Serving
  <2>1. status[m] = "invoking" /\ ~ \E v \in selfExit : wmsg[v] = m
    BY <1>0, Types DEF MailboxFate
  <2>2. PICK v \in Workers : wmsg[v] = m
    BY <1>0, <2>1 DEF Handled
  <2>3. worker[v] = "invoking" /\ v \notin selfExit
    BY <1>0, <2>1, <2>2, Types DEF Handled
  <2>4. v = w
    BY <1>0, <1>1, <2>3 DEF Inv, SingleLive, Live
  <2> QED
    BY <2>3, <2>4
<1> QED
  BY <1>2, <1>3

LEMMA TakeMaps ==
  ASSUME MInv, NEW w \in Workers, Take(w)
  PROVE  [MB!Next]_(MB!vars)
<1>0. /\ QInv /\ Listed /\ Handled /\ worker[w] = "idle"
      /\ UNCHANGED <<mExit, mThread, selfExit, ctlpc, ctlby>>
      /\ highQueue \in Seq(Msgs) /\ normalQueue \in Seq(Msgs \cup {ExitMsg})
      /\ status \in [Msgs -> Fates] /\ wmsg \in [Workers -> Msgs \cup {NoMsg}]
      /\ ExitMsg \notin Msgs
  BY Types DEF MInv, Placed, Take, ctl
<1>1. MB!Serving = {} /\ MailboxPhase \in {"open", "closing"}
  BY <1>0, IdleServesNobody
<1>2. MailboxPhase' = MailboxPhase
  BY <1>0, PhaseSame
<1>3. PICK m \in Msgs \cup {ExitMsg} :
        /\ Pop(m)
        /\ \/ /\ m = ExitMsg
              /\ worker' = [worker EXCEPT ![w] = "stopped"]
              /\ UNCHANGED <<wmsg, status>>
           \/ /\ m # ExitMsg
              /\ worker' = [worker EXCEPT ![w] = "invoking"]
              /\ wmsg' = [wmsg EXCEPT ![w] = m]
              /\ status' = [status EXCEPT ![m] = "invoking"]
  BY DEF Take
<1>4. CASE m = ExitMsg
  <2>1. UNCHANGED <<wmsg, status>> /\ m \notin Msgs
    BY <1>0, <1>3, <1>4
  <2>2. /\ highQueue = <<>> /\ normalQueue # <<>> /\ Head(normalQueue) = ExitMsg
        /\ normalQueue' = Tail(normalQueue) /\ UNCHANGED highQueue
    BY <1>0, <1>3, <1>4 DEF Pop
  <2>3. Len(normalQueue) = 1
    <3>1. Len(normalQueue) \in Nat \ {0} /\ normalQueue[1] = ExitMsg
      BY <1>0, <2>2
    <3>2. 1 \in 1..Len(normalQueue)
      BY <3>1
    <3> QED
      BY <1>0, <3>1, <3>2 DEF QInv, ExitReachesWorker
  <2>4. MailboxNormal = <<>> /\ MailboxNormal' = <<>>
    <3>1. normalQueue' = <<>> /\ normalQueue[Len(normalQueue)] = ExitMsg
      BY <1>0, <2>2, <2>3
    <3>2. SubSeq(normalQueue, 1, 0) = <<>> /\ Len(normalQueue) - 1 = 0
      BY <2>3, SubSeqEmpty
    <3> QED
      BY <2>3, <3>1, <3>2 DEF MailboxNormal
  <2>5. MailboxFate' = MailboxFate
    BY <1>0, <2>1 DEF MailboxFate
  <2> QED
    BY <1>2, <2>2, <2>4, <2>5 DEF MB!vars
<1>5. CASE m \in Msgs
  <2>1. wmsg' = [wmsg EXCEPT ![w] = m] /\ status' = [status EXCEPT ![m] = "invoking"]
    BY <1>0, <1>3, <1>5
  <2>2. Holds(highQueue, m) \/ Holds(normalQueue, m)
    BY <1>0, <1>3, HoldsTail DEF Pop
  <2>3. status[m] = "queued"
    BY <1>0, <1>5, <2>2 DEF Listed
  <2>4. w \notin selfExit /\ \A v \in selfExit : wmsg[v] # m
    BY <1>0, <1>5, <2>3, Types DEF Handled, QInv, Ending, SelfExited
  <2>5. MailboxFate'[m] = "invoking"
    BY <1>0, <1>5, <2>1, <2>4, Types DEF MailboxFate
  <2>6. \A n \in Msgs \ {m} : MailboxFate'[n] = MailboxFate[n]
    BY <1>0, <2>1, <2>4, Types DEF MailboxFate
  <2>7. MailboxFate' = [MailboxFate EXCEPT ![m] = "invoking"]
    BY <1>5, <2>5, <2>6, FateChange
  <2>8. CASE /\ highQueue # <<>> /\ m = Head(highQueue)
             /\ highQueue' = Tail(highQueue) /\ UNCHANGED normalQueue
    <3>1. MailboxNormal' = MailboxNormal
      BY <2>8 DEF MailboxNormal
    <3>2. MB!DeliverHigh
      BY <2>7, <2>8, <3>1 DEF MB!DeliverHigh
    <3> QED
      BY <1>1, <1>2, <3>2 DEF MB!Next, MB!Deliver
  <2>9. CASE /\ highQueue = <<>> /\ normalQueue # <<>> /\ m = Head(normalQueue)
             /\ normalQueue' = Tail(normalQueue) /\ UNCHANGED highQueue
    <3>1. Head(normalQueue) # ExitMsg
      BY <1>0, <1>5, <2>9
    <3>2. /\ Stripped(normalQueue) # <<>> /\ Head(Stripped(normalQueue)) = m
          /\ Tail(Stripped(normalQueue)) = Stripped(normalQueue')
      BY <1>0, <2>9, <3>1, StrippedTail
    <3>3. MailboxNormal = Stripped(normalQueue) /\ MailboxNormal' = Stripped(normalQueue')
      BY DEF MailboxNormal, Stripped
    <3>4. MB!DeliverNormal
      BY <2>7, <2>9, <3>2, <3>3 DEF MB!DeliverNormal
    <3> QED
      BY <1>1, <1>2, <3>4 DEF MB!Next, MB!Deliver
  <2> QED
    BY <1>3, <2>8, <2>9 DEF Pop
<1> QED
  BY <1>4, <1>5

LEMMA FinishMaps ==
  ASSUME MInv, NEW w \in Workers, Finish(w)
  PROVE  [MB!Next]_(MB!vars)
<1>0. /\ QInv /\ Handled /\ worker[w] = "invoking"
      /\ UNCHANGED <<mExit, mThread, selfExit, ctlpc, ctlby, queues>>
      /\ wmsg[w] \in Msgs /\ status[wmsg[w]] = "invoking"
      /\ status' = [status EXCEPT ![wmsg[w]] = "done"] /\ wmsg' = [wmsg EXCEPT ![w] = NoMsg]
  BY DEF MInv, Placed, Finish, Handled, ctl
<1>1. MailboxPhase' = MailboxPhase
  BY <1>0, PhaseSame
<1>2. MailboxFate[wmsg[w]] \in {"invoking", "detached"} /\ MailboxFate'[wmsg[w]] = "done"
  BY <1>0, Types DEF MailboxFate
<1>3. \A n \in Msgs \ {wmsg[w]} : MailboxFate'[n] = MailboxFate[n]
  <2> SUFFICES ASSUME NEW n \in Msgs, n # wmsg[w] PROVE MailboxFate'[n] = MailboxFate[n]
    OBVIOUS
  <2>1. status'[n] = status[n]
    BY <1>0, Types
  <2>2. (\E v \in selfExit : wmsg[v] = n) <=> (\E v \in selfExit' : wmsg'[v] = n)
    BY <1>0, Types
  <2> QED
    BY <2>1, <2>2 DEF MailboxFate
<1>4. MailboxFate' = [MailboxFate EXCEPT ![wmsg[w]] = "done"]
  BY <1>0, <1>2, <1>3, FateChange
<1>5. MailboxNormal' = MailboxNormal /\ highQueue' = highQueue
  BY <1>0 DEF MailboxNormal, queues
<1>6. MB!Complete(wmsg[w])
  BY <1>1, <1>2, <1>4, <1>5 DEF MB!Complete
<1> QED
  BY <1>0, <1>6 DEF MB!Next

-----------------------------------------------------------------------------
(* CreateThread opens a closed mailbox; the first thread finds it open.    *)
LEMMA CreateThreadMaps ==
  ASSUME MInv, NEW t \in Threads, CreateThread(t)
  PROVE  [MB!Next]_(MB!vars)
<1>1. MailboxFate' = MailboxFate /\ UNCHANGED queues /\ MailboxNormal' = MailboxNormal
  BY DEF CreateThread, loop, queues, MailboxFate, MailboxNormal
<1>2. MailboxPhase' = "open" /\ MailboxPhase \in {"open", "closed"}
  BY DEF CreateThread, MailboxPhase
<1>3. CASE MailboxPhase = "open"
  BY <1>1, <1>2, <1>3, MailboxStutters
<1>4. CASE MailboxPhase = "closed"
  <2>1. MB!Reopen
    BY <1>1, <1>2, <1>4 DEF MB!Reopen, queues
  <2> QED
    BY <2>1 DEF MB!Next
<1> QED
  BY <1>2, <1>3, <1>4

LEMMA ExitThreadMaps ==
  ASSUME MInv, NEW t \in Threads, ExitThread(t)
  PROVE  [MB!Next]_(MB!vars)
<1>0. /\ QInv /\ ~mExit /\ mExit' /\ mThread # NoThread /\ ctlpc' = "join"
      /\ normalQueue \in Seq(Msgs \cup {ExitMsg}) /\ normalQueue' = Append(normalQueue, ExitMsg)
      /\ UNCHANGED <<highQueue, mThread, selfExit, wmsg, status>>
  BY Types DEF MInv, QInv, Ending, Accepting, ExitThread, loop
<1>1. MailboxFate' = MailboxFate
  BY <1>0 DEF MailboxFate
<1>2. MailboxPhase = "open" /\ MailboxPhase' = "closing"
  BY <1>0 DEF MailboxPhase
<1>3. ~Holds(normalQueue, ExitMsg) /\ Len(normalQueue) \in Nat
  BY <1>0 DEF QInv, ExitReachesWorker, Holds
<1>4. MailboxNormal = normalQueue /\ MailboxNormal' = normalQueue
  <2>1. MailboxNormal' = Stripped(normalQueue')
    BY DEF MailboxNormal, Stripped
  <2> QED
    BY <1>0, <1>3, <2>1, NormalStripped, StrippedNone, StrippedAppend
<1>5. MB!Close
  BY <1>0, <1>1, <1>2, <1>4 DEF MB!Close
<1> QED
  BY <1>5 DEF MB!Next

(* join() from another thread is not seen; a handler that ends its own     *)
(* thread detaches itself from the mailbox.                                *)
LEMMA JoinMaps ==
  ASSUME MInv, Join
  PROVE  [MB!Next]_(MB!vars)
<1>0. /\ QInv /\ Handled /\ Ending /\ mExit /\ mThread # NoThread /\ mThread \in Workers
      /\ ctlpc = "join" /\ ctlpc' = "reset"
      /\ UNCHANGED <<mExit, mThread, ctlby, queues, wmsg, status>>
  BY Types DEF MInv, Placed, QInv, IInv, Inv, Lifetime, Join
<1>1. MailboxPhase = "closing" /\ MailboxNormal' = MailboxNormal
  BY <1>0 DEF MailboxPhase, MailboxNormal, queues
<1>2. CASE ctlby # mThread
  <2>1. MailboxPhase' = "closing"
    BY <1>0, <1>2 DEF MailboxPhase
  <2>2. MailboxFate' = MailboxFate
    BY <1>0, <1>2 DEF MailboxFate, Join
  <2> QED
    BY <1>0, <1>1, <2>1, <2>2, MailboxStutters
<1>3. CASE ctlby = mThread
  <2>1. MailboxPhase' = "abandoning"
    BY <1>0, <1>3 DEF MailboxPhase
  <2>2. selfExit' = selfExit \cup {mThread} /\ mThread \notin selfExit /\ worker[mThread] = "invoking"
    BY <1>0, <1>3 DEF Join, Ending, Busy, Joined
  <2>3. PICK m \in Msgs : m = wmsg[mThread] /\ status[m] = "invoking"
    BY <1>0, <2>2 DEF Handled
  <2>4. \A v \in selfExit : wmsg[v] # m
    BY <1>0, <2>2, <2>3, Types DEF Handled
  <2>5. MailboxFate[m] = "invoking" /\ MailboxFate'[m] = "detached"
    BY <1>0, <2>2, <2>3, <2>4 DEF MailboxFate
  <2>6. \A n \in Msgs \ {m} : MailboxFate'[n] = MailboxFate[n]
    <3> SUFFICES ASSUME NEW n \in Msgs, n # m PROVE MailboxFate'[n] = MailboxFate[n]
      OBVIOUS
    <3>1. (\E v \in selfExit : wmsg[v] = n) <=> (\E v \in selfExit' : wmsg'[v] = n)
      BY <1>0, <2>2, <2>3
    <3> QED
      BY <1>0, <3>1 DEF MailboxFate
  <2>7. MailboxFate' = [MailboxFate EXCEPT ![m] = "detached"]
    BY <2>5, <2>6, FateChange
  <2>8. MB!Detach
    BY <1>0, <1>1, <2>1, <2>5, <2>7 DEF MB!Detach, MB!Serving, queues
  <2> QED
    BY <2>8 DEF MB!Next
<1> QED
  BY <1>2, <1>3

(* The queues are cleared: they are empty after a join, and abandoned      *)
(* after a handler has ended its own thread.                               *)
LEMMA ResetMaps ==
  ASSUME MInv, Reset
  PROVE  [MB!Next]_(MB!vars)
<1>0. /\ QInv /\ Handled /\ Ending /\ Inv /\ mExit /\ mThread # NoThread /\ mThread \in Workers
      /\ mThread' = NoThread /\ highQueue' = <<>> /\ normalQueue' = <<>>
      /\ ctlpc = "reset" /\ UNCHANGED <<mExit, selfExit, wmsg>>
      /\ status' = [m \in Msgs |-> IF status[m] = "queued" THEN "discarded" ELSE status[m]]
  BY Types DEF MInv, Placed, QInv, IInv, Inv, Lifetime, Reset, loop
<1>1. MailboxPhase' = "closed" /\ MailboxNormal' = <<>>
  BY <1>0 DEF MailboxPhase, MailboxNormal
<1>2. CASE ctlby = mThread
  <2>1. MailboxPhase = "abandoning"
    BY <1>0, <1>2 DEF MailboxPhase
  <2>2. \A m \in Msgs : MailboxFate'[m] = IF MailboxFate[m] = "queued" THEN "discarded" ELSE MailboxFate[m]
    BY <1>0, Types DEF MailboxFate
  <2>3. MailboxFate' = [m \in Msgs |-> IF MailboxFate[m] = "queued" THEN "discarded" ELSE MailboxFate[m]]
    <3>1. MailboxFate' = [m \in Msgs |-> MailboxFate'[m]]
      BY DEF MailboxFate
    <3> QED
      BY <2>2, <3>1
  <2>4. MB!Abandon
    BY <1>0, <1>1, <2>1, <2>3 DEF MB!Abandon
  <2> QED
    BY <2>4 DEF MB!Next
<1>3. CASE ctlby # mThread
  <2>1. MailboxPhase = "closing"
    BY <1>0, <1>3 DEF MailboxPhase
  <2>2. worker[mThread] = "stopped" /\ mThread \notin selfExit
    BY <1>0, <1>3 DEF Ending, Joined
  <2>3. highQueue = <<>> /\ normalQueue = <<>>
    BY <1>0, <2>2 DEF QInv, Drained
  <2>4. \A m \in Msgs : status[m] # "queued"
    <3>1. Len(<<>>) = 0
      OBVIOUS
    <3> QED
      BY <1>0, <2>3, <3>1 DEF QInv, Filed, Holds
  <2>5. MailboxNormal = <<>>
    BY <2>3 DEF MailboxNormal
  <2>6. MailboxFate' = MailboxFate
    BY <1>0, <2>4 DEF MailboxFate
  <2>7. MB!Serving = {}
    <3> SUFFICES ASSUME NEW m \in Msgs, MailboxFate[m] = "invoking" PROVE FALSE
      BY DEF MB!Serving
    <3>1. status[m] = "invoking" /\ ~ \E v \in selfExit : wmsg[v] = m
      BY <1>0, Types DEF MailboxFate
    <3>2. PICK v \in Workers : wmsg[v] = m
      BY <1>0, <3>1 DEF Handled
    <3>3. Live(v)
      BY <1>0, <3>1, <3>2, Types DEF Handled, Live
    <3>4. v = mThread
      BY <1>0, <3>3 DEF Inv, LiveIsHeld
    <3> QED
      BY <2>2, <3>3, <3>4 DEF Live
  <2>8. MB!Drained
    BY <1>0, <1>1, <2>1, <2>3, <2>5, <2>6, <2>7 DEF MB!Drained
  <2> QED
    BY <2>8 DEF MB!Next
<1> QED
  BY <1>2, <1>3

LEMMA NextMaps == MInv /\ [Next]_vars => [MB!Next]_(MB!vars)
<1> SUFFICES ASSUME MInv, [Next]_vars PROVE [MB!Next]_(MB!vars)
  OBVIOUS
<1>0. QInv /\ Inv /\ Ending
  BY DEF MInv, QInv, IInv
<1>1. ASSUME UNCHANGED <<mExit, queues, selfExit, wmsg, status>>, MailboxPhase' = MailboxPhase
      PROVE  [MB!Next]_(MB!vars)
  BY <1>1, MailboxStutters DEF MailboxFate
<1>2. CASE \E w \in Workers : Process(w)
  <2>1. PICK w \in Workers : Process(w)
    BY <1>2
  <2>2. CASE Started(w) \/ HandlerThrows(w)
    BY <1>1, <2>2, PhaseSame DEF Started, HandlerThrows, loop, ctl
  <2> QED
    BY <2>1, <2>2, TakeMaps, FinishMaps DEF Process
<1>3. CASE Lifecycle
  <2>1. CASE Spawn \/ Emplace \/ CreateReturns
    <3>1. UNCHANGED <<mExit, queues, selfExit, wmsg, status>>
      BY <2>1 DEF Spawn, Emplace, CreateReturns, loop
    <3>2. ~mExit
      BY <1>0, <2>1 DEF Spawn, Emplace, CreateReturns, Ending, Accepting
    <3>3. MailboxPhase' = MailboxPhase
      BY <3>1, <3>2 DEF MailboxPhase
    <3> QED
      BY <1>1, <3>1, <3>3
  <2> QED
    BY <1>3, <2>1, CreateThreadMaps, ExitThreadMaps, JoinMaps, ResetMaps DEF Lifecycle
<1>4. CASE UNCHANGED vars
  BY <1>1, <1>4, PhaseSame DEF vars, loop, ctl
<1> QED
  BY <1>2, <1>3, <1>4, DispatchingMaps DEF Next, Rest

(* A worker thread is a mailbox: messages are accepted only while it is    *)
(* open, served one at a time, high priority first and in order, and all   *)
(* of them before it is closed, unless a handler abandons it.              *)
THEOREM MailboxImplemented == Spec => ImplementsMailbox
<1>1. Init => MB!Init
  <2> SUFFICES ASSUME Init PROVE MB!Init
    OBVIOUS
  <2>1. MailboxPhase = "open" /\ MailboxNormal = <<>>
    BY DEF Init, MailboxPhase, MailboxNormal
  <2>2. MailboxFate = [m \in Msgs |-> "new"]
    BY DEF Init, MailboxFate
  <2> QED
    BY <2>1, <2>2 DEF Init, MB!Init
<1> QED
  BY <1>1, NextMaps, AlwaysMInv, PTL DEF Spec, ImplementsMailbox, MB!Spec
=============================================================================
