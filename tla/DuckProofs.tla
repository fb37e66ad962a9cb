----------------------------- MODULE DuckProofs -----------------------------
(***************************************************************************)
(* Theorems about AsyncDuckDB, for every number of threads, workers and    *)
(* calls: its invariants first, then that it implements a SerialEngine.    *)
(* What ThreadProofs proves of a worker is used here of the worker of the  *)
(* proxy, whose variables move by the steps of Thread.                     *)
(***************************************************************************)
EXTENDS AsyncDuckDB, FiniteSetTheorems, SequenceTheorems, TLAPS

TP == INSTANCE ThreadProofs WITH
  Callers <- Callers \cup Controllers,
  Msgs <- Ops, HighMsgs <- {}, MaxQueueSize <- 0, Policies <- {"FAULT"}, policy <- "FAULT"

(* The types of what this module adds to Thread.                           *)
Typed ==
  /\ central \in {"duck", "null"}
  /\ issued \in 0 .. 2 * MaxCalls
  /\ kind \in [Ops -> Kinds \cup {"none"}]
  /\ target \in [Ops -> Ops \cup {NoMsg}]
  /\ pc \in [Threads -> CallStates]
  /\ cur \in [Threads -> Ops \cup {NoMsg}]
  /\ body \in [Ops -> {"none", "ok", "threw"}]
  /\ outcome \in [Ops -> Outcomes]
  /\ place \in [Ops -> {"none", "state", "proxy", "task"}]
  /\ freed \in [Ops -> Threads \cup {NoThread}]
  /\ before \in [Ops -> SUBSET Ops]
  /\ terminated \in BOOLEAN

(* Only controllers end the worker, so that no task ends its own thread.   *)
Controlled == selfExit = {} /\ (ctlpc # "none" => ctlby \in Controllers)

(* Where each thread is, in this module and in Thread: an operation is the *)
(* call of one thread at most, whose dispatch it is.                       *)
Calling ==
  /\ \A t \in Threads : dpc[t] # "out" => pc[t] = "sent" /\ dmsg[t] = cur[t]
  /\ \A t \in Threads : cur[t] # NoMsg <=> pc[t] \in {"load", "dispatch", "sent", "unwind"}
  /\ \A t \in Threads : cur[t] # NoMsg => cur[t] <= issued
  /\ \A t, u \in Threads : cur[t] = cur[u] /\ cur[t] # NoMsg => t = u
  /\ \A t \in Threads : pc[t] \in {"load", "dispatch"} => status[cur[t]] = "new"

(* What is known of an operation, before, while and after it is called.    *)
Recorded ==
  \A m \in Ops :
    /\ m > issued => /\ status[m] = "new" /\ kind[m] = "none" /\ target[m] = NoMsg
                     /\ outcome[m] = "none" /\ before[m] = {}
    /\ m <= issued => kind[m] # "none"
    /\ body[m] # "none" => status[m] \in {"invoking", "done"}
    /\ status[m] = "done" => body[m] # "none"
    /\ status[m] # "discarded"
    /\ m <= issued =>
         (outcome[m] = "none" <=> \E t \in Threads : cur[t] = m /\ pc[t] # "unwind")

(* Where the handles are that an operation opens and works on.             *)
Opened ==
  \A m \in Ops :
    /\ place[m] # "none" <=> body[m] = "ok" /\ kind[m] \in Opens
    /\ \A t \in Threads : cur[t] = m /\ pc[t] # "unwind" => place[m] \in {"none", "state"}
    /\ target[m] # NoMsg => target[m] # m /\ place[target[m]] # "none"
    /\ kind[m] = "close" => target[m] # NoMsg /\ place[target[m]] = "task"
    /\ \A t \in Threads :
         cur[t] = m /\ target[m] # NoMsg /\ kind[m] # "close" => place[target[m]] = "proxy"

(* The operations beyond the application's calls are the destructors of    *)
(* proxies left behind, one for each of them.                              *)
Numbered ==
  /\ \A m \in Ops : kind[m] = "prepare" => m <= MaxCalls
  /\ \A m \in Ops : MaxCalls < m /\ m <= issued =>
       kind[m] = "close" /\ kind[target[m]] = "prepare"
  /\ \A m, n \in Ops : kind[m] = "close" /\ kind[n] = "close" /\ target[m] = target[n] => m = n

Freed ==
  /\ \A h \in Ops : freed[h] # NoThread => place[h] # "none"
  /\ FreedIffUnowned

(* An operation runs after those accepted before its call.                 *)
InOrder ==
  \A n \in Ops : \A m \in before[n] :
    /\ m # n
    /\ status[m] \in {"queued", "invoking", "done"}
    /\ status[n] \in {"invoking", "done"} => status[m] = "done"
    /\ \A i, j \in 1 .. Len(normalQueue) : normalQueue[i] = m /\ normalQueue[j] = n => i < j

OInv == TP!MInv /\ Typed /\ Controlled /\ Calling /\ Recorded /\ Opened /\ Numbered
DInv == OInv /\ Freed /\ InOrder

-----------------------------------------------------------------------------
(* The worker is a Thread.                                                 *)
LEMMA Premises == TP!ThreadAssumption /\ TP!FiniteThreads
BY DuckAssumption, FiniteThreads DEF TP!ThreadAssumption, TP!FiniteThreads, TP!Threads, Threads,
   TP!IsFiniteSet, IsFiniteSet

(* The steps of Thread that the proxy takes are steps of the Thread of     *)
(* which ThreadProofs speaks.                                              *)
LEMMA SameCalls ==
  ASSUME NEW t \in Threads
  PROVE  /\ \A m \in Ops : T!DispatchDelegate(t, m) => TP!DispatchDelegate(t, m)
         /\ T!CheckThread(t) => TP!CheckThread(t)
         /\ T!Lock(t) => TP!Lock(t)
         /\ T!CreateThread(t) => TP!CreateThread(t)
         /\ T!ExitThread(t) => TP!ExitThread(t)
<1>1. \A m \in Ops : T!DispatchDelegate(t, m) => TP!DispatchDelegate(t, m)
  BY DEF T!DispatchDelegate, TP!DispatchDelegate, T!Free, TP!Free, T!InCall, TP!InCall,
     T!Aborted, TP!Aborted, T!calls, TP!calls, T!queues, TP!queues, T!loop, TP!loop, T!ctl, TP!ctl
<1>2. T!CheckThread(t) => TP!CheckThread(t)
  BY DEF T!CheckThread, TP!CheckThread, T!InCall, TP!InCall, T!Return, TP!Return,
     T!Aborted, TP!Aborted, T!calls, TP!calls, T!queues, TP!queues, T!loop, TP!loop, T!ctl, TP!ctl
<1>3. T!Lock(t) => TP!Lock(t)
  BY DEF T!Lock, TP!Lock, T!InCall, TP!InCall, T!Return, TP!Return, T!Enqueue, TP!Enqueue,
     T!Push, TP!Push, T!Full, TP!Full, T!Size, TP!Size, T!MayProceed, TP!MayProceed,
     T!Aborted, TP!Aborted, T!calls, TP!calls, T!queues, TP!queues, T!loop, TP!loop, T!ctl, TP!ctl
<1>4. T!CreateThread(t) => TP!CreateThread(t)
  BY DEF T!CreateThread, TP!CreateThread, T!InControl, TP!InControl, T!Free, TP!Free,
     T!InCall, TP!InCall, T!Aborted, TP!Aborted, T!calls, TP!calls, T!queues, TP!queues,
     T!loop, TP!loop
<1>5. T!ExitThread(t) => TP!ExitThread(t)
  BY DEF T!ExitThread, TP!ExitThread, T!InControl, TP!InControl, T!Free, TP!Free,
     T!InCall, TP!InCall, T!Aborted, TP!Aborted, T!NotifyAll, TP!NotifyAll,
     T!Threads, TP!Threads, T!loop, TP!loop
<1> QED
  BY <1>1, <1>2, <1>3, <1>4, <1>5

LEMMA SameLoop ==
  ASSUME NEW w \in Workers
  PROVE  /\ T!Started(w) => TP!Started(w)
         /\ T!Take(w) => TP!Take(w)
         /\ T!Finish(w) => TP!Finish(w)
<1>1. T!Started(w) => TP!Started(w)
  BY DEF T!Started, TP!Started, T!InLoop, TP!InLoop, T!Aborted, TP!Aborted,
     T!calls, TP!calls, T!queues, TP!queues, T!ctl, TP!ctl
<1>2. T!Take(w) => TP!Take(w)
  BY DEF T!Take, TP!Take, T!InLoop, TP!InLoop, T!Aborted, TP!Aborted, T!Pop, TP!Pop,
     T!NotifyOne, TP!NotifyOne, T!Threads, TP!Threads, T!ctl, TP!ctl
<1>3. T!Finish(w) => TP!Finish(w)
  BY DEF T!Finish, TP!Finish, T!InLoop, TP!InLoop, T!Free, TP!Free, T!InCall, TP!InCall,
     T!Aborted, TP!Aborted, T!calls, TP!calls, T!queues, TP!queues, T!ctl, TP!ctl
<1> QED
  BY <1>1, <1>2, <1>3

LEMMA SameLifecycle ==
  /\ T!Spawn => TP!Spawn
  /\ T!Emplace => TP!Emplace
  /\ T!CreateReturns => TP!CreateReturns
  /\ T!Join => TP!Join
  /\ T!Reset => TP!Reset
<1>1. T!Spawn => TP!Spawn
  BY DEF T!Spawn, TP!Spawn, T!InControl, TP!InControl, T!Aborted, TP!Aborted,
     T!calls, TP!calls, T!queues, TP!queues
<1>2. T!Emplace => TP!Emplace
  BY DEF T!Emplace, TP!Emplace, T!InControl, TP!InControl, T!Aborted, TP!Aborted,
     T!calls, TP!calls, T!queues, TP!queues, T!loop, TP!loop
<1>3. T!CreateReturns => TP!CreateReturns
  BY DEF T!CreateReturns, TP!CreateReturns, T!InControl, TP!InControl, T!Aborted, TP!Aborted,
     T!calls, TP!calls, T!queues, TP!queues, T!loop, TP!loop
<1>4. T!Join => TP!Join
  BY DEF T!Join, TP!Join, T!InControl, TP!InControl, T!Aborted, TP!Aborted,
     T!calls, TP!calls, T!queues, TP!queues
<1>5. T!Reset => TP!Reset
  BY DEF T!Reset, TP!Reset, T!InControl, TP!InControl, T!Aborted, TP!Aborted,
     T!NotifyAll, TP!NotifyAll, T!Threads, TP!Threads, T!loop, TP!loop
<1> QED
  BY <1>1, <1>2, <1>3, <1>4, <1>5

LEMMA InitThread == Init => TP!Init
BY DEF Init, T!Init, TP!Init, T!Threads, TP!Threads

(* The steps of the proxy that are not the worker's.                       *)
Own(t) ==
  \/ OpenDatabase(t) \/ (\E h \in Ops, k \in AppKinds : Use(t, k, h)) \/ (\E h \in Ops : Destroy(t, h))
  \/ LoadCentral(t) \/ DispatchThrows(t) \/ ReturnAtOnce(t) \/ SyncDone(t) \/ SyncTimeout(t)
  \/ Unwind(t) \/ UnwindLast(t) \/ InitStore(t) \/ ShutdownStore(t)
  \/ (t \in Workers /\ (RunTask(t) \/ FinishLast(t)))

LEMMA OwnLeavesThread ==
  ASSUME NEW t \in Threads, Own(t)
  PROVE  UNCHANGED threadVars
BY DEF Own, OpenDatabase, Use, Destroy, LoadCentral, DispatchThrows, ReturnAtOnce, SyncDone,
   SyncTimeout, Unwind, UnwindLast, InitStore, ShutdownStore, RunTask, FinishLast

(* Every step of the proxy is one of these.                                *)
LEMMA Steps ==
  ASSUME [Next]_vars
  PROVE  \/ \E t \in Threads : Own(t)
         \/ \E t \in Threads : Dispatch(t)
         \/ \E w \in Workers : Take(w) \/ Finish(w)
         \/ \E t \in Controllers : InitWorker(t) \/ ShutdownWorker(t)
         \/ ThreadStep
         \/ UNCHANGED vars
BY DEF Next, Own, Call, Proceed, Work, Rest, Threads

LEMMA ThreadMoves ==
  ASSUME OInv, [Next]_vars
  PROVE  [TP!Next]_(TP!vars)
<1>1. UNCHANGED threadVars => UNCHANGED TP!vars
  BY DEF threadVars, TP!vars, TP!queues, TP!loop, TP!calls, TP!ctl
<1>2. TP!Threads = Threads
  BY DEF TP!Threads, Threads
<1>3. CASE \E t \in Threads : Own(t)
  BY <1>1, <1>3, OwnLeavesThread
<1>4. CASE \E t \in Threads : Dispatch(t)
  <2>1. PICK t \in Threads : T!DispatchDelegate(t, cur[t]) /\ pc[t] = "dispatch"
    BY <1>4 DEF Dispatch, At
  <2>2. cur[t] \in Ops
    BY <2>1 DEF OInv, Typed, Calling
  <2> QED
    BY <1>2, <2>1, <2>2, SameCalls DEF TP!Next, TP!Dispatching
<1>5. CASE \E w \in Workers : Take(w) \/ Finish(w)
  BY <1>5, SameLoop DEF Take, Finish, TP!Next, TP!Process
<1>6. CASE \E t \in Controllers : InitWorker(t) \/ ShutdownWorker(t)
  <2>1. PICK t \in Controllers : InitWorker(t) \/ ShutdownWorker(t)
    BY <1>6
  <2>2. t \in Threads
    BY DEF Threads
  <2> QED
    BY <1>1, <1>2, <2>1, <2>2, SameCalls DEF InitWorker, ShutdownWorker, TP!Next, TP!Lifecycle
<1>7. CASE ThreadStep
  BY <1>2, <1>7, SameCalls, SameLoop, SameLifecycle
  DEF ThreadStep, TP!Next, TP!Dispatching, TP!Process, TP!Lifecycle
<1>8. CASE UNCHANGED vars
  BY <1>1, <1>8 DEF vars
<1> QED
  BY <1>3, <1>4, <1>5, <1>6, <1>7, <1>8, Steps

(* So the worker keeps the invariant of ThreadProofs.                      *)
LEMMA WorkerKept ==
  ASSUME OInv, [Next]_vars
  PROVE  TP!MInv'
<1>1. TP!QInv /\ TP!MInv /\ [TP!Next]_(TP!vars)
  BY ThreadMoves DEF OInv, TP!MInv
<1>2. TP!QInv'
  BY <1>1, Premises, TP!QInvInductive
<1>3. TP!Placed'
  BY <1>1, Premises, TP!PlacedKept
<1> QED
  BY <1>2, <1>3 DEF TP!MInv

(* What it says of a worker with an unlimited queue, without priorities,   *)
(* whose tasks never end it.                                               *)
LEMMA WorkerTypes ==
  ASSUME TP!MInv
  PROVE  /\ normalQueue \in Seq(Ops \cup {ExitMsg}) /\ highQueue = <<>>
         /\ worker \in [Workers -> TP!WorkerStates] /\ wmsg \in [Workers -> Ops \cup {NoMsg}]
         /\ dpc \in [Threads -> TP!CallStates] /\ dmsg \in [Threads -> Ops \cup {NoMsg}]
         /\ status \in [Ops -> TP!Fates] /\ selfExit \in SUBSET Workers
         /\ mThread \in Workers \cup {NoThread}
         /\ \A t \in Threads : dpc[t] # "out" =>
              /\ dmsg[t] \in Ops /\ status[dmsg[t]] = "calling"
              /\ \A u \in Threads : dpc[u] # "out" /\ dmsg[u] = dmsg[t] => u = t
<1>1. TP!Threads = Threads
  BY DEF TP!Threads, Threads
<1>2. highQueue = <<>>
  <2>1. highQueue \in Seq(Ops) /\ \A m \in Ops : ~TP!Holds(highQueue, m)
    BY DEF TP!MInv, TP!QInv, TP!IInv, TP!TypeOK, TP!Placed, TP!Listed
  <2>2. ASSUME highQueue # <<>> PROVE FALSE
    <3>1. Len(highQueue) \in Nat \ {0} /\ highQueue[1] \in Ops
      BY <2>1, <2>2
    <3>2. 1 \in 1 .. Len(highQueue)
      BY <3>1
    <3> QED
      BY <2>1, <3>1, <3>2 DEF TP!Holds
  <2> QED
    BY <2>2
<1>3. /\ normalQueue \in Seq(Ops \cup {ExitMsg})
      /\ worker \in [Workers -> TP!WorkerStates] /\ wmsg \in [Workers -> Ops \cup {NoMsg}]
      /\ dpc \in [Threads -> TP!CallStates] /\ dmsg \in [Threads -> Ops \cup {NoMsg}]
      /\ status \in [Ops -> TP!Fates] /\ selfExit \in SUBSET Workers
      /\ mThread \in Workers \cup {NoThread}
  BY <1>1 DEF TP!MInv, TP!QInv, TP!IInv, TP!TypeOK
<1>4. \A t \in Threads : dpc[t] # "out" =>
        /\ dmsg[t] \in Ops /\ status[dmsg[t]] = "calling"
        /\ \A u \in Threads : dpc[u] # "out" /\ dmsg[u] = dmsg[t] => u = t
  BY <1>1 DEF TP!MInv, TP!QInv, TP!IInv, TP!Dispatches, TP!Placed, TP!Carried
<1> QED
  BY <1>2, <1>3, <1>4

LEMMA WorkerServes ==
  ASSUME TP!MInv
  PROVE  /\ \A w \in Workers :
              IF worker[w] = "invoking" THEN wmsg[w] \in Ops /\ status[wmsg[w]] = "invoking"
              ELSE wmsg[w] = NoMsg
         /\ \A m \in Ops : status[m] = "invoking" => \E w \in Workers : wmsg[w] = m
         /\ \A m \in Ops : status[m] = "queued" <=>
              \E i \in 1 .. Len(normalQueue) : normalQueue[i] = m
         /\ \A i, j \in 1 .. Len(normalQueue) : normalQueue[i] = normalQueue[j] => i = j
         /\ selfExit = {} => \A v, w \in Workers :
              worker[v] \in {"starting", "idle", "invoking"}
                /\ worker[w] \in {"starting", "idle", "invoking"} => v = w
<1>1. highQueue = <<>> /\ Len(<<>>) = 0
  BY WorkerTypes
<1>2. TP!Handled /\ TP!Listed /\ TP!Filed /\ TP!SingleLive
  BY DEF TP!MInv, TP!Placed, TP!QInv, TP!IInv, TP!Inv
<1>3. \A m \in Ops : status[m] = "queued" <=> TP!Holds(normalQueue, m)
  BY <1>1, <1>2 DEF TP!Listed, TP!Filed, TP!Holds
<1> QED
  BY <1>2, <1>3 DEF TP!Handled, TP!Listed, TP!Once, TP!Holds, TP!SingleLive, TP!Live

-----------------------------------------------------------------------------
(* The steps of the worker and of the lifecycle: calls under way go on,    *)
(* and no operation is done, begun or forgotten by them.                   *)
Elsewhere == {"app", "init", "shutdown"}

Calm ==
  /\ UNCHANGED <<opVars, cur, body, outcome, place>>
  /\ \A t \in Threads : pc'[t] = pc[t] \/ (pc[t] \in Elsewhere /\ pc'[t] \in Elsewhere)
  /\ \A t \in Threads : dpc'[t] # "out" => dpc[t] # "out" /\ dmsg'[t] = dmsg[t]
  /\ \A m \in Ops :
       \/ status'[m] = status[m]
       \/ /\ status[m] \in {"calling", "queued"}
          /\ status'[m] \in {"threw", "refused", "queued", "invoking"}

Known == Calling /\ Recorded /\ Opened /\ Numbered

LEMMA KnownCalm ==
  ASSUME Typed, Known, Calm
  PROVE  Known'
<1>0. Calling /\ Recorded /\ Opened /\ Numbered /\ UNCHANGED <<issued, kind, target, before>>
  BY DEF Known, Calm, opVars
<1>1. \A t \in Threads : pc'[t] = pc[t] \/ (pc[t] \in Elsewhere /\ pc'[t] \in Elsewhere)
  BY DEF Calm
<1>2. Calling'
  <2>1. \A t \in Threads : dpc'[t] # "out" => pc'[t] = "sent" /\ dmsg'[t] = cur'[t]
    BY <1>0, <1>1 DEF Calm, Calling, Elsewhere
  <2>2. \A t \in Threads : cur'[t] # NoMsg <=> pc'[t] \in {"load", "dispatch", "sent", "unwind"}
    BY <1>0, <1>1 DEF Calm, Calling, Elsewhere
  <2>3. \A t \in Threads : pc'[t] \in {"load", "dispatch"} => status'[cur'[t]] = "new"
    <3> SUFFICES ASSUME NEW t \in Threads, pc'[t] \in {"load", "dispatch"} PROVE status'[cur'[t]] = "new"
      OBVIOUS
    <3>1. pc[t] \in {"load", "dispatch"} /\ cur[t] # NoMsg /\ cur' = cur
      BY <1>0, <1>1 DEF Calm, Calling, Elsewhere
    <3>2. status[cur[t]] = "new" /\ cur[t] \in Ops
      BY <1>0, <3>1 DEF Calling, Typed
    <3> QED
      BY <3>1, <3>2 DEF Calm
  <2> QED
    BY <1>0, <2>1, <2>2, <2>3 DEF Calm, Calling
<1>3. Recorded'
  <2> SUFFICES ASSUME NEW m \in Ops
               PROVE  /\ m > issued => /\ status'[m] = "new" /\ kind[m] = "none" /\ target[m] = NoMsg
                                       /\ outcome[m] = "none" /\ before[m] = {}
                      /\ m <= issued => kind[m] # "none"
                      /\ body[m] # "none" => status'[m] \in {"invoking", "done"}
                      /\ status'[m] = "done" => body[m] # "none"
                      /\ status'[m] # "discarded"
                      /\ m <= issued =>
                          (outcome[m] = "none" <=> \E t \in Threads : cur[t] = m /\ pc'[t] # "unwind")
    BY <1>0 DEF Recorded, Calm
  <2>1. \/ status'[m] = status[m]
        \/ /\ status[m] \in {"calling", "queued"}
           /\ status'[m] \in {"threw", "refused", "queued", "invoking"}
    BY DEF Calm
  <2>2. \A t \in Threads : pc'[t] = "unwind" <=> pc[t] = "unwind"
    BY <1>1 DEF Elsewhere
  <2> QED
    BY <1>0, <2>1, <2>2 DEF Recorded
<1>4. Opened'
  <2>1. \A t \in Threads : pc'[t] = "unwind" <=> pc[t] = "unwind"
    BY <1>1 DEF Elsewhere
  <2> QED
    BY <1>0, <2>1 DEF Opened, Calm
<1>5. Numbered'
  BY <1>0 DEF Numbered
<1> QED
  BY <1>2, <1>3, <1>4, <1>5 DEF Known

(* A step after which the same tasks are alive frees nothing.              *)
LEMMA FreedFrame ==
  ASSUME Freed, UNCHANGED <<freed, place, target>>, \A m \in Ops : TaskAlive(m)' <=> TaskAlive(m)
  PROVE  Freed'
<1>1. \A h \in Ops : Held(h)' <=> Held(h)
  BY DEF Held
<1> QED
  BY <1>1 DEF Freed, FreedIffUnowned

(* The order is kept by a step that leaves the messages where they are     *)
(* but for those that were never accepted.                                 *)
LEMMA InOrderFrame ==
  ASSUME Typed, InOrder, UNCHANGED before,
         \A m \in Ops :
           \/ status'[m] = status[m]
           \/ status[m] \notin {"queued", "invoking", "done"} /\ status'[m] \notin {"queued", "invoking", "done"},
         \A i \in 1 .. Len(normalQueue') : normalQueue'[i] \in Ops =>
           i \in 1 .. Len(normalQueue) /\ normalQueue[i] = normalQueue'[i]
  PROVE  InOrder'
<1> SUFFICES ASSUME NEW n \in Ops, NEW m \in before[n]
             PROVE  /\ m # n
                    /\ status'[m] \in {"queued", "invoking", "done"}
                    /\ status'[n] \in {"invoking", "done"} => status'[m] = "done"
                    /\ \A i, j \in 1 .. Len(normalQueue') :
                         normalQueue'[i] = m /\ normalQueue'[j] = n => i < j
  BY DEF InOrder
<1>0. m \in Ops
  BY DEF Typed
<1>1. /\ m # n
      /\ status[m] \in {"queued", "invoking", "done"}
      /\ status[n] \in {"invoking", "done"} => status[m] = "done"
      /\ \A i, j \in 1 .. Len(normalQueue) : normalQueue[i] = m /\ normalQueue[j] = n => i < j
  BY DEF InOrder
<1>2. status'[m] = status[m]
  BY <1>0, <1>1
<1>3. \A i, j \in 1 .. Len(normalQueue') : normalQueue'[i] = m /\ normalQueue'[j] = n => i < j
  BY <1>0, <1>1
<1> QED
  BY <1>1, <1>2, <1>3

-----------------------------------------------------------------------------
Proxy == Typed /\ Controlled /\ Known /\ Freed /\ InOrder

LEMMA Split == DInv <=> TP!MInv /\ Proxy
BY DEF DInv, OInv, Proxy, Known

(* A dispatch under way is that of the operation called.                   *)
LEMMA DispatchOfCall ==
  ASSUME TP!MInv, Proxy, NEW t \in Threads, dpc[t] # "out"
  PROVE  dmsg[t] = cur[t] /\ cur[t] \in Ops /\ status[cur[t]] = "calling"
<1>1. dmsg[t] = cur[t]
  BY DEF Proxy, Known, Calling
<1> QED
  BY <1>1, WorkerTypes

(* DispatchDelegate returns without having queued the message.             *)
LEMMA ReturnKept ==
  ASSUME DInv, NEW t \in Threads, dpc[t] # "out", NEW fate \in {"refused", "threw"},
         dpc' = [dpc EXCEPT ![t] = "out"], dmsg' = [dmsg EXCEPT ![t] = NoMsg],
         status' = [status EXCEPT ![dmsg[t]] = fate],
         UNCHANGED <<central, opVars, callVars, body, outcome, place, freed, terminated>>,
         UNCHANGED <<normalQueue, selfExit, ctlpc, ctlby>>
  PROVE  Proxy'
<1>0. TP!MInv /\ Proxy /\ Typed /\ Known /\ Freed /\ InOrder
  BY Split DEF Proxy
<1>1. /\ dmsg[t] = cur[t] /\ cur[t] \in Ops /\ status[cur[t]] = "calling"
      /\ status \in [Ops -> TP!Fates] /\ dpc \in [Threads -> TP!CallStates]
  BY <1>0, DispatchOfCall, WorkerTypes
<1>2. Typed' /\ Controlled'
  BY <1>0 DEF Proxy, Typed, Controlled, opVars, callVars
<1>3. Calm
  BY <1>1 DEF Calm, callVars
<1>4. Known'
  BY <1>0, <1>3, KnownCalm
<1>5. \A m \in Ops : TaskAlive(m)' <=> TaskAlive(m)
  BY <1>1 DEF TaskAlive, CallerHolds, MsgHolds, callVars
<1>6. Freed'
  BY <1>0, <1>5, FreedFrame DEF opVars
<1>7. InOrder'
  BY <1>0, <1>1, InOrderFrame DEF opVars
<1> QED
  BY <1>2, <1>4, <1>6, <1>7 DEF Proxy

(* A step that changes no message, such as those of CreateThread and of    *)
(* ExitThread, which may leave its exit message in the queue.              *)
LEMMA StillKept ==
  ASSUME DInv, Controlled',
         central' \in {"duck", "null"},
         UNCHANGED <<opVars, cur, body, outcome, place, freed, terminated, status, dmsg>>,
         pc' \in [Threads -> CallStates],
         \A t \in Threads : pc'[t] = pc[t] \/ (pc[t] \in Elsewhere /\ pc'[t] \in Elsewhere),
         \A t \in Threads : dpc'[t] # "out" => dpc[t] # "out",
         \A i \in 1 .. Len(normalQueue') : normalQueue'[i] \in Ops =>
           i \in 1 .. Len(normalQueue) /\ normalQueue[i] = normalQueue'[i]
  PROVE  Proxy'
<1>0. Typed /\ Known /\ Freed /\ InOrder
  BY Split DEF Proxy
<1>1. Typed'
  BY <1>0 DEF Typed, opVars
<1>2. Known'
  BY <1>0, KnownCalm DEF Calm
<1>3. Freed'
  BY <1>0, FreedFrame DEF TaskAlive, CallerHolds, MsgHolds, opVars
<1>4. InOrder'
  BY <1>0, InOrderFrame DEF opVars
<1> QED
  BY <1>1, <1>2, <1>3, <1>4 DEF Proxy

(* DispatchDelegate queues the message, behind all that is accepted.       *)
LEMMA PushKept ==
  ASSUME DInv, NEW t \in Threads, dpc[t] # "out",
         dpc' = [dpc EXCEPT ![t] = "out"], dmsg' = [dmsg EXCEPT ![t] = NoMsg],
         status' = [status EXCEPT ![dmsg[t]] = "queued"],
         normalQueue' = Append(normalQueue, dmsg[t]),
         UNCHANGED <<central, opVars, callVars, body, outcome, place, freed, terminated>>,
         UNCHANGED <<selfExit, ctlpc, ctlby>>
  PROVE  Proxy'
<1>0. TP!MInv /\ Proxy /\ Typed /\ Known /\ Freed /\ InOrder
  BY Split DEF Proxy
<1>1. /\ dmsg[t] = cur[t] /\ cur[t] \in Ops /\ status[cur[t]] = "calling"
      /\ status \in [Ops -> TP!Fates] /\ dpc \in [Threads -> TP!CallStates]
      /\ normalQueue \in Seq(Ops \cup {ExitMsg})
  BY <1>0, DispatchOfCall, WorkerTypes
<1>2. Typed' /\ Controlled'
  BY <1>0 DEF Proxy, Typed, Controlled, opVars, callVars
<1>3. Known'
  BY <1>0, <1>1, KnownCalm DEF Calm, callVars
<1>4. \A m \in Ops : TaskAlive(m)' <=> TaskAlive(m)
  BY <1>1 DEF TaskAlive, CallerHolds, MsgHolds, callVars
<1>5. Freed'
  BY <1>0, <1>4, FreedFrame DEF opVars
<1>6. /\ Len(normalQueue') = Len(normalQueue) + 1 /\ Len(normalQueue) \in Nat
      /\ normalQueue'[Len(normalQueue) + 1] = cur[t]
      /\ \A i \in 1 .. Len(normalQueue) : normalQueue'[i] = normalQueue[i]
      /\ \A i \in 1 .. Len(normalQueue') : i \in 1 .. Len(normalQueue) \/ i = Len(normalQueue) + 1
  BY <1>1
<1>7. InOrder'
  <2> SUFFICES ASSUME NEW n \in Ops, NEW m \in before[n]
               PROVE  /\ m # n
                      /\ status'[m] \in {"queued", "invoking", "done"}
                      /\ status'[n] \in {"invoking", "done"} => status'[m] = "done"
                      /\ \A i, j \in 1 .. Len(normalQueue') :
                           normalQueue'[i] = m /\ normalQueue'[j] = n => i < j
    BY DEF InOrder, opVars
  <2>0. m \in Ops
    BY <1>0 DEF Typed
  <2>1. /\ m # n
        /\ status[m] \in {"queued", "invoking", "done"}
        /\ status[n] \in {"invoking", "done"} => status[m] = "done"
        /\ \A i, j \in 1 .. Len(normalQueue) : normalQueue[i] = m /\ normalQueue[j] = n => i < j
    BY <1>0 DEF InOrder
  <2>2. m # cur[t] /\ status'[m] = status[m]
    BY <1>1, <2>0, <2>1
  <2>3. \A i, j \in 1 .. Len(normalQueue') : normalQueue'[i] = m /\ normalQueue'[j] = n => i < j
    <3> SUFFICES ASSUME NEW i \in 1 .. Len(normalQueue'), NEW j \in 1 .. Len(normalQueue'),
                        normalQueue'[i] = m, normalQueue'[j] = n
                 PROVE  i < j
      OBVIOUS
    <3>1. i \in 1 .. Len(normalQueue) /\ normalQueue[i] = m
      BY <1>6, <2>2
    <3>2. CASE j = Len(normalQueue) + 1
      BY <1>6, <3>1, <3>2
    <3>3. CASE j \in 1 .. Len(normalQueue)
      BY <1>6, <2>1, <3>1, <3>3
    <3> QED
      BY <1>6, <3>2, <3>3
  <2>4. status'[n] \in {"invoking", "done"} => status'[m] = "done"
    BY <1>1, <2>1, <2>2
  <2> QED
    BY <2>1, <2>2, <2>3, <2>4
<1> QED
  BY <1>2, <1>3, <1>5, <1>7 DEF Proxy

(* The loop takes the first message: the operations accepted before it are *)
(* all done.                                                               *)
LEMMA TakeKept ==
  ASSUME DInv, NEW w \in Workers, Take(w)
  PROVE  Proxy'
<1>0. /\ TP!MInv /\ Proxy /\ Typed /\ Known /\ Freed /\ InOrder /\ Controlled
      /\ UNCHANGED <<central, opVars, callVars, body, outcome, place, freed, terminated>>
      /\ UNCHANGED <<dpc, dmsg, selfExit, ctlpc, ctlby>>
      /\ worker[w] = "idle"
  BY Split DEF Proxy, Take, T!Take, T!InLoop, T!ctl
<1>1. /\ normalQueue \in Seq(Ops \cup {ExitMsg}) /\ highQueue = <<>>
      /\ status \in [Ops -> TP!Fates] /\ worker \in [Workers -> TP!WorkerStates]
      /\ ExitMsg \notin Ops
  BY <1>0, WorkerTypes, DuckAssumption
<1>2. PICK m \in Ops \cup {ExitMsg} :
        /\ normalQueue # <<>> /\ m = Head(normalQueue) /\ normalQueue' = Tail(normalQueue)
        /\ m = ExitMsg => UNCHANGED status
        /\ m # ExitMsg => status' = [status EXCEPT ![m] = "invoking"]
  BY <1>1 DEF Take, T!Take, T!Pop
<1>3. /\ Len(normalQueue) \in Nat \ {0} /\ Len(normalQueue') = Len(normalQueue) - 1
      /\ m = normalQueue[1] /\ 1 \in 1 .. Len(normalQueue)
      /\ \A i \in 1 .. Len(normalQueue') : i + 1 \in 1 .. Len(normalQueue) /\ normalQueue'[i] = normalQueue[i + 1]
  <2>1. /\ Len(normalQueue) \in Nat \ {0} /\ Len(normalQueue') = Len(normalQueue) - 1
        /\ m = normalQueue[1]
    BY <1>1, <1>2
  <2>2. \A i \in 1 .. Len(normalQueue) - 1 : Tail(normalQueue)[i] = normalQueue[i + 1]
    BY <1>1, <1>2
  <2> QED
    BY <1>2, <2>1, <2>2
<1>4. Typed' /\ Controlled'
  BY <1>0 DEF Typed, Controlled, opVars, callVars
<1>5. m \in Ops => status[m] = "queued"
  BY <1>0, <1>3, WorkerServes
<1>6. \A n \in Ops : n # m => status'[n] = status[n]
  BY <1>1, <1>2
<1>7. m \in Ops => status'[m] = "invoking"
  BY <1>1, <1>2
<1>8. Known'
  BY <1>0, <1>5, <1>6, <1>7, KnownCalm DEF Calm, callVars
<1>9. Freed'
  <2>1. \A n \in Ops : TaskAlive(n)' <=> TaskAlive(n)
    BY <1>0, <1>5, <1>6, <1>7 DEF TaskAlive, CallerHolds, MsgHolds, callVars
  <2> QED
    BY <1>0, <2>1, FreedFrame DEF opVars
<1>10. InOrder'
  <2> SUFFICES ASSUME NEW n \in Ops, NEW k \in before[n]
               PROVE  /\ k # n
                      /\ status'[k] \in {"queued", "invoking", "done"}
                      /\ status'[n] \in {"invoking", "done"} => status'[k] = "done"
                      /\ \A i, j \in 1 .. Len(normalQueue') :
                           normalQueue'[i] = k /\ normalQueue'[j] = n => i < j
    BY <1>0 DEF InOrder, opVars
  <2>0. k \in Ops
    BY <1>0 DEF Typed
  <2>1. /\ k # n
        /\ status[k] \in {"queued", "invoking", "done"}
        /\ status[n] \in {"invoking", "done"} => status[k] = "done"
        /\ \A i, j \in 1 .. Len(normalQueue) : normalQueue[i] = k /\ normalQueue[j] = n => i < j
    BY <1>0 DEF InOrder
  <2>2. status'[k] \in {"queued", "invoking", "done"}
    BY <1>6, <1>7, <2>0, <2>1
  <2>3. \A i, j \in 1 .. Len(normalQueue') : normalQueue'[i] = k /\ normalQueue'[j] = n => i < j
    <3> SUFFICES ASSUME NEW i \in 1 .. Len(normalQueue'), NEW j \in 1 .. Len(normalQueue'),
                        normalQueue'[i] = k, normalQueue'[j] = n
                 PROVE  i < j
      OBVIOUS
    <3>1. i + 1 < j + 1
      BY <1>3, <2>1
    <3> QED
      BY <3>1
  <2>4. status'[n] \in {"invoking", "done"} => status'[k] = "done"
    <3>1. CASE n = m
      <4>1. status[k] # "queued"
        <5> SUFFICES ASSUME status[k] = "queued" PROVE FALSE
          OBVIOUS
        <5>1. PICK i \in 1 .. Len(normalQueue) : normalQueue[i] = k
          BY <1>0, <2>0, WorkerServes
        <5>2. i < 1
          BY <1>3, <2>1, <3>1, <5>1
        <5> QED
          BY <5>2
      <4>2. status[k] # "invoking"
        <5> SUFFICES ASSUME status[k] = "invoking" PROVE FALSE
          OBVIOUS
        <5>1. PICK v \in Workers : wmsg[v] = k
          BY <1>0, <2>0, WorkerServes
        <5>2. worker[v] = "invoking"
          BY <1>0, <2>0, <5>1, WorkerServes, DuckAssumption
        <5>3. v = w
          BY <1>0, <5>2, WorkerServes DEF Controlled
        <5> QED
          BY <1>0, <5>2, <5>3
      <4> QED
        BY <1>6, <2>0, <2>1, <3>1, <4>1, <4>2
    <3>2. CASE n # m
      BY <1>5, <1>6, <2>0, <2>1, <3>2
    <3> QED
      BY <3>1, <3>2
  <2> QED
    BY <2>1, <2>2, <2>3, <2>4
<1> QED
  BY <1>4, <1>8, <1>9, <1>10 DEF Proxy

(* The queues that Reset clears are empty.                                 *)
LEMMA ResetFindsNothing ==
  ASSUME DInv, T!Reset
  PROVE  normalQueue = <<>>
<1>0. TP!MInv /\ Controlled /\ ctlpc = "reset"
  BY Split DEF Proxy, T!Reset, T!InControl
<1>1. mThread \in Workers /\ worker[mThread] = "stopped"
  BY <1>0, WorkerTypes, DuckAssumption DEF Controlled, Threads, TP!MInv, TP!QInv, TP!IInv, TP!Inv, TP!Lifetime,
     TP!Ending, TP!Joined
<1> QED
  BY <1>0, <1>1, DuckAssumption DEF Controlled, Threads, TP!MInv, TP!QInv, TP!Drained

LEMMA ResetClears ==
  ASSUME DInv, T!Reset
  PROVE  UNCHANGED status
<1>1. TP!MInv /\ status \in [Ops -> TP!Fates]
  BY Split, WorkerTypes DEF Proxy
<1>2. \A m \in Ops : status[m] # "queued"
  BY <1>1, ResetFindsNothing, WorkerServes
<1> QED
  BY <1>1, <1>2 DEF T!Reset

LEMMA ThreadStepKept ==
  ASSUME DInv, ThreadStep
  PROVE  Proxy'
<1>0. /\ TP!MInv /\ Proxy /\ Typed /\ Controlled
      /\ UNCHANGED <<central, opVars, callVars, body, outcome, place, freed, terminated>>
      /\ central' \in {"duck", "null"}
      /\ UNCHANGED <<pc, cur>> /\ pc \in [Threads -> CallStates]
      /\ dpc \in [Threads -> TP!CallStates] /\ ExitMsg \notin Ops
      /\ status \in [Ops -> TP!Fates] /\ normalQueue \in Seq(Ops \cup {ExitMsg})
      /\ mThread \in Workers \cup {NoThread}
  BY Split, WorkerTypes, DuckAssumption DEF Proxy, Typed, ThreadStep, callVars
<1>1. CASE \E t \in Threads : T!CheckThread(t)
  <2>1. PICK t \in Threads : T!CheckThread(t)
    BY <1>1
  <2>2. dpc[t] # "out" /\ UNCHANGED <<normalQueue, selfExit, ctlpc, ctlby>>
    BY <2>1 DEF T!CheckThread, T!InCall, T!queues, T!loop, T!ctl
  <2>3. CASE T!Return(t, "threw")
    BY <1>0, <2>2, <2>3, ReturnKept DEF T!Return
  <2>4. CASE dpc' = [dpc EXCEPT ![t] = "lock"] /\ UNCHANGED <<dmsg, status>>
    BY <1>0, <2>2, <2>4, StillKept DEF Controlled
  <2> QED
    BY <2>1, <2>3, <2>4 DEF T!CheckThread
<1>2. CASE \E t \in Threads : T!Lock(t)
  <2>1. PICK t \in Threads : T!Lock(t)
    BY <1>2
  <2>2. dpc[t] # "out" /\ T!Enqueue(t) /\ UNCHANGED <<selfExit, ctlpc, ctlby>>
    BY <2>1 DEF T!Lock, T!InCall, T!loop, T!ctl, T!Full, T!MayProceed
  <2>3. CASE T!Return(t, "refused") /\ UNCHANGED T!queues
    BY <1>0, <2>2, <2>3, ReturnKept DEF T!Return, T!queues
  <2>4. CASE T!Push(t)
    BY <1>0, <2>2, <2>4, PushKept DEF T!Push, T!Return
  <2> QED
    BY <2>2, <2>3, <2>4 DEF T!Enqueue
<1>3. CASE (\E w \in Workers : T!Started(w)) \/ T!Spawn \/ T!Emplace \/ T!CreateReturns
  <2>1. UNCHANGED <<status, dpc, dmsg, normalQueue, selfExit>> /\ Controlled'
    BY <1>0, <1>3 DEF Controlled, T!Started, T!Spawn, T!Emplace, T!CreateReturns,
       T!calls, T!queues, T!loop, T!ctl, T!InControl
  <2> QED
    BY <1>0, <2>1, StillKept
<1>4. CASE T!Join
  <2>1. ctlby \in Controllers /\ mThread # ctlby
    BY <1>0, <1>4, DuckAssumption DEF Controlled, Threads, T!Join, T!InControl
  <2>2. UNCHANGED <<status, dpc, dmsg, normalQueue, selfExit, ctlby>> /\ Controlled'
    BY <1>0, <1>4, <2>1 DEF Controlled, T!Join, T!calls, T!queues
  <2> QED
    BY <1>0, <2>2, StillKept
<1>5. CASE T!Reset
  <2>1. UNCHANGED <<status, dmsg, selfExit>> /\ Controlled' /\ normalQueue' = <<>>
    BY <1>0, <1>5, ResetClears DEF Controlled, T!Reset, T!loop
  <2>2. \A t \in Threads : dpc'[t] # "out" => dpc[t] # "out"
    BY <1>5 DEF T!Reset, T!NotifyAll, T!Threads, Threads
  <2>3. \A i \in 1 .. Len(normalQueue') : FALSE
    BY <2>1
  <2> QED
    BY <1>0, <2>1, <2>2, <2>3, StillKept
<1> QED
  BY <1>1, <1>2, <1>3, <1>4, <1>5 DEF ThreadStep

(* DispatchDelegate begins: refused at once, or under way.                 *)
LEMMA DispatchKept ==
  ASSUME DInv, NEW t \in Threads, Dispatch(t)
  PROVE  Proxy'
<1>0. /\ TP!MInv /\ Proxy /\ Typed /\ Known /\ Calling /\ Recorded /\ Opened /\ Freed /\ InOrder
      /\ UNCHANGED <<central, opVars, cur, body, outcome, place, freed, terminated>>
      /\ UNCHANGED <<normalQueue, selfExit, ctlpc, ctlby>>
      /\ UNCHANGED <<issued, kind, target, before>>
      /\ status \in [Ops -> TP!Fates] /\ dpc \in [Threads -> TP!CallStates]
      /\ dmsg \in [Threads -> Ops \cup {NoMsg}]
      /\ pc \in [Threads -> CallStates] /\ cur \in [Threads -> Ops \cup {NoMsg}]
  BY Split, WorkerTypes DEF Proxy, Typed, Known, Dispatch, T!DispatchDelegate, T!queues, T!loop, T!ctl, opVars
<1>1. /\ pc[t] = "dispatch" /\ pc' = [pc EXCEPT ![t] = "sent"]
      /\ dpc[t] = "out" /\ status[cur[t]] = "new"
      /\ \/ status' = [status EXCEPT ![cur[t]] = "refused"] /\ UNCHANGED <<dpc, dmsg>>
         \/ /\ status' = [status EXCEPT ![cur[t]] = "calling"]
            /\ dpc' = [dpc EXCEPT ![t] = "hasThread"] /\ dmsg' = [dmsg EXCEPT ![t] = cur[t]]
  BY DEF Dispatch, At, T!DispatchDelegate, T!Free, T!InCall, T!calls
<1>2. cur[t] \in Ops
  BY <1>0, <1>1 DEF Calling
<1>3. status'[cur[t]] \in {"refused", "calling"} /\ \A m \in Ops : m # cur[t] => status'[m] = status[m]
  BY <1>0, <1>1, <1>2
<1>4. Typed' /\ Controlled'
  BY <1>0, <1>1 DEF Proxy, Typed, Controlled, CallStates
<1>5. Calling'
  <2>1. \A u \in Threads : dpc'[u] # "out" => pc'[u] = "sent" /\ dmsg'[u] = cur[u]
    BY <1>0, <1>1 DEF Calling
  <2>2. \A u \in Threads : cur[u] # NoMsg <=> pc'[u] \in {"load", "dispatch", "sent", "unwind"}
    BY <1>0, <1>1 DEF Calling
  <2>3. \A u \in Threads : pc'[u] \in {"load", "dispatch"} => status'[cur[u]] = "new"
    <3> SUFFICES ASSUME NEW u \in Threads, pc'[u] \in {"load", "dispatch"} PROVE status'[cur[u]] = "new"
      OBVIOUS
    <3>1. u # t /\ pc[u] \in {"load", "dispatch"}
      BY <1>0, <1>1
    <3>2. cur[u] \in Ops /\ cur[u] # cur[t] /\ status[cur[u]] = "new"
      BY <1>0, <1>2, <3>1 DEF Calling
    <3> QED
      BY <1>3, <3>2
  <2> QED
    BY <1>0, <2>1, <2>2, <2>3 DEF Calling
<1>6. Recorded'
  <2>1. \A u \in Threads : pc'[u] = "unwind" <=> pc[u] = "unwind"
    BY <1>0, <1>1
  <2>2. cur[t] <= issued /\ body[cur[t]] = "none"
    BY <1>0, <1>1, <1>2 DEF Calling, Recorded
  <2>3. issued \in Nat /\ \A m \in Ops : m \in Nat /\ (m > issued => m # cur[t])
    BY <1>0, <1>2, <2>2, DuckAssumption DEF Typed, Ops
  <2> SUFFICES ASSUME NEW m \in Ops
               PROVE  /\ m > issued => status'[m] = "new"
                      /\ body[m] # "none" => status'[m] \in {"invoking", "done"}
                      /\ status'[m] = "done" => body[m] # "none"
                      /\ status'[m] # "discarded"
    BY <1>0, <2>1 DEF Recorded
  <2>4. CASE m = cur[t]
    BY <1>3, <2>2, <2>3, <2>4
  <2>5. CASE m # cur[t]
    BY <1>0, <1>3, <2>5 DEF Recorded
  <2> QED
    BY <2>4, <2>5
<1>7. Opened'
  <2>1. \A u \in Threads : pc'[u] = "unwind" <=> pc[u] = "unwind"
    BY <1>0, <1>1
  <2> QED
    BY <1>0, <2>1 DEF Opened
<1>8. Numbered'
  BY <1>0 DEF Known, Numbered
<1>9. \A m \in Ops : TaskAlive(m)' <=> TaskAlive(m)
  BY <1>0, <1>3 DEF TaskAlive, CallerHolds, MsgHolds
<1>10. Freed'
  BY <1>0, <1>9, FreedFrame
<1>11. InOrder'
  BY <1>0, <1>1, <1>3, InOrderFrame
<1> QED
  BY <1>4, <1>5, <1>6, <1>7, <1>8, <1>10, <1>11 DEF Proxy, Known

-----------------------------------------------------------------------------
(* Steps of a call that touch neither the worker nor what other calls own. *)

(* A handle that is held has been opened.                                  *)
LEMMA HeldIsOpened ==
  ASSUME Opened, NEW h \in Ops, Held(h)
  PROVE  place[h] # "none"
BY DuckAssumption DEF Opened, Held

(* A step that lets go of tasks only: whoever takes it frees exactly what  *)
(* nothing holds any more.                                                 *)
LEMMA FreedRelease ==
  ASSUME Typed, Opened, Freed, NEW t \in Threads, Release(t),
         \A h \in Ops : place'[h] = "none" <=> place[h] = "none",
         \A h \in Ops : Held(h)' => Held(h)
  PROVE  Freed'
<1>1. \A h \in Ops : freed'[h] = IF Held(h) /\ ~Held(h)' THEN t ELSE freed[h]
  BY DEF Release
<1>2. t # NoThread
  BY DuckAssumption
<1>3. \A h \in Ops : freed'[h] # NoThread => place'[h] # "none"
  BY <1>1, HeldIsOpened DEF Freed
<1>4. \A h \in Ops : place'[h] # "none" => (freed'[h] = NoThread <=> Held(h)')
  BY <1>1, <1>2 DEF Freed, FreedIffUnowned
<1> QED
  BY <1>3, <1>4 DEF Freed, FreedIffUnowned

(* The order is about messages and acceptance alone.                       *)
LEMMA InOrderStill ==
  ASSUME InOrder, UNCHANGED <<before, status, normalQueue>>
  PROVE  InOrder'
BY DEF InOrder

LEMMA LoadKept ==
  ASSUME DInv, NEW t \in Threads, LoadCentral(t)
  PROVE  Proxy'
<1>0. /\ Typed /\ Controlled /\ Calling /\ Recorded /\ Opened /\ Numbered /\ Freed /\ InOrder
      /\ UNCHANGED <<threadVars, central, cur, body, outcome, place, freed, terminated>>
      /\ UNCHANGED <<issued, kind, target, before>>
      /\ UNCHANGED <<status, normalQueue, selfExit, ctlpc, ctlby, dpc, dmsg>>
      /\ pc[t] = "load" /\ pc \in [Threads -> CallStates]
  BY Split DEF Proxy, Known, LoadCentral, At, opVars, threadVars, Typed
<1>1. pc' = [pc EXCEPT ![t] = "dispatch"] \/ pc' = [pc EXCEPT ![t] = "sent"]
  BY DEF LoadCentral
<1>2. Typed' /\ Controlled'
  BY <1>0, <1>1 DEF Typed, Controlled, CallStates
<1>3. \A u \in Threads : pc'[u] = pc[u] \/ (u = t /\ pc'[u] \in {"dispatch", "sent"})
  BY <1>0, <1>1
<1>4. Calling'
  BY <1>0, <1>3 DEF Calling
<1>5. Recorded' /\ Opened' /\ Numbered'
  <2>1. \A u \in Threads : pc'[u] = "unwind" <=> pc[u] = "unwind"
    BY <1>0, <1>3
  <2> QED
    BY <1>0, <2>1 DEF Recorded, Opened, Numbered
<1>6. Freed'
  BY <1>0, FreedFrame DEF TaskAlive, CallerHolds, MsgHolds
<1> QED
  BY <1>0, <1>2, <1>4, <1>5, <1>6, InOrderStill DEF Proxy, Known

(* The caller's wait is over, or there was none.                           *)
LEMMA GotKept ==
  ASSUME DInv, NEW t \in Threads, NEW o \in Outcomes \ {"none"},
         pc[t] = "sent", dpc[t] = "out", Got(t, o),
         UNCHANGED <<threadVars, central, opVars, cur, body, freed, terminated>>,
         \/ UNCHANGED place
         \/ /\ kind[cur[t]] \in Opens /\ body[cur[t]] = "ok"
            /\ place' = [place EXCEPT ![cur[t]] = "proxy"]
  PROVE  Proxy'
<1>0. /\ Typed /\ Controlled /\ Calling /\ Recorded /\ Opened /\ Numbered /\ Freed /\ InOrder
      /\ UNCHANGED <<issued, kind, target, before>>
      /\ UNCHANGED <<status, normalQueue, selfExit, ctlpc, ctlby, dpc, dmsg>>
      /\ pc \in [Threads -> CallStates] /\ cur \in [Threads -> Ops \cup {NoMsg}]
      /\ outcome \in [Ops -> Outcomes]
      /\ place \in [Ops -> {"none", "state", "proxy", "task"}]
  BY Split DEF Proxy, Known, opVars, threadVars, Typed
<1>1. /\ pc' = [pc EXCEPT ![t] = "unwind"] /\ outcome' = [outcome EXCEPT ![cur[t]] = o]
      /\ cur[t] \in Ops /\ cur[t] <= issued
  BY <1>0, DuckAssumption DEF Got, Calling
<1>2. Typed' /\ Controlled'
  BY <1>0, <1>1 DEF Typed, Controlled, CallStates
<1>3. \A u \in Threads : u # t => pc'[u] = pc[u]
  BY <1>0, <1>1
<1>4. pc'[t] = "unwind"
  BY <1>0, <1>1
<1>5. Calling'
  BY <1>0, <1>3, <1>4 DEF Calling
<1>6. Recorded'
  <2>1. issued \in Nat /\ \A m \in Ops : m \in Nat /\ (m > issued => m # cur[t])
    BY <1>0, <1>1, DuckAssumption DEF Typed, Ops
  <2>2. \A m \in Ops : outcome'[m] = IF m = cur[t] THEN o ELSE outcome[m]
    BY <1>0, <1>1
  <2>3. \A m \in Ops : m <= issued =>
          (outcome'[m] = "none" <=> \E u \in Threads : cur[u] = m /\ pc'[u] # "unwind")
    <3> SUFFICES ASSUME NEW m \in Ops, m <= issued
                 PROVE  outcome'[m] = "none" <=> \E u \in Threads : cur[u] = m /\ pc'[u] # "unwind"
      OBVIOUS
    <3>1. CASE m = cur[t]
      <4>1. \A u \in Threads : cur[u] = m => u = t
        BY <1>0, <1>1, <3>1, DuckAssumption DEF Calling
      <4> QED
        BY <1>4, <2>2, <3>1, <4>1
    <3>2. CASE m # cur[t]
      BY <1>0, <1>3, <2>2, <3>2 DEF Recorded
    <3> QED
      BY <3>1, <3>2
  <2> QED
    BY <1>0, <2>1, <2>2, <2>3 DEF Recorded
<1>7. /\ \A m \in Ops : place'[m] = "none" <=> place[m] = "none"
      /\ place[cur[t]] \in {"none", "state"}
      /\ \A m \in Ops : m # cur[t] => place'[m] = place[m]
      /\ place'[cur[t]] = place[cur[t]] \/ (place[cur[t]] = "state" /\ place'[cur[t]] = "proxy")
  <2>1. place[cur[t]] \in {"none", "state"}
    BY <1>0, <1>1 DEF Opened
  <2>2. kind[cur[t]] \in Opens /\ body[cur[t]] = "ok" => place[cur[t]] # "none"
    BY <1>0, <1>1 DEF Opened
  <2> QED
    BY <1>0, <1>1, <2>1, <2>2
<1>8. Opened'
  <2>1. \A m \in Ops, u \in Threads : cur[u] = m /\ pc'[u] # "unwind" => place'[m] \in {"none", "state"}
    <3> SUFFICES ASSUME NEW m \in Ops, NEW u \in Threads, cur[u] = m, pc'[u] # "unwind"
                 PROVE  place'[m] \in {"none", "state"}
      OBVIOUS
    <3>1. u # t /\ pc[u] # "unwind"
      BY <1>3, <1>4
    <3>2. m # cur[t]
      BY <1>0, <1>1, <3>1, DuckAssumption DEF Calling
    <3>3. place[m] \in {"none", "state"}
      BY <1>0, <3>1 DEF Opened
    <3> QED
      BY <1>7, <3>2, <3>3
  <2>2. \A m \in Ops : target[m] # NoMsg => target[m] \in Ops
    BY <1>0 DEF Typed
  <2> QED
    BY <1>0, <1>7, <2>1, <2>2 DEF Opened
<1>9. Numbered'
  BY <1>0 DEF Numbered
<1>10. Freed'
  <2>1. TaskAlive(cur[t])
    BY DEF TaskAlive, CallerHolds
  <2>2. \A m \in Ops : TaskAlive(m)' <=> TaskAlive(m)
    BY <1>0 DEF TaskAlive, CallerHolds, MsgHolds
  <2>3. \A h \in Ops : Held(h)' <=> Held(h)
    BY <1>0, <1>7, <2>1, <2>2 DEF Held
  <2> QED
    BY <1>0, <1>7, <2>3 DEF Freed, FreedIffUnowned
<1> QED
  BY <1>0, <1>2, <1>5, <1>6, <1>8, <1>9, <1>10, InOrderStill DEF Proxy, Known

(* The caller leaves, with its copy of the task.                           *)
LEMMA UnwindKept ==
  ASSUME DInv, NEW t \in Threads, Unwind(t)
  PROVE  Proxy'
<1>0. /\ Typed /\ Controlled /\ Calling /\ Recorded /\ Opened /\ Numbered /\ Freed /\ InOrder
      /\ UNCHANGED <<central, issued, kind, target, before, body, outcome, place, terminated>>
      /\ UNCHANGED <<status, normalQueue, selfExit, ctlpc, ctlby, dpc, dmsg>>
      /\ pc \in [Threads -> CallStates] /\ cur \in [Threads -> Ops \cup {NoMsg}]
      /\ pc[t] = "unwind" /\ Release(t)
      /\ pc' = [pc EXCEPT ![t] = "app"] /\ cur' = [cur EXCEPT ![t] = NoMsg]
  BY Split DEF Proxy, Known, opVars, threadVars, Typed, Unwind, At
<1>1. Typed' /\ Controlled'
  BY <1>0 DEF Typed, Controlled, CallStates, Release
<1>2. /\ pc'[t] = "app" /\ cur'[t] = NoMsg
      /\ \A u \in Threads : u # t => pc'[u] = pc[u] /\ cur'[u] = cur[u]
  BY <1>0
<1>3. Calling'
  BY <1>0, <1>2 DEF Calling
<1>4. \A m \in Ops : \A u \in Threads :
        cur'[u] = m => cur[u] = m /\ (pc'[u] # "unwind" <=> pc[u] # "unwind")
  BY <1>2, DuckAssumption
<1>5. \A m \in Ops : \A u \in Threads :
        cur[u] = m /\ pc[u] # "unwind" => cur'[u] = m /\ pc'[u] # "unwind"
  BY <1>0, <1>2
<1>6. Recorded'
  BY <1>0, <1>4, <1>5 DEF Recorded
<1>7. Opened'
  BY <1>0, <1>4 DEF Opened
<1>8. Numbered'
  BY <1>0 DEF Numbered
<1>9. Freed'
  <2>1. \A m \in Ops : TaskAlive(m)' => TaskAlive(m)
    BY <1>0, <1>4 DEF TaskAlive, CallerHolds, MsgHolds
  <2>2. \A h \in Ops : Held(h)' => Held(h)
    BY <1>0, <2>1 DEF Held
  <2> QED
    BY <1>0, <2>2, FreedRelease
<1> QED
  BY <1>0, <1>1, <1>3, <1>6, <1>7, <1>8, <1>9, InOrderStill DEF Proxy, Known

-----------------------------------------------------------------------------
(* The worker runs a task, and destroys it.                                *)
LEMMA RunKept ==
  ASSUME DInv, NEW w \in Workers, RunTask(w)
  PROVE  Proxy'
<1>0. /\ TP!MInv /\ Typed /\ Controlled /\ Calling /\ Recorded /\ Opened /\ Numbered /\ Freed /\ InOrder
      /\ UNCHANGED <<central, issued, kind, target, before, outcome, freed, terminated, pc, cur>>
      /\ UNCHANGED <<status, normalQueue, selfExit, ctlpc, ctlby, dpc, dmsg>>
      /\ body \in [Ops -> {"none", "ok", "threw"}]
      /\ place \in [Ops -> {"none", "state", "proxy", "task"}]
      /\ worker[w] = "invoking"
  BY Split DEF Proxy, Known, opVars, threadVars, callVars, Typed, RunTask
<1>1. wmsg[w] \in Ops /\ status[wmsg[w]] = "invoking"
  BY <1>0, WorkerServes
<1>2. PICK m \in Ops, r \in {"ok", "threw"} :
        /\ m = wmsg[w] /\ body[m] = "none" /\ status[m] = "invoking"
        /\ body' = [body EXCEPT ![m] = r]
        /\ place' = IF kind[m] \in Opens /\ r = "ok" THEN [place EXCEPT ![m] = "state"] ELSE place
  BY <1>1 DEF RunTask
<1>3. Typed' /\ Controlled'
  BY <1>0, <1>2 DEF Typed, Controlled
<1>4. Calling' /\ Numbered'
  BY <1>0 DEF Calling, Numbered
<1>5. /\ body'[m] = r /\ \A n \in Ops : n # m => body'[n] = body[n] /\ place'[n] = place[n]
      /\ place[m] = "none"
      /\ place'[m] = IF kind[m] \in Opens /\ r = "ok" THEN "state" ELSE "none"
  <2>1. place[m] = "none"
    BY <1>0, <1>2 DEF Opened
  <2> QED
    BY <1>0, <1>2, <2>1
<1>6. Recorded'
  BY <1>0, <1>2, <1>5 DEF Recorded
<1>7. \A n \in Ops : target[n] # NoMsg => target[n] \in Ops /\ target[n] # m
  BY <1>0, <1>5 DEF Opened, Typed
<1>8. Opened'
  BY <1>0, <1>5, <1>7 DEF Opened
<1>9. Freed'
  <2>1. \A n \in Ops : TaskAlive(n)' <=> TaskAlive(n)
    BY <1>0 DEF TaskAlive, CallerHolds, MsgHolds
  <2>2. TaskAlive(m)
    BY <1>2 DEF TaskAlive, MsgHolds
  <2>3. \A h \in Ops : h # m => (Held(h)' <=> Held(h))
    BY <1>0, <1>5, <2>1 DEF Held
  <2>4. freed[m] = NoThread
    BY <1>0, <1>5 DEF Freed
  <2>5. place'[m] # "none" => Held(m)'
    BY <1>5, <2>1, <2>2 DEF Held
  <2> QED
    BY <1>0, <1>5, <2>3, <2>4, <2>5 DEF Freed, FreedIffUnowned
<1> QED
  BY <1>0, <1>3, <1>4, <1>6, <1>8, <1>9, InOrderStill DEF Proxy, Known

LEMMA FinishKept ==
  ASSUME DInv, NEW w \in Workers, Finish(w)
  PROVE  Proxy'
<1>0. /\ TP!MInv /\ Typed /\ Controlled /\ Calling /\ Recorded /\ Opened /\ Numbered /\ Freed /\ InOrder
      /\ UNCHANGED <<central, issued, kind, target, before, body, outcome, place, terminated, pc, cur>>
      /\ UNCHANGED <<normalQueue, selfExit, ctlpc, ctlby, dpc, dmsg>>
      /\ status \in [Ops -> TP!Fates] /\ w \in Threads
      /\ worker[w] = "invoking" /\ Release(w)
  BY Split, WorkerTypes
  DEF Proxy, Known, opVars, callVars, Typed, Finish, T!Finish, T!InLoop, T!queues, T!calls, T!ctl, Threads
<1>1. wmsg[w] \in Ops /\ status[wmsg[w]] = "invoking"
  BY <1>0, WorkerServes
<1>2. PICK m \in Ops :
        m = wmsg[w] /\ body[m] # "none" /\ status[m] = "invoking" /\ status' = [status EXCEPT ![m] = "done"]
  BY <1>1 DEF Finish, T!Finish
<1>3. status'[m] = "done" /\ \A n \in Ops : n # m => status'[n] = status[n]
  BY <1>0, <1>2
<1>4. Typed' /\ Controlled'
  BY <1>0 DEF Typed, Controlled, Release
<1>5. Calling'
  <2>1. \A t \in Threads : pc[t] \in {"load", "dispatch"} => cur[t] \in Ops /\ status'[cur[t]] = "new"
    BY <1>0, <1>2, <1>3 DEF Calling, Typed
  <2> QED
    BY <1>0, <2>1 DEF Calling
<1>6. Recorded'
  <2>1. m <= issued
    BY <1>0, <1>2, DuckAssumption DEF Recorded, Typed, Ops
  <2>2. issued \in Nat /\ \A n \in Ops : n \in Nat /\ (n > issued => n # m)
    BY <1>0, <2>1, DuckAssumption DEF Typed, Ops
  <2> SUFFICES ASSUME NEW n \in Ops
               PROVE  /\ n > issued => status'[n] = "new"
                      /\ body[n] # "none" => status'[n] \in {"invoking", "done"}
                      /\ status'[n] = "done" => body[n] # "none"
                      /\ status'[n] # "discarded"
    BY <1>0 DEF Recorded
  <2>3. CASE n = m
    BY <1>2, <1>3, <2>2, <2>3
  <2>4. CASE n # m
    BY <1>0, <1>3, <2>4 DEF Recorded
  <2> QED
    BY <2>3, <2>4
<1>7. Opened' /\ Numbered'
  BY <1>0 DEF Opened, Numbered
<1>8. Freed'
  <2>1. \A n \in Ops : TaskAlive(n)' => TaskAlive(n)
    BY <1>0, <1>2, <1>3 DEF TaskAlive, CallerHolds, MsgHolds
  <2>2. \A h \in Ops : Held(h)' => Held(h)
    BY <1>0, <2>1 DEF Held
  <2> QED
    BY <1>0, <2>2, FreedRelease
<1>9. InOrder'
  <2> SUFFICES ASSUME NEW n \in Ops, NEW k \in before[n]
               PROVE  /\ k # n
                      /\ status'[k] \in {"queued", "invoking", "done"}
                      /\ status'[n] \in {"invoking", "done"} => status'[k] = "done"
                      /\ \A i, j \in 1 .. Len(normalQueue) :
                           normalQueue[i] = k /\ normalQueue[j] = n => i < j
    BY <1>0 DEF InOrder
  <2>1. k \in Ops
    BY <1>0 DEF Typed
  <2>2. /\ k # n
        /\ status[k] \in {"queued", "invoking", "done"}
        /\ status[n] \in {"invoking", "done"} => status[k] = "done"
        /\ \A i, j \in 1 .. Len(normalQueue) : normalQueue[i] = k /\ normalQueue[j] = n => i < j
    BY <1>0 DEF InOrder
  <2>3. status'[n] \in {"invoking", "done"} => status[n] \in {"invoking", "done"}
    BY <1>2, <1>3
  <2>4. status'[k] = status[k] \/ status'[k] = "done"
    BY <1>3, <2>1
  <2> QED
    BY <2>2, <2>3, <2>4
<1> QED
  BY <1>4, <1>5, <1>6, <1>7, <1>8, <1>9 DEF Proxy, Known

-----------------------------------------------------------------------------
(* The operation that begins has a number: the destructors that run on     *)
(* their own are of as many proxies as the application opened, and the one *)
(* of h has not run.                                                       *)
LEMMA RoomToBegin ==
  ASSUME Typed, Opened, Numbered,
         issued < MaxCalls \/ (\E h \in Ops : LeftBehind(h))
  PROVE  issued + 1 \in Ops
<1>0. issued \in 0 .. 2 * MaxCalls /\ MaxCalls \in Nat
  BY DuckAssumption DEF Typed
<1>1. CASE issued < MaxCalls
  BY <1>0, <1>1 DEF Ops
<1>2. CASE issued < 2 * MaxCalls
  BY <1>0, <1>2 DEF Ops
<1>3. ASSUME issued = 2 * MaxCalls, NEW h \in Ops, LeftBehind(h)
      PROVE  FALSE
  <2> DEFINE Extra == MaxCalls + 1 .. 2 * MaxCalls
             Others == (1 .. MaxCalls) \ {h}
             Proxies == [m \in Extra |-> target[m]]
  <2>1. \A m \in Extra : m \in Ops /\ kind[m] = "close" /\ kind[target[m]] = "prepare"
    BY <1>0, <1>3 DEF Numbered, Ops
  <2>2. \A m \in Extra : target[m] \in Ops /\ place[target[m]] = "task"
    BY <2>1 DEF Opened, Typed
  <2>3. \A m \in Extra : target[m] \in Others
    <3> SUFFICES ASSUME NEW m \in Extra PROVE target[m] \in Others
      OBVIOUS
    <3>1. target[m] <= MaxCalls /\ target[m] \in Nat \ {0}
      BY <1>0, <2>1, <2>2 DEF Numbered, Ops
    <3>2. target[m] # h
      BY <1>3, <2>2 DEF LeftBehind
    <3> QED
      BY <1>0, <3>1, <3>2
  <2>4. \A m, n \in Extra : target[m] = target[n] => m = n
    BY <2>1 DEF Numbered
  <2>5. h \in 1 .. MaxCalls
    BY <1>0, <1>3 DEF LeftBehind, Numbered, Ops
  <2>6. IsFiniteSet(Others) /\ Cardinality(Others) = MaxCalls - 1
    <3>1. IsFiniteSet(1 .. MaxCalls) /\ Cardinality(1 .. MaxCalls) = MaxCalls
      BY <1>0, <2>5, FS_Interval
    <3> QED
      BY <2>5, <3>1, FS_RemoveElement
  <2>7. IsFiniteSet(Extra) /\ Cardinality(Extra) = MaxCalls
    BY <1>0, <2>5, FS_Interval
  <2>8. Proxies \in [Extra -> Others] /\ \A m \in Extra : Proxies[m] = target[m]
    BY <2>3
  <2>9. \E m, n \in Extra : m # n /\ Proxies[m] = Proxies[n]
    <3> HIDE DEF Extra, Others, Proxies
    <3>1. Cardinality(Others) < Cardinality(Extra)
      BY <1>0, <2>6, <2>7
    <3> QED
      BY <2>6, <2>7, <2>8, <3>1, FS_PigeonHole
  <2> QED
    BY <2>4, <2>8, <2>9
<1> QED
  BY <1>0, <1>1, <1>2, <1>3

(* What a call that begins may find: the thread has no other call under    *)
(* way but one whose caller unwinds; the handle it works on is in a proxy  *)
(* or, for a destructor, in a place from where it moves into the task.     *)
MayBegin(t, k, h) ==
  /\ pc[t] \in {"app", "unwind"}
  /\ k \in Kinds /\ h \in Ops \cup {NoMsg}
  /\ issued < MaxCalls \/ (k = "close" /\ kind[h] = "prepare" /\ LeftBehind(h))
  /\ h # NoMsg /\ k # "close" => place[h] = "proxy" /\ UNCHANGED place
  /\ h = NoMsg => k # "close" /\ UNCHANGED place
  /\ k = "close" =>
       /\ place[h] \in {"proxy", "state"}
       /\ place' = [place EXCEPT ![h] = "task"]
       /\ \A s \in Threads : cur[s] # NoMsg /\ target[cur[s]] = h => kind[cur[s]] = "close"
       /\ \A s \in Threads : cur[s] = h => pc[s] = "unwind"

LEMMA KnownBegin ==
  ASSUME DInv, NEW t \in Threads, NEW k, NEW h, MayBegin(t, k, h), Begin(t, k, h),
         UNCHANGED <<threadVars, central, body, outcome, terminated>>
  PROVE  Known' /\ issued + 1 \in Ops
<1>0. /\ TP!MInv /\ Typed /\ Calling /\ Recorded /\ Opened /\ Numbered
      /\ UNCHANGED <<status, dpc, dmsg, body, outcome>>
      /\ pc \in [Threads -> CallStates] /\ cur \in [Threads -> Ops \cup {NoMsg}]
      /\ kind \in [Ops -> Kinds \cup {"none"}] /\ target \in [Ops -> Ops \cup {NoMsg}]
      /\ before \in [Ops -> SUBSET Ops]
      /\ place \in [Ops -> {"none", "state", "proxy", "task"}]
      /\ NoMsg \notin Ops /\ issued' = issued + 1
  BY Split, DuckAssumption DEF Proxy, Known, threadVars, Typed, Begin
<1>1. PICK n \in Ops : n = issued + 1
  <2>1. issued < MaxCalls \/ \E g \in Ops : LeftBehind(g)
    BY DEF MayBegin, Opened, LeftBehind
  <2> QED
    BY <1>0, <2>1, RoomToBegin
<1>2. /\ issued \in Nat /\ \A m \in Ops : m \in Nat
      /\ \A m \in Ops : m > issued <=> (m = n \/ m > issued + 1)
      /\ \A m \in Ops : m <= issued' <=> (m = n \/ m <= issued)
      /\ n > issued /\ ~(n > issued')
  BY <1>0, <1>1, DuckAssumption DEF Typed, Ops
<1>3. /\ status[n] = "new" /\ body[n] = "none" /\ outcome[n] = "none" /\ place[n] = "none"
      /\ kind[n] = "none" /\ target[n] = NoMsg /\ h # n
  <2>1. status[n] = "new" /\ body[n] = "none" /\ outcome[n] = "none" /\ kind[n] = "none" /\ target[n] = NoMsg
    BY <1>0, <1>2 DEF Recorded
  <2>2. place[n] = "none"
    BY <1>0, <2>1 DEF Opened
  <2> QED
    BY <1>0, <2>1, <2>2 DEF MayBegin
<1>4. /\ kind'[n] = k /\ target'[n] = h /\ cur'[t] = n /\ pc'[t] = "load"
      /\ \A m \in Ops : m # n => kind'[m] = kind[m] /\ target'[m] = target[m] /\ before'[m] = before[m]
      /\ \A u \in Threads : u # t => cur'[u] = cur[u] /\ pc'[u] = pc[u]
  BY <1>0, <1>1 DEF Begin
<1>5. \A u \in Threads : cur[u] # n
  BY <1>0, <1>2 DEF Calling
<1>6. dpc[t] = "out"
  BY <1>0 DEF Calling, MayBegin
<1>7. Calling'
  <2>1. \A u \in Threads : dpc'[u] # "out" => pc'[u] = "sent" /\ dmsg'[u] = cur'[u]
    BY <1>0, <1>4, <1>6 DEF Calling
  <2>2. \A u \in Threads : cur'[u] # NoMsg <=> pc'[u] \in {"load", "dispatch", "sent", "unwind"}
    BY <1>0, <1>4 DEF Calling
  <2>3. \A u \in Threads : cur'[u] # NoMsg => cur'[u] <= issued'
    BY <1>0, <1>2, <1>4 DEF Calling
  <2>4. \A u, v \in Threads : cur'[u] = cur'[v] /\ cur'[u] # NoMsg => u = v
    BY <1>0, <1>4, <1>5 DEF Calling
  <2>5. \A u \in Threads : pc'[u] \in {"load", "dispatch"} => status'[cur'[u]] = "new"
    BY <1>0, <1>3, <1>4 DEF Calling
  <2> QED
    BY <2>1, <2>2, <2>3, <2>4, <2>5 DEF Calling
<1>8. Recorded'
  <2> SUFFICES ASSUME NEW m \in Ops
               PROVE  /\ m > issued' => /\ status[m] = "new" /\ kind'[m] = "none" /\ target'[m] = NoMsg
                                        /\ outcome[m] = "none" /\ before'[m] = {}
                      /\ m <= issued' => kind'[m] # "none"
                      /\ body[m] # "none" => status[m] \in {"invoking", "done"}
                      /\ status[m] = "done" => body[m] # "none"
                      /\ status[m] # "discarded"
                      /\ m <= issued' =>
                          (outcome[m] = "none" <=> \E u \in Threads : cur'[u] = m /\ pc'[u] # "unwind")
    BY <1>0 DEF Recorded
  <2>1. CASE m = n
    <3>1. k # "none"
      BY DEF MayBegin, Kinds, Syncs, Opens
    <3>2. ~(m > issued')
      BY <1>2, <2>1
    <3>3. \E u \in Threads : cur'[u] = m /\ pc'[u] # "unwind"
      BY <1>4, <2>1
    <3> QED
      BY <1>3, <1>4, <2>1, <3>1, <3>2, <3>3
  <2>2. CASE m # n
    <3>1. (\E u \in Threads : cur'[u] = m /\ pc'[u] # "unwind")
            <=> (\E u \in Threads : cur[u] = m /\ pc[u] # "unwind")
      <4>1. \A u \in Threads : cur'[u] = m /\ pc'[u] # "unwind" => cur[u] = m /\ pc[u] # "unwind"
        BY <1>4, <2>2
      <4>2. cur[t] = m => pc[t] = "unwind"
        BY <1>0 DEF Calling, MayBegin
      <4>3. \A u \in Threads : cur[u] = m /\ pc[u] # "unwind" => cur'[u] = m /\ pc'[u] # "unwind"
        BY <1>4, <4>2
      <4> QED
        BY <4>1, <4>3
    <3> QED
      BY <1>0, <1>2, <1>4, <2>2, <3>1 DEF Recorded
  <2> QED
    BY <2>1, <2>2
<1>9. /\ \A m \in Ops : m # h => place'[m] = place[m]
      /\ \A m \in Ops : place'[m] = "none" <=> place[m] = "none"
      /\ h \in Ops \cup {NoMsg} /\ (k = "close" => h \in Ops /\ place'[h] = "task")
      /\ (k # "close" => UNCHANGED place)
      /\ (k # "close" /\ h # NoMsg => place[h] = "proxy")
  <2>1. CASE k = "close"
    <3>1. h \in Ops
      BY <2>1 DEF MayBegin
    <3> QED
      BY <1>0, <2>1, <3>1 DEF MayBegin
  <2>2. CASE k # "close"
    BY <2>2 DEF MayBegin
  <2> QED
    BY <2>1, <2>2
<1>10. Opened'
  <2> SUFFICES ASSUME NEW m \in Ops
               PROVE  /\ place'[m] # "none" <=> body[m] = "ok" /\ kind'[m] \in Opens
                      /\ \A u \in Threads : cur'[u] = m /\ pc'[u] # "unwind" => place'[m] \in {"none", "state"}
                      /\ target'[m] # NoMsg => target'[m] # m /\ place'[target'[m]] # "none"
                      /\ kind'[m] = "close" => target'[m] # NoMsg /\ place'[target'[m]] = "task"
                      /\ \A u \in Threads :
                           cur'[u] = m /\ target'[m] # NoMsg /\ kind'[m] # "close" => place'[target'[m]] = "proxy"
    BY <1>0 DEF Opened
  <2>1. place'[m] # "none" <=> body[m] = "ok" /\ kind'[m] \in Opens
    BY <1>0, <1>3, <1>4, <1>9 DEF Opened
  <2>2. ASSUME NEW u \in Threads, cur'[u] = m, pc'[u] # "unwind" PROVE place'[m] \in {"none", "state"}
    <3>1. CASE m = n
      BY <1>3, <1>9, <3>1
    <3>2. CASE m # n
      <4>1. u # t /\ cur[u] = m /\ pc[u] # "unwind"
        BY <1>4, <2>2, <3>2
      <4>2. place[m] \in {"none", "state"}
        BY <1>0, <4>1 DEF Opened
      <4>3. k = "close" => m # h
        BY <4>1 DEF MayBegin
      <4> QED
        BY <1>9, <4>2, <4>3
    <3> QED
      BY <3>1, <3>2
  <2>3. CASE m = n
    <3>1. h # NoMsg => place'[h] # "none"
      BY <1>9
    <3>2. k # "close" /\ h # NoMsg => place'[h] = "proxy"
      BY <1>9
    <3> QED
      BY <1>0, <1>3, <1>4, <1>9, <2>1, <2>2, <2>3, <3>1, <3>2
  <2>4. CASE m # n
    <3>1. kind'[m] = kind[m] /\ target'[m] = target[m]
      BY <1>4, <2>4
    <3>2. target[m] # NoMsg => target[m] \in Ops /\ target[m] # m /\ place'[target[m]] # "none"
      BY <1>0, <1>9 DEF Opened
    <3>3. kind[m] = "close" => target[m] # NoMsg /\ place'[target[m]] = "task"
      <4>1. kind[m] = "close" => target[m] \in Ops /\ place[target[m]] = "task"
        BY <1>0, <3>2 DEF Opened
      <4> QED
        BY <1>0, <1>9, <4>1
    <3>4. ASSUME NEW u \in Threads, cur'[u] = m, target[m] # NoMsg, kind[m] # "close"
          PROVE  place'[target[m]] = "proxy"
      <4>1. u # t /\ cur[u] = m
        BY <1>4, <2>4, <3>4
      <4>2. place[target[m]] = "proxy"
        BY <1>0, <3>4, <4>1 DEF Opened
      <4>3. k = "close" => target[m] # h
        BY <1>0, <3>4, <4>1 DEF MayBegin
      <4> QED
        BY <1>9, <3>2, <3>4, <4>2, <4>3
    <3> QED
      BY <2>1, <2>2, <3>1, <3>2, <3>3, <3>4
  <2> QED
    BY <2>3, <2>4
<1>11. Numbered'
  <2>1. kind'[n] = "prepare" => n <= MaxCalls
    BY <1>0, <1>1, <1>4, DuckAssumption DEF MayBegin, Typed
  <2>2. MaxCalls < n => kind'[n] = "close" /\ kind'[target'[n]] = "prepare"
    <3>1. MaxCalls < n => k = "close" /\ kind[h] = "prepare" /\ h # n
      BY <1>0, <1>1, <1>3, DuckAssumption DEF MayBegin, Typed
    <3> QED
      BY <1>4, <1>9, <3>1
  <2>3. \A m \in Ops : kind[m] = "close" /\ m # n => target[m] # h
    <3>1. \A m \in Ops : kind[m] = "close" => target[m] \in Ops /\ place[target[m]] = "task"
      BY <1>0 DEF Opened
    <3>2. h # NoMsg => place[h] # "task"
      BY <1>9 DEF MayBegin
    <3> QED
      BY <3>1, <3>2, <1>0
  <2>4. \A m \in Ops : kind'[m] = "prepare" => m <= MaxCalls
    BY <1>0, <1>4, <2>1 DEF Numbered
  <2>5. \A m \in Ops : MaxCalls < m /\ m <= issued' => kind'[m] = "close" /\ kind'[target'[m]] = "prepare"
    <3> SUFFICES ASSUME NEW m \in Ops, m # n, MaxCalls < m, m <= issued
                 PROVE  kind'[m] = "close" /\ kind'[target'[m]] = "prepare"
      BY <1>2, <2>2
    <3>1. kind[m] = "close" /\ kind[target[m]] = "prepare" /\ target[m] \in Ops
      BY <1>0 DEF Numbered, Opened
    <3>2. target[m] # n
      BY <1>3, <3>1
    <3> QED
      BY <1>4, <3>1, <3>2
  <2>6. \A m, l \in Ops : kind'[m] = "close" /\ kind'[l] = "close" /\ target'[m] = target'[l] => m = l
    BY <1>0, <1>4, <2>3 DEF Numbered
  <2> QED
    BY <2>4, <2>5, <2>6 DEF Numbered
<1> QED
  BY <1>1, <1>7, <1>8, <1>10, <1>11 DEF Known

(* Its task is alive from now on, and holds the handle.                    *)
LEMMA BeginAlive ==
  ASSUME DInv, NEW t \in Threads, NEW k, NEW h, MayBegin(t, k, h), Begin(t, k, h),
         UNCHANGED <<threadVars, central, body, outcome, terminated>>,
         NEW n, n = issued + 1
  PROVE  /\ target' = [target EXCEPT ![n] = h]
         /\ TaskAlive(n)' /\ ~TaskAlive(n)
         /\ \A m \in Ops : m # n =>
              /\ target'[m] = target[m]
              /\ TaskAlive(m)' => TaskAlive(m)
              /\ TaskAlive(m) /\ m # cur[t] => TaskAlive(m)'
         /\ n \in Ops /\ place[n] = "none" /\ h # n
<1>0. /\ Typed /\ Calling /\ Recorded /\ Opened /\ UNCHANGED status
      /\ n \in Ops /\ NoMsg \notin Ops
      /\ cur \in [Threads -> Ops \cup {NoMsg}] /\ target \in [Ops -> Ops \cup {NoMsg}]
  BY Split, KnownBegin, DuckAssumption DEF Proxy, Known, threadVars, Typed
<1>1. n > issued /\ ~(n <= issued)
  BY <1>0 DEF Typed
<1>2. target' = [target EXCEPT ![n] = h] /\ cur' = [cur EXCEPT ![t] = n]
  BY <1>1 DEF Begin
<1>3. status[n] = "new" /\ body[n] = "none" /\ \A u \in Threads : cur[u] # n
  BY <1>0, <1>1 DEF Recorded, Calling
<1>4. place[n] = "none" /\ h # n
  <2>1. place[n] = "none"
    BY <1>0, <1>3 DEF Opened
  <2> QED
    BY <1>0, <2>1 DEF MayBegin
<1>5. TaskAlive(n)' /\ ~TaskAlive(n)
  BY <1>0, <1>2, <1>3 DEF TaskAlive, CallerHolds, MsgHolds
<1>6. \A m \in Ops : m # n =>
        /\ target'[m] = target[m]
        /\ TaskAlive(m)' => TaskAlive(m)
        /\ TaskAlive(m) /\ m # cur[t] => TaskAlive(m)'
  BY <1>0, <1>2 DEF TaskAlive, CallerHolds, MsgHolds
<1> QED
  BY <1>0, <1>2, <1>4, <1>5, <1>6

(* What was held is held still, when the thread that begins has no other   *)
(* call; a handle that is not held is not picked up again.                 *)
LEMMA HeldBegin ==
  ASSUME DInv, NEW t \in Threads, NEW k, NEW h, MayBegin(t, k, h), Begin(t, k, h),
         UNCHANGED <<threadVars, central, body, outcome, terminated>>,
         h # NoMsg => Held(h)
  PROVE  /\ \A g \in Ops : Held(g)' => Held(g)
         /\ cur[t] = NoMsg => \A g \in Ops : Held(g) => Held(g)'
<1>1. PICK n : n = issued + 1
  OBVIOUS
<1>0. /\ n \in Ops /\ target' = [target EXCEPT ![n] = h]
      /\ TaskAlive(n)' /\ ~TaskAlive(n)
      /\ \A m \in Ops : m # n =>
           /\ target'[m] = target[m]
           /\ TaskAlive(m)' => TaskAlive(m)
           /\ TaskAlive(m) /\ m # cur[t] => TaskAlive(m)'
      /\ place[n] = "none" /\ h # n
      /\ target \in [Ops -> Ops \cup {NoMsg}] /\ NoMsg \notin Ops
      /\ place \in [Ops -> {"none", "state", "proxy", "task"}]
  BY <1>1, BeginAlive, Split, DuckAssumption DEF Proxy, Typed
<1>2. target'[n] = h
  BY <1>0, <1>1
<1>3. /\ \A g \in Ops : g # h => place'[g] = place[g]
      /\ h \in Ops => place'[h] = place[h] \/ place'[h] = "task"
  BY <1>0 DEF MayBegin
<1>4. ASSUME NEW g \in Ops, Held(g)' PROVE Held(g)
  <2>1. CASE g = h
    BY <1>0, <1>4, <2>1
  <2>2. CASE g # h
    <3>1. \A m \in Ops \ {g} : target'[m] = g /\ TaskAlive(m)' => target[m] = g /\ TaskAlive(m)
      BY <1>0, <1>1, <1>2, <2>2
    <3>2. place[g] = "state" /\ TaskAlive(g)' => TaskAlive(g)
      BY <1>0, <1>1
    <3> QED
      BY <1>3, <1>4, <2>2, <3>1, <3>2 DEF Held
  <2> QED
    BY <2>1, <2>2
<1>5. ASSUME cur[t] = NoMsg, NEW g \in Ops, Held(g) PROVE Held(g)'
  <2>1. CASE g = h
    <3>1. n \in Ops \ {g} /\ target'[n] = g /\ TaskAlive(n)'
      BY <1>0, <1>1, <1>2, <2>1
    <3> QED
      BY <3>1 DEF Held
  <2>2. CASE g # h
    <3>1. \A m \in Ops \ {g} : target[m] = g /\ TaskAlive(m) => target'[m] = g /\ TaskAlive(m)'
      BY <1>0, <1>1, <1>5
    <3>2. place[g] = "state" /\ TaskAlive(g) => TaskAlive(g)'
      BY <1>0, <1>1, <1>5
    <3> QED
      BY <1>3, <1>5, <2>2, <3>1, <3>2 DEF Held
  <2> QED
    BY <2>1, <2>2
<1> QED
  BY <1>4, <1>5

LEMMA BeginKept ==
  ASSUME DInv, NEW t \in Threads, NEW k, NEW h, MayBegin(t, k, h), Begin(t, k, h),
         UNCHANGED <<threadVars, central, body, outcome, terminated>>,
         h # NoMsg => Held(h),
         (UNCHANGED freed /\ cur[t] = NoMsg) \/ Release(t)
  PROVE  Proxy'
<1>0. /\ TP!MInv /\ Typed /\ Controlled /\ Calling /\ Recorded /\ Opened /\ Numbered /\ Freed /\ InOrder
      /\ issued + 1 \in Ops
      /\ UNCHANGED <<status, normalQueue, selfExit, ctlpc, ctlby>>
      /\ before \in [Ops -> SUBSET Ops] /\ NoMsg \notin Ops
      /\ place \in [Ops -> {"none", "state", "proxy", "task"}]
      /\ freed \in [Ops -> Threads \cup {NoThread}]
  BY Split, KnownBegin, DuckAssumption DEF Proxy, Known, threadVars, Typed
<1>1. PICK n \in Ops : n = issued + 1
  BY <1>0
<1>2. \A g \in Ops : place'[g] = "none" <=> place[g] = "none"
  BY <1>0 DEF MayBegin
<1>3. Typed'
  <2>1. issued' \in 0 .. 2 * MaxCalls
    BY <1>0, DuckAssumption DEF Begin, Typed, Ops
  <2>2. kind' \in [Ops -> Kinds \cup {"none"}] /\ target' \in [Ops -> Ops \cup {NoMsg}]
    <3>1. k \in Kinds \cup {"none"} /\ h \in Ops \cup {NoMsg}
      BY DEF MayBegin
    <3> QED
      BY <1>0, <3>1 DEF Begin, Typed
  <2>3. pc' \in [Threads -> CallStates] /\ cur' \in [Threads -> Ops \cup {NoMsg}]
    BY <1>0 DEF Begin, Typed, CallStates
  <2>4. place' \in [Ops -> {"none", "state", "proxy", "task"}]
    BY <1>0 DEF MayBegin
  <2>5. freed' \in [Ops -> Threads \cup {NoThread}]
    BY <1>0 DEF Release
  <2>6. before' \in [Ops -> SUBSET Ops]
    <3>1. {m \in Ops : status[m] \in {"queued", "invoking", "done"}} \in SUBSET Ops
      OBVIOUS
    <3> QED
      BY <1>0, <3>1 DEF Begin
  <2> QED
    BY <1>0, <2>1, <2>2, <2>3, <2>4, <2>5, <2>6 DEF Typed
<1>4. Controlled'
  BY <1>0 DEF Controlled
<1>5. Freed'
  <2>1. CASE UNCHANGED freed /\ cur[t] = NoMsg
    <3>1. \A g \in Ops : Held(g)' <=> Held(g)
      BY <2>1, HeldBegin
    <3> QED
      BY <1>0, <1>2, <2>1, <3>1 DEF Freed, FreedIffUnowned
  <2>2. CASE Release(t)
    BY <1>0, <1>2, <2>2, HeldBegin, FreedRelease
  <2> QED
    BY <2>1, <2>2
<1>6. InOrder'
  <2> DEFINE Acc == {m \in Ops : status[m] \in {"queued", "invoking", "done"}}
  <2>0. Acc \subseteq Ops /\ \A m \in Acc : status[m] \in {"queued", "invoking", "done"}
    OBVIOUS
  <2>1. before'[n] = Acc /\ \A m \in Ops : m # n => before'[m] = before[m]
    BY <1>0, <1>1 DEF Begin
  <2>2. status[n] = "new"
    <3>1. n > issued
      BY <1>0, <1>1 DEF Typed
    <3> QED
      BY <1>0, <3>1 DEF Recorded
  <2>3. \A i \in 1 .. Len(normalQueue) : normalQueue[i] # n
    BY <1>0, <2>2, WorkerServes
  <2> HIDE DEF Acc
  <2>4. \A m \in Acc : /\ m # n
                       /\ status[m] \in {"queued", "invoking", "done"}
                       /\ status[n] \in {"invoking", "done"} => status[m] = "done"
                       /\ \A i, j \in 1 .. Len(normalQueue) : normalQueue[i] = m /\ normalQueue[j] = n => i < j
    BY <2>0, <2>2, <2>3
  <2> QED
    BY <1>0, <2>1, <2>4 DEF InOrder
<1> QED
  BY <1>3, <1>4, <1>5, <1>6, KnownBegin DEF Proxy

(* The five ways to begin an operation.                                    *)
LEMMA CallKept ==
  ASSUME DInv, NEW t \in Threads,
         \/ OpenDatabase(t)
         \/ \E h \in Ops, k \in AppKinds : Use(t, k, h)
         \/ \E h \in Ops : Destroy(t, h)
  PROVE  Proxy'
<1>0. /\ Typed /\ Calling /\ Opened /\ NoMsg \notin Ops /\ AppKinds \subseteq Kinds
      /\ \A k \in {"database", "close"} : k \in Kinds
      /\ UNCHANGED <<threadVars, central, body, outcome, freed, terminated>>
      /\ pc[t] = "app" /\ cur[t] = NoMsg /\ issued < MaxCalls
  BY Split, DuckAssumption
  DEF Proxy, Known, OpenDatabase, Use, Destroy, AppMayCall, At, Calling, Kinds, Syncs, Opens
<1>1. CASE OpenDatabase(t)
  <2>1. MayBegin(t, "database", NoMsg)
    BY <1>0, <1>1 DEF MayBegin, OpenDatabase
  <2> QED
    BY <1>0, <1>1, <2>1, BeginKept DEF OpenDatabase
<1>2. CASE \E h \in Ops, k \in AppKinds : Use(t, k, h)
  <2>1. PICK h \in Ops, k \in AppKinds : Use(t, k, h)
    BY <1>2
  <2>2. k # "close" /\ place[h] = "proxy" /\ UNCHANGED place
    BY <2>1 DEF Use, Serves
  <2>3. MayBegin(t, k, h) /\ Held(h)
    BY <1>0, <2>2 DEF MayBegin, Held
  <2> QED
    BY <1>0, <2>1, <2>3, BeginKept DEF Use
<1>3. CASE \E h \in Ops : Destroy(t, h)
  <2>1. PICK h \in Ops : Destroy(t, h)
    BY <1>3
  <2>2. /\ place[h] = "proxy" /\ place' = [place EXCEPT ![h] = "task"]
        /\ \A s \in Threads : cur[s] # NoMsg => target[cur[s]] # h
    BY <2>1 DEF Destroy
  <2>3. \A s \in Threads : cur[s] = h => pc[s] = "unwind"
    BY <1>0, <2>2 DEF Opened
  <2>4. MayBegin(t, "close", h) /\ Held(h)
    BY <1>0, <2>2, <2>3 DEF MayBegin, Held
  <2> QED
    BY <1>0, <2>1, <2>4, BeginKept DEF Destroy
<1> QED
  BY <1>1, <1>2, <1>3

LEMMA LastKept ==
  ASSUME DInv, NEW t \in Threads,
         UnwindLast(t) \/ (t \in Workers /\ FinishLast(t))
  PROVE  Proxy'
<1>0. /\ TP!MInv /\ Typed /\ Calling /\ Opened /\ NoMsg \notin Ops /\ "close" \in Kinds
      /\ \A h \in Ops, s \in Threads : cur[s] # NoMsg /\ target[cur[s]] = h /\ place[h] = "state"
           => kind[cur[s]] = "close"
  <2>1. Typed /\ Calling /\ Opened /\ NoMsg \notin Ops /\ "close" \in Kinds
    BY Split, DuckAssumption DEF Proxy, Known, Kinds
  <2>2. ASSUME NEW h \in Ops, NEW s \in Threads, cur[s] # NoMsg, target[cur[s]] = h, place[h] = "state",
               kind[cur[s]] # "close"
        PROVE  FALSE
    <3>1. PICK m \in Ops : m = cur[s]
      BY <2>1, <2>2 DEF Typed
    <3>2. place[target[m]] = "proxy"
      BY <2>1, <2>2, <3>1 DEF Opened
    <3> QED
      BY <2>2, <3>1, <3>2
  <2> QED
    BY <2>1, <2>2, Split
<1>1. CASE UnwindLast(t)
  <2>1. PICK h \in Ops :
          /\ h = cur[t] /\ LeftBehind(h) /\ pc[t] = "unwind"
          /\ place' = [place EXCEPT ![h] = "task"] /\ Begin(t, "close", h) /\ Release(t)
          /\ UNCHANGED <<threadVars, central, body, outcome, terminated>>
    <3>1. pc[t] = "unwind" /\ cur[t] \in Ops
      BY <1>0, <1>1 DEF UnwindLast, At, Calling, Typed
    <3>2. PICK g : g = cur[t]
      OBVIOUS
    <3>3. /\ LeftBehind(g) /\ place' = [place EXCEPT ![g] = "task"] /\ Begin(t, "close", g) /\ Release(t)
          /\ UNCHANGED <<threadVars, central, body, outcome, terminated>>
      BY <1>1, <3>2 DEF UnwindLast
    <3> QED
      BY <3>1, <3>2, <3>3
  <2>2. \A s \in Threads : cur[s] = h => pc[s] = "unwind"
    BY <1>0, <2>1 DEF Calling
  <2>3. Held(h)
    BY <2>1 DEF Held, LeftBehind, TaskAlive, CallerHolds
  <2>4. MayBegin(t, "close", h)
    BY <1>0, <2>1, <2>2 DEF MayBegin, LeftBehind
  <2> QED
    BY <1>0, <2>1, <2>3, <2>4, BeginKept
<1>2. CASE t \in Workers /\ FinishLast(t)
  <2>1. PICK h \in Ops :
          /\ h = wmsg[t] /\ LeftBehind(h) /\ pc[t] = "app" /\ worker[t] = "invoking" /\ ~CallerHolds(h)
          /\ place' = [place EXCEPT ![h] = "task"] /\ Begin(t, "close", h)
          /\ UNCHANGED <<threadVars, central, body, outcome, freed, terminated>>
    <3>1. pc[t] = "app" /\ worker[t] = "invoking" /\ wmsg[t] \in Ops
      BY <1>0, <1>2, WorkerServes DEF FinishLast, At
    <3>2. PICK g : g = wmsg[t]
      OBVIOUS
    <3>3. /\ LeftBehind(g) /\ ~CallerHolds(g)
          /\ place' = [place EXCEPT ![g] = "task"] /\ Begin(t, "close", g)
          /\ UNCHANGED <<threadVars, central, body, outcome, freed, terminated>>
      BY <1>2, <3>2 DEF FinishLast
    <3> QED
      BY <3>1, <3>2, <3>3
  <2>2. cur[t] = NoMsg /\ status[h] = "invoking"
    <3>1. pc[t] = "app" => cur[t] = NoMsg
      BY <1>0 DEF Calling
    <3>2. t \in Workers /\ worker[t] = "invoking" => status[wmsg[t]] = "invoking"
      BY <1>0, WorkerServes
    <3> QED
      BY <1>2, <2>1, <3>1, <3>2
  <2>3. Held(h)
    BY <2>1, <2>2 DEF Held, LeftBehind, TaskAlive, MsgHolds
  <2>4. MayBegin(t, "close", h)
    BY <1>0, <2>1 DEF MayBegin, LeftBehind, CallerHolds
  <2> QED
    BY <1>0, <2>1, <2>2, <2>3, <2>4, BeginKept
<1> QED
  BY <1>1, <1>2

(* The end of a call, in its four forms.                                   *)
LEMMA ReturnsKept ==
  ASSUME DInv, NEW t \in Threads,
         DispatchThrows(t) \/ ReturnAtOnce(t) \/ SyncDone(t) \/ SyncTimeout(t)
  PROVE  Proxy'
<1>0. /\ UNCHANGED <<threadVars, central, opVars, cur, body, freed>>
      /\ pc[t] = "sent" /\ dpc[t] = "out"
      /\ \A o \in {"invalid", "returned", "value", "error", "timeout"} : o \in Outcomes \ {"none"}
  BY DEF DispatchThrows, ReturnAtOnce, SyncDone, SyncTimeout, Dispatched, At, Outcomes
<1>1. CASE DispatchThrows(t)
  <2>1. CASE kind[cur[t]] = "close"
    <3>1. terminated' = TRUE /\ UNCHANGED <<outcome, pc, place>>
      BY <1>1, <2>1 DEF DispatchThrows
    <3>2. /\ Typed /\ Controlled /\ Calling /\ Recorded /\ Opened /\ Numbered /\ Freed /\ InOrder
          /\ UNCHANGED <<issued, kind, target, before>>
          /\ UNCHANGED <<status, normalQueue, selfExit, ctlpc, ctlby, dpc, dmsg>>
      BY <1>0, Split DEF Proxy, Known, opVars, threadVars
    <3>3. Typed' /\ Controlled' /\ Calling' /\ Recorded' /\ Opened' /\ Numbered'
      BY <1>0, <3>1, <3>2 DEF Typed, Controlled, Calling, Recorded, Opened, Numbered
    <3>4. Freed'
      BY <1>0, <3>1, <3>2, FreedFrame DEF TaskAlive, CallerHolds, MsgHolds
    <3> QED
      BY <3>2, <3>3, <3>4, InOrderStill DEF Proxy, Known
  <2>2. CASE kind[cur[t]] # "close"
    BY <1>0, <1>1, <2>2, GotKept DEF DispatchThrows
  <2> QED
    BY <2>1, <2>2
<1>2. CASE ReturnAtOnce(t)
  BY <1>0, <1>2, GotKept DEF ReturnAtOnce
<1>3. CASE SyncDone(t)
  <2>1. PICK o \in {"value", "error"} : Got(t, o)
    BY <1>3 DEF SyncDone
  <2>2. \/ UNCHANGED place
        \/ /\ kind[cur[t]] \in Opens /\ body[cur[t]] = "ok"
           /\ place' = [place EXCEPT ![cur[t]] = "proxy"]
    BY <1>3 DEF SyncDone
  <2>3. UNCHANGED terminated
    BY <1>3 DEF SyncDone
  <2> QED
    BY <1>0, <2>1, <2>2, <2>3, GotKept
<1>4. CASE SyncTimeout(t)
  BY <1>0, <1>4, GotKept DEF SyncTimeout
<1> QED
  BY <1>1, <1>2, <1>3, <1>4

(* init_worker and shutdown_worker.                                        *)
LEMMA LifecycleKept ==
  ASSUME DInv, NEW t \in Threads,
         \/ InitStore(t) \/ ShutdownStore(t)
         \/ t \in Controllers /\ (InitWorker(t) \/ ShutdownWorker(t))
  PROVE  Proxy'
<1>0. /\ Typed /\ Controlled /\ pc \in [Threads -> CallStates]
      /\ UNCHANGED <<opVars, cur, body, outcome, place, freed, terminated>>
      /\ pc[t] \in Elsewhere
      /\ \E s \in Elsewhere : pc' = [pc EXCEPT ![t] = s]
      /\ normalQueue \in Seq(Ops \cup {ExitMsg}) /\ ExitMsg \notin Ops
      /\ dpc \in [Threads -> TP!CallStates]
  BY Split, WorkerTypes, DuckAssumption
  DEF Proxy, Typed, InitStore, ShutdownStore, InitWorker, ShutdownWorker, At, Elsewhere
<1>1. /\ pc' \in [Threads -> CallStates]
      /\ \A u \in Threads : pc'[u] = pc[u] \/ (pc[u] \in Elsewhere /\ pc'[u] \in Elsewhere)
  BY <1>0 DEF Elsewhere, CallStates
<1>2. central' \in {"duck", "null"}
  BY <1>0 DEF Typed, InitStore, ShutdownStore, InitWorker, ShutdownWorker
<1>3. UNCHANGED <<status, dmsg, selfExit>> /\ \A u \in Threads : dpc'[u] # "out" => dpc[u] # "out"
  <2>1. UNCHANGED threadVars => UNCHANGED <<status, dmsg, selfExit, dpc>>
    BY DEF threadVars
  <2>2. T!CreateThread(t) => UNCHANGED <<status, dmsg, selfExit, dpc>>
    BY DEF T!CreateThread, T!calls, T!loop
  <2>3. T!ExitThread(t) => UNCHANGED <<status, dmsg, selfExit>> /\ dpc' = T!NotifyAll(dpc)
    BY DEF T!ExitThread, T!loop
  <2>4. dpc' = T!NotifyAll(dpc) => \A u \in Threads : dpc'[u] # "out" => dpc[u] # "out"
    BY DEF T!NotifyAll, T!Threads, Threads
  <2> QED
    BY <2>1, <2>2, <2>3, <2>4 DEF InitStore, ShutdownStore, InitWorker, ShutdownWorker
<1>4. Controlled'
  <2>1. UNCHANGED threadVars => UNCHANGED <<selfExit, ctlpc, ctlby>>
    BY DEF threadVars
  <2>2. T!CreateThread(t) \/ T!ExitThread(t) => ctlby' = t
    BY DEF T!CreateThread, T!ExitThread
  <2> QED
    BY <1>0, <1>3, <2>1, <2>2 DEF Controlled, InitStore, ShutdownStore, InitWorker, ShutdownWorker
<1>5. \A i \in 1 .. Len(normalQueue') : normalQueue'[i] \in Ops =>
        i \in 1 .. Len(normalQueue) /\ normalQueue[i] = normalQueue'[i]
  <2>1. UNCHANGED threadVars \/ T!CreateThread(t) => UNCHANGED normalQueue
    BY DEF threadVars, T!CreateThread, T!queues
  <2>2. CASE UNCHANGED normalQueue
    BY <2>2
  <2>3. CASE normalQueue' = Append(normalQueue, ExitMsg)
    <3>1. /\ Len(normalQueue') = Len(normalQueue) + 1 /\ Len(normalQueue) \in Nat
          /\ normalQueue'[Len(normalQueue) + 1] = ExitMsg
          /\ \A i \in 1 .. Len(normalQueue) : normalQueue'[i] = normalQueue[i]
      BY <1>0, <2>3
    <3>2. \A i \in 1 .. Len(normalQueue') : i \in 1 .. Len(normalQueue) \/ i = Len(normalQueue) + 1
      BY <3>1
    <3> QED
      BY <1>0, <3>1, <3>2
  <2>4. T!ExitThread(t) => normalQueue' = Append(normalQueue, ExitMsg)
    BY DEF T!ExitThread
  <2> QED
    BY <2>1, <2>2, <2>3, <2>4 DEF InitStore, ShutdownStore, InitWorker, ShutdownWorker
<1> QED
  BY <1>0, <1>1, <1>2, <1>3, <1>4, <1>5, StillKept

(* The invariant of the proxy and its worker.                              *)
LEMMA DInvKept ==
  ASSUME DInv, [Next]_vars
  PROVE  DInv'
<1>1. TP!MInv'
  BY WorkerKept DEF DInv
<1>2. Proxy'
  <2>1. CASE \E t \in Threads : Own(t)
    BY <2>1, CallKept, LastKept, ReturnsKept, LifecycleKept, LoadKept, UnwindKept, RunKept DEF Own
  <2>2. CASE \E t \in Threads : Dispatch(t)
    BY <2>2, DispatchKept
  <2>3. CASE \E w \in Workers : Take(w) \/ Finish(w)
    BY <2>3, TakeKept, FinishKept
  <2>4. CASE \E t \in Controllers : InitWorker(t) \/ ShutdownWorker(t)
    BY <2>4, LifecycleKept DEF Threads
  <2>5. CASE ThreadStep
    BY <2>5, ThreadStepKept
  <2>6. CASE UNCHANGED vars
    <3>1. /\ Typed /\ Controlled /\ Calling /\ Recorded /\ Opened /\ Numbered /\ Freed /\ InOrder
          /\ UNCHANGED <<issued, kind, target, before, pc, cur, body, outcome, place, freed, terminated, central>>
          /\ UNCHANGED <<status, normalQueue, selfExit, ctlpc, ctlby, dpc, dmsg>>
      BY <2>6, Split DEF Proxy, Known, vars, opVars, callVars, threadVars
    <3>2. Typed' /\ Controlled' /\ Calling' /\ Recorded' /\ Opened' /\ Numbered'
      BY <3>1 DEF Typed, Controlled, Calling, Recorded, Opened, Numbered
    <3>3. Freed'
      BY <3>1, FreedFrame DEF TaskAlive, CallerHolds, MsgHolds
    <3> QED
      BY <3>1, <3>2, <3>3, InOrderStill DEF Proxy, Known
  <2> QED
    BY <2>1, <2>2, <2>3, <2>4, <2>5, <2>6, Steps
<1>3. DInv' <=> TP!MInv' /\ Proxy'
  BY DEF DInv, OInv, Proxy, Known
<1> QED
  BY <1>1, <1>2, <1>3

LEMMA DInvInit == Init => DInv
<1> SUFFICES ASSUME Init PROVE DInv
  OBVIOUS
<1>1. TP!MInv
  BY InitThread, Premises, TP!InitQInv, TP!InitPlaced DEF TP!MInv
<1>2. /\ status = [m \in Ops |-> "new"] /\ dpc = [t \in Threads |-> "out"] /\ selfExit = {} /\ ctlpc = "none"
  BY DEF Init, T!Init, T!Threads, Threads
<1>3. Typed /\ Controlled
  <2>1. issued \in 0 .. 2 * MaxCalls
    BY DuckAssumption DEF Init
  <2> QED
    BY <1>2, <2>1 DEF Init, Typed, Controlled, CallStates, Outcomes
<1>4. Calling /\ Recorded /\ Opened /\ Numbered
  <2>1. \A m \in Ops : ~(m <= issued)
    BY DuckAssumption DEF Init, Ops
  <2> QED
    BY <1>2, <2>1, DuckAssumption DEF Init, Calling, Recorded, Opened, Numbered, Opens
<1>5. Freed /\ InOrder
  BY <1>2 DEF Init, Freed, FreedIffUnowned, InOrder
<1> QED
  BY <1>1, <1>3, <1>4, <1>5 DEF DInv, OInv

(* The invariant of the proxy and its worker.                              *)
LEMMA DInvAlways == Spec => []DInv
<1> QED
  BY DInvInit, DInvKept, PTL DEF Spec

(* No task finds its handle closed and no owner loses one: what is owned   *)
(* is alive, what nobody owns any more has been destroyed, for every       *)
(* timeout, refused dispatch, shutdown and restart.                        *)
THEOREM OwnershipAlwaysHolds == Spec => []OwnershipHolds
<1>1. DInv => TypeOK
  <2> SUFFICES ASSUME DInv PROVE TypeOK
    OBVIOUS
  <2>1. TP!TypeOK /\ Typed
    BY Split DEF TP!MInv, TP!QInv, TP!IInv, Proxy
  <2>2. T!TypeOK
    BY <2>1 DEF TP!TypeOK, T!TypeOK, T!Threads, TP!Threads, T!WorkerStates, TP!WorkerStates,
       T!CallStates, TP!CallStates, T!CtlStates, TP!CtlStates, T!Fates, TP!Fates
  <2> QED
    BY <2>1, <2>2 DEF TypeOK, Typed
<1>2. DInv => TaskOnLiveHandle
  <2> SUFFICES ASSUME DInv, NEW w \in Workers, worker[w] = "invoking", body[wmsg[w]] = "none",
                      target[wmsg[w]] # NoMsg
               PROVE  body[target[wmsg[w]]] = "ok" /\ freed[target[wmsg[w]]] = NoThread
    BY DEF TaskOnLiveHandle
  <2>1. PICK m \in Ops : m = wmsg[w] /\ status[m] = "invoking"
    BY Split, WorkerServes
  <2>2. PICK h \in Ops : h = target[m] /\ h # m /\ place[h] # "none" /\ body[h] = "ok"
    BY <2>1, Split DEF Proxy, Known, Opened, Typed
  <2>3. Held(h)
    BY <2>1, <2>2 DEF Held, TaskAlive, MsgHolds
  <2>4. freed[h] = NoThread
    BY <2>2, <2>3, Split DEF Proxy, Freed, FreedIffUnowned
  <2> QED
    BY <2>1, <2>2, <2>4
<1>3. DInv => FreedIffUnowned
  BY DEF DInv, Freed
<1> QED
  BY <1>1, <1>2, <1>3, DInvAlways, PTL DEF OwnershipHolds

(* Operations run in the order of dispatch, those included whose callers   *)
(* gave up waiting.                                                        *)
THEOREM SequentialIntegrityHolds == Spec => []SequentialIntegrity
<1>1. DInv => SequentialIntegrity
  <2> SUFFICES ASSUME DInv, NEW n \in Ops, body[n] # "none", NEW m \in before[n]
               PROVE  body[m] # "none"
    BY DEF SequentialIntegrity
  <2>1. m \in Ops
    BY Split DEF Proxy, Typed
  <2>2. status[n] \in {"invoking", "done"}
    BY Split DEF Proxy, Known, Recorded
  <2>3. status[m] = "done"
    BY <2>2, Split DEF Proxy, InOrder
  <2> QED
    BY <2>1, <2>3, Split DEF Proxy, Known, Recorded
<1> QED
  BY <1>1, DInvAlways, PTL

(* When shutdown_worker has returned, nothing waits and nothing runs.      *)
THEOREM ShutdownAlwaysQuiesces == Spec => []ShutdownQuiesces
<1>1. DInv => ShutdownQuiesces
  <2> SUFFICES ASSUME DInv, mThread = NoThread, ctlpc = "none"
               PROVE  /\ \A m \in Ops : status[m] \notin {"queued", "invoking"}
                      /\ \A w \in Workers : worker[w] \in {"unborn", "stopped"}
    BY DEF ShutdownQuiesces
  <2>1. TP!MInv /\ selfExit = {} /\ mThread \notin Workers
    BY Split, DuckAssumption DEF Proxy, Controlled, Threads
  <2>2. normalQueue = <<>>
    BY <2>1 DEF TP!MInv, TP!QInv, TP!IInv, TP!Stranding
  <2>3. \A w \in Workers : worker[w] \in {"unborn", "stopped"}
    BY <2>1, WorkerTypes DEF TP!MInv, TP!QInv, TP!IInv, TP!Inv, TP!LiveIsHeld, TP!Live, TP!WorkerStates
  <2>4. \A m \in Ops : status[m] # "queued"
    BY <2>1, <2>2, WorkerServes
  <2>5. \A m \in Ops : status[m] # "invoking"
    <3> SUFFICES ASSUME NEW m \in Ops, status[m] = "invoking" PROVE FALSE
      OBVIOUS
    <3>1. PICK w \in Workers : wmsg[w] = m
      BY <2>1, WorkerServes
    <3> QED
      BY <2>1, <2>3, <3>1, WorkerServes, DuckAssumption
  <2> QED
    BY <2>3, <2>4, <2>5
<1> QED
  BY <1>1, DInvAlways, PTL

-----------------------------------------------------------------------------
(* The proxy implements a SerialEngine.                                    *)

(* What the mapping gives to the variables answer and gone.                *)
Answers ==
  [m \in Ops |->
    IF m > issued THEN "uncalled" ELSE IF outcome[m] = "none" THEN "awaited" ELSE outcome[m]]
Gone == {h \in Ops : freed[h] # NoThread}
Normal == T!MailboxNormal

-----------------------------------------------------------------------------
(* The operations that the engine has still to run.                        *)

LEMMA NormalIsStripped == Normal = TP!Stripped(normalQueue)
BY DEF Normal, T!MailboxNormal, TP!Stripped

(* The exit message apart, the queue is as it is.                          *)
LEMMA NormalHolds ==
  ASSUME normalQueue \in Seq(Ops \cup {ExitMsg})
  PROVE  /\ Normal \in Seq(Ops \cup {ExitMsg})
         /\ \A m \in Ops : (\E i \in 1 .. Len(Normal) : Normal[i] = m)
                             <=> (\E i \in 1 .. Len(normalQueue) : normalQueue[i] = m)
<1>1. CASE Len(normalQueue) > 0 /\ normalQueue[Len(normalQueue)] = ExitMsg
  <2>1. Normal = SubSeq(normalQueue, 1, Len(normalQueue) - 1) /\ Len(normalQueue) \in Nat \ {0}
    BY <1>1 DEF Normal, T!MailboxNormal
  <2>2. /\ Normal \in Seq(Ops \cup {ExitMsg}) /\ Len(Normal) = Len(normalQueue) - 1
        /\ \A i \in 1 .. Len(normalQueue) - 1 : Normal[i] = normalQueue[i]
    <3> DEFINE last == Len(normalQueue) - 1
    <3>1. last \in Nat /\ last <= Len(normalQueue)
      BY <2>1
    <3>2. \A i \in 1 .. last : normalQueue[i] \in Ops \cup {ExitMsg}
      BY <2>1
    <3> HIDE DEF last
    <3>3. SubSeq(normalQueue, 1, last) = [i \in 1 .. last |-> normalQueue[i]]
      BY <3>1
    <3>4. Len(SubSeq(normalQueue, 1, last)) = last
      BY <3>1
    <3> QED
      BY <2>1, <3>1, <3>2, <3>3, <3>4 DEF last
  <2>3. \A i \in 1 .. Len(normalQueue) : i \in 1 .. Len(normalQueue) - 1 \/ i = Len(normalQueue)
    BY <2>1
  <2>4. \A m \in Ops, i \in 1 .. Len(normalQueue) : normalQueue[i] = m => i \in 1 .. Len(Normal)
    BY <1>1, <2>2, <2>3, DuckAssumption
  <2>5. \A i \in 1 .. Len(Normal) : i \in 1 .. Len(normalQueue) /\ Normal[i] = normalQueue[i]
    BY <2>1, <2>2
  <2> QED
    BY <2>2, <2>4, <2>5
<1>2. CASE ~(Len(normalQueue) > 0 /\ normalQueue[Len(normalQueue)] = ExitMsg)
  <2>1. Normal = normalQueue
    BY <1>2 DEF Normal, T!MailboxNormal
  <2> QED
    BY <2>1
<1> QED
  BY <1>1, <1>2

(* One worker runs a task at most.                                         *)
LEMMA OneRuns ==
  ASSUME DInv, NEW v \in Workers, NEW w \in Workers,
         worker[v] \in {"idle", "invoking"}, worker[w] \in {"idle", "invoking"}
  PROVE  v = w
<1>1. TP!MInv /\ selfExit = {}
  BY Split DEF Proxy, Controlled
<1> QED
  BY <1>1, WorkerServes

LEMMA PendingIdle ==
  ASSUME Running = {}
  PROVE  Pending = Normal
BY DEF Pending, Normal

LEMMA PendingRuns ==
  ASSUME DInv, NEW w \in Running
  PROVE  Running = {w} /\ Pending = <<wmsg[w]>> \o Normal
<1>1. Running = {w}
  BY OneRuns DEF Running
<1>2. (CHOOSE v \in Workers : v \in Running) = w
  BY <1>1 DEF Running
<1> QED
  BY <1>1, <1>2 DEF Pending, Normal

(* An operation that has been accepted is in the queue or is being run.    *)
LEMMA AcceptedIs ==
  ASSUME DInv, NEW m \in Ops
  PROVE  E!Accepted(m) <=> status[m] = "queued" \/ (status[m] = "invoking" /\ body[m] = "none")
<1>0. /\ TP!MInv /\ Normal \in Seq(Ops \cup {ExitMsg})
      /\ (\E i \in 1 .. Len(Normal) : Normal[i] = m) <=> status[m] = "queued"
  BY Split, WorkerTypes, WorkerServes, NormalHolds
<1>1. CASE Running = {}
  <2>1. ~(status[m] = "invoking" /\ body[m] = "none")
    <3> SUFFICES ASSUME status[m] = "invoking", body[m] = "none" PROVE FALSE
      OBVIOUS
    <3>1. PICK w \in Workers : wmsg[w] = m
      BY <1>0, WorkerServes
    <3>2. worker[w] = "invoking"
      BY <1>0, <3>1, WorkerServes, DuckAssumption
    <3> QED
      BY <1>1, <3>1, <3>2 DEF Running
  <2>2. Pending = Normal
    BY <1>1, PendingIdle
  <2> QED
    BY <1>0, <2>1, <2>2 DEF E!Accepted
<1>2. CASE Running # {}
  <2>1. PICK w \in Workers : w \in Running
    BY <1>2 DEF Running
  <2>2. Running = {w} /\ Pending = <<wmsg[w]>> \o Normal
    BY <2>1, PendingRuns
  <2>3. wmsg[w] \in Ops /\ status[wmsg[w]] = "invoking" /\ body[wmsg[w]] = "none"
    BY <1>0, <2>1, WorkerServes DEF Running
  <2>4. status[m] = "invoking" /\ body[m] = "none" <=> m = wmsg[w]
    <3>1. ASSUME status[m] = "invoking", body[m] = "none" PROVE m = wmsg[w]
      <4>1. PICK v \in Workers : wmsg[v] = m
        BY <1>0, <3>1, WorkerServes
      <4>2. worker[v] = "invoking"
        BY <1>0, <4>1, WorkerServes, DuckAssumption
      <4>3. v \in Running
        BY <3>1, <4>1, <4>2 DEF Running
      <4> QED
        BY <2>2, <4>1, <4>3
    <3> QED
      BY <2>3, <3>1
  <2>5. /\ Len(Pending) = Len(Normal) + 1 /\ Len(Normal) \in Nat /\ Pending[1] = wmsg[w]
        /\ \A i \in 1 .. Len(Normal) : Pending[i + 1] = Normal[i]
    BY <1>0, <2>2, <2>3
  <2>6. (\E i \in 1 .. Len(Pending) : Pending[i] = m)
          <=> m = wmsg[w] \/ (\E i \in 1 .. Len(Normal) : Normal[i] = m)
    <3>1. \A i \in 1 .. Len(Pending) : i = 1 \/ (i - 1 \in 1 .. Len(Normal) /\ (i - 1) + 1 = i)
      BY <2>5
    <3>2. 1 \in 1 .. Len(Pending) /\ \A i \in 1 .. Len(Normal) : i + 1 \in 1 .. Len(Pending)
      BY <2>5
    <3>3. ASSUME NEW i \in 1 .. Len(Pending), Pending[i] = m
          PROVE  m = wmsg[w] \/ (\E j \in 1 .. Len(Normal) : Normal[j] = m)
      <4>1. CASE i = 1
        BY <2>5, <3>3, <4>1
      <4>2. CASE i # 1
        <5>1. i - 1 \in 1 .. Len(Normal) /\ Normal[i - 1] = m
          BY <2>5, <3>1, <3>3, <4>2
        <5> QED
          BY <5>1
      <4> QED
        BY <4>1, <4>2
    <3> QED
      BY <2>5, <3>2, <3>3
  <2> QED
    BY <1>0, <2>4, <2>6 DEF E!Accepted
<1> QED
  BY <1>1, <1>2

-----------------------------------------------------------------------------
(* Steps that the engine does not see.                                     *)
LEMMA EngineStutters ==
  ASSUME UNCHANGED <<target, issued, outcome, body, freed>>, Pending' = Pending
  PROVE  [E!Next]_(E!vars)
BY DEF E!vars

LEMMA PendingSame ==
  ASSUME UNCHANGED <<wmsg, body>>, Running' = Running, Normal' = Normal
  PROVE  Pending' = Pending
BY DEF Pending, Normal

(* What a caller has got, when nobody gets anything, when an operation     *)
(* begins, and when its caller gets something.                             *)
LEMMA AnswersBegin ==
  ASSUME Typed, Recorded, NEW n \in Ops, n = issued + 1, issued' = issued + 1, UNCHANGED outcome
  PROVE  Answers[n] = "uncalled" /\ Answers' = [Answers EXCEPT ![n] = "awaited"]
<1>1. /\ \A m \in Ops : m \in Nat /\ issued \in Nat
      /\ outcome[n] = "none"
  BY DuckAssumption DEF Typed, Recorded, Ops
<1>2. /\ n > issued /\ ~(n > issued')
      /\ \A m \in Ops : m # n => (m > issued' <=> m > issued)
  BY <1>1
<1>3. /\ Answers = [m \in Ops |-> Answers[m]] /\ Answers' = [m \in Ops |-> Answers'[m]]
      /\ Answers[n] = "uncalled" /\ Answers'[n] = "awaited"
      /\ \A m \in Ops : m # n => Answers'[m] = Answers[m]
  BY <1>1, <1>2 DEF Answers
<1> QED
  BY <1>3

LEMMA AnswersGot ==
  ASSUME Typed, NEW n \in Ops, n <= issued, outcome[n] = "none", NEW o \in Outcomes \ {"none"},
         outcome' = [outcome EXCEPT ![n] = o], UNCHANGED issued
  PROVE  Answers[n] = "awaited" /\ Answers' = [Answers EXCEPT ![n] = o]
<1>1. outcome \in [Ops -> Outcomes] /\ n \in Nat /\ issued \in Nat
  BY DuckAssumption DEF Typed, Ops
<1>2. ~(n > issued)
  BY <1>1
<1>3. /\ Answers = [m \in Ops |-> Answers[m]] /\ Answers' = [m \in Ops |-> Answers'[m]]
      /\ Answers[n] = "awaited" /\ Answers'[n] = o
      /\ \A m \in Ops : m # n => Answers'[m] = Answers[m]
  BY <1>1, <1>2 DEF Answers
<1> QED
  BY <1>3

LEMMA AnswersSame ==
  ASSUME UNCHANGED <<issued, outcome>>
  PROVE  Answers' = Answers
BY DEF Answers

(* A handle in a proxy, or in the state of a call that has not returned,   *)
(* is one that exists.                                                     *)
LEMMA HeldExists ==
  ASSUME DInv, NEW h \in Ops, Held(h)
  PROVE  E!Exists(h)
<1>1. place[h] # "none" /\ freed[h] = NoThread
  BY Split, HeldIsOpened DEF Proxy, Known, Freed, FreedIffUnowned
<1>2. body[h] = "ok"
  BY <1>1, Split DEF Proxy, Known, Opened
<1> QED
  BY <1>1, <1>2 DEF E!Exists

-----------------------------------------------------------------------------
(* An operation is begun.                                                  *)
LEMMA BeginMaps ==
  ASSUME DInv, NEW t \in Threads, NEW k, NEW h \in Ops \cup {NoMsg}, Begin(t, k, h),
         issued + 1 \in Ops, h # NoMsg => Held(h),
         UNCHANGED <<threadVars, body, outcome, freed>>
  PROVE  [E!Next]_(E!vars)
<1>0. PICK n \in Ops : n = issued + 1
  OBVIOUS
<1>1. Answers[n] = "uncalled" /\ Answers' = [Answers EXCEPT ![n] = "awaited"]
  BY <1>0, Split, AnswersBegin DEF Proxy, Known, Begin
<1>2. target' = [target EXCEPT ![n] = h]
  BY <1>0 DEF Begin
<1>3. Pending' = Pending
  BY PendingSame DEF threadVars, Running, Normal, T!MailboxNormal
<1>4. h # NoMsg => E!Exists(h)
  BY HeldExists
<1>5. E!Call(n, h)
  BY <1>1, <1>2, <1>3, <1>4 DEF E!Call, Answers
<1>6. n \in E!With("uncalled")
  BY <1>1 DEF E!With, Answers
<1> QED
  BY <1>4, <1>5, <1>6 DEF E!Next

LEMMA CallMaps ==
  ASSUME DInv, NEW t \in Threads,
         \/ OpenDatabase(t)
         \/ \E h \in Ops, k \in AppKinds : Use(t, k, h)
         \/ \E h \in Ops : Destroy(t, h)
         \/ t \in Workers /\ FinishLast(t)
  PROVE  [E!Next]_(E!vars)
<1>0. Typed /\ Opened /\ Numbered /\ TP!MInv
  BY Split DEF Proxy, Known
<1>1. UNCHANGED <<threadVars, body, outcome, freed>>
  BY DEF OpenDatabase, Use, Destroy, FinishLast
<1>2. issued < MaxCalls => issued + 1 \in Ops
  BY <1>0, RoomToBegin
<1>3. CASE OpenDatabase(t)
  BY <1>1, <1>2, <1>3, BeginMaps DEF OpenDatabase, AppMayCall
<1>4. CASE \E h \in Ops, k \in AppKinds : Use(t, k, h)
  <2>1. PICK h \in Ops, k \in AppKinds : Begin(t, k, h) /\ place[h] = "proxy" /\ issued < MaxCalls
    BY <1>4 DEF Use, AppMayCall
  <2> QED
    BY <1>1, <1>2, <2>1, BeginMaps DEF Held
<1>5. CASE \E h \in Ops : Destroy(t, h)
  <2>1. PICK h \in Ops : Begin(t, "close", h) /\ place[h] = "proxy" /\ issued < MaxCalls
    BY <1>5 DEF Destroy, AppMayCall
  <2> QED
    BY <1>1, <1>2, <2>1, BeginMaps DEF Held
<1>6. CASE t \in Workers /\ FinishLast(t)
  <2>1. PICK h : h = wmsg[t]
    OBVIOUS
  <2>2. Begin(t, "close", h) /\ LeftBehind(h) /\ worker[t] = "invoking"
    BY <1>6, <2>1 DEF FinishLast
  <2>3. h \in Ops /\ status[h] = "invoking"
    BY <1>0, <1>6, <2>1, <2>2, WorkerServes
  <2>4. Held(h)
    BY <2>2, <2>3 DEF Held, LeftBehind, TaskAlive, MsgHolds
  <2>5. issued + 1 \in Ops
    BY <1>0, <2>2, <2>3, RoomToBegin
  <2> QED
    BY <1>1, <2>2, <2>3, <2>4, <2>5, BeginMaps
<1> QED
  BY <1>3, <1>4, <1>5, <1>6

(* The destructor of a proxy left behind, on the thread that unwinds: the  *)
(* destructor's task holds the handle, and the connection has its proxy.   *)
LEMMA UnwindLastMaps ==
  ASSUME DInv, NEW t \in Threads, UnwindLast(t)
  PROVE  [E!Next]_(E!vars)
<1>0. Typed /\ Calling /\ Opened /\ Numbered /\ NoMsg \notin Ops
  BY Split, DuckAssumption DEF Proxy, Known
<1>1. pc[t] = "unwind" /\ cur[t] \in Ops
  BY <1>0 DEF UnwindLast, At, Calling, Typed
<1>2. PICK h \in Ops : h = cur[t]
  BY <1>1
<1>3. /\ LeftBehind(h) /\ place' = [place EXCEPT ![h] = "task"] /\ Begin(t, "close", h) /\ Release(t)
      /\ UNCHANGED <<threadVars, central, body, outcome, terminated>>
  BY <1>2 DEF UnwindLast
<1>4. issued + 1 \in Ops
  BY <1>0, <1>3, RoomToBegin
<1>5. Held(h)
  BY <1>2, <1>3 DEF Held, LeftBehind, TaskAlive, CallerHolds
<1>6. PICK n : n = issued + 1
  OBVIOUS
<1>7. MayBegin(t, "close", h)
  <2>1. \A s \in Threads : cur[s] = h => pc[s] = "unwind"
    BY <1>0, <1>1, <1>2 DEF Calling
  <2>2. \A s \in Threads : cur[s] # NoMsg /\ target[cur[s]] = h => kind[cur[s]] = "close"
    <3> SUFFICES ASSUME NEW s \in Threads, cur[s] # NoMsg, target[cur[s]] = h, kind[cur[s]] # "close"
                 PROVE  FALSE
      OBVIOUS
    <3>1. PICK m \in Ops : m = cur[s]
      BY <1>0 DEF Typed
    <3>2. place[target[m]] = "proxy"
      BY <1>0, <3>1 DEF Opened
    <3> QED
      BY <1>3, <3>1, <3>2 DEF LeftBehind
  <2> QED
    BY <1>0, <1>1, <1>3, <2>1, <2>2 DEF MayBegin, LeftBehind, Kinds
<1>8. /\ target' = [target EXCEPT ![n] = h] /\ TaskAlive(n)' /\ ~TaskAlive(n)
      /\ \A m \in Ops : m # n =>
           target'[m] = target[m] /\ (TaskAlive(m) /\ m # h => TaskAlive(m)')
      /\ n \in Ops /\ h # n
  BY <1>2, <1>3, <1>6, <1>7, BeginAlive
<1>9. \A g \in Ops : Held(g) => Held(g)'
  <2> SUFFICES ASSUME NEW g \in Ops, Held(g) PROVE Held(g)'
    OBVIOUS
  <2>1. CASE g = h
    <3>1. target'[n] = h
      BY <1>0, <1>8 DEF Typed
    <3> QED
      BY <1>8, <2>1, <3>1 DEF Held
  <2>2. CASE g # h
    <3>1. place'[g] = place[g]
      BY <1>3, <2>2
    <3>2. CASE place[g] = "proxy"
      BY <3>1, <3>2 DEF Held
    <3>3. CASE place[g] = "state" /\ TaskAlive(g)
      <4>1. TaskAlive(g)'
        BY <1>8, <2>2, <3>3
      <4> QED
        BY <3>1, <3>3, <4>1 DEF Held
    <3>4. CASE \E m \in Ops \ {g} : target[m] = g /\ TaskAlive(m)
      <4>1. PICK m \in Ops \ {g} : target[m] = g /\ TaskAlive(m)
        BY <3>4
      <4>2. CASE m = h
        <5>1. place[g] = "proxy"
          BY <1>0, <1>1, <1>2, <1>3, <4>1, <4>2 DEF Opened, LeftBehind
        <5> QED
          BY <3>2, <5>1
      <4>3. CASE m # h
        <5>1. target'[m] = g /\ TaskAlive(m)'
          BY <1>8, <4>1, <4>3
        <5> QED
          BY <5>1 DEF Held
      <4> QED
        BY <4>2, <4>3
    <3> QED
      BY <2>2, <3>2, <3>3, <3>4 DEF Held
  <2> QED
    BY <2>1, <2>2
<1>10. freed' = freed
  <2>1. freed = [g \in Ops |-> freed[g]]
    BY <1>0 DEF Typed
  <2>2. \A g \in Ops : (IF Held(g) /\ ~Held(g)' THEN t ELSE freed[g]) = freed[g]
    BY <1>9
  <2> QED
    BY <1>3, <2>1, <2>2 DEF Release
<1> QED
  BY <1>3, <1>4, <1>5, <1>10, BeginMaps

-----------------------------------------------------------------------------
(* A caller gets its result, or gives up.                                  *)
LEMMA GotMaps ==
  ASSUME DInv, NEW t \in Threads, NEW o \in {"value", "error", "timeout", "invalid", "returned"},
         pc[t] = "sent", Got(t, o), UNCHANGED <<threadVars, opVars, body, freed>>,
         o = "value" => body[cur[t]] = "ok",
         o = "error" => body[cur[t]] = "threw",
         o = "timeout" => body[cur[t]] = "none",
         o = "invalid" => status[cur[t]] = "threw"
  PROVE  [E!Next]_(E!vars)
<1>0. Typed /\ Calling /\ Recorded
  BY Split DEF Proxy, Known
<1>1. PICK m \in Ops : m = cur[t] /\ m <= issued /\ outcome[m] = "none"
  <2>1. cur[t] \in Ops /\ cur[t] <= issued
    BY <1>0 DEF Calling, Typed
  <2> QED
    BY <1>0, <2>1 DEF Recorded
<1>2. outcome' = [outcome EXCEPT ![m] = o] /\ UNCHANGED issued /\ o \in Outcomes \ {"none"}
  BY <1>1 DEF Got, opVars, Outcomes
<1>3. Answers[m] = "awaited" /\ Answers' = [Answers EXCEPT ![m] = o]
  BY <1>0, <1>1, <1>2, AnswersGot
<1>4. Pending' = Pending
  BY PendingSame DEF threadVars, Running, Normal, T!MailboxNormal
<1>5. o = "invalid" => body[m] = "none" /\ ~E!Accepted(m)
  <2>1. status[m] = "threw" => body[m] = "none"
    BY <1>0 DEF Recorded
  <2> QED
    BY <1>1, <2>1, AcceptedIs
<1>6. E!Answer(m, o)
  BY <1>1, <1>3, <1>4, <1>5 DEF E!Answer, Answers, opVars
<1>7. m \in E!With("awaited")
  BY <1>1, <1>3 DEF E!With, Answers
<1> QED
  BY <1>6, <1>7 DEF E!Next, E!Answer

LEMMA ReturnsMap ==
  ASSUME DInv, NEW t \in Threads,
         DispatchThrows(t) \/ ReturnAtOnce(t) \/ SyncDone(t) \/ SyncTimeout(t)
  PROVE  [E!Next]_(E!vars)
<1>0. UNCHANGED <<threadVars, opVars, body, freed>> /\ pc[t] = "sent"
  BY DEF DispatchThrows, ReturnAtOnce, SyncDone, SyncTimeout, Dispatched, At
<1>1. CASE DispatchThrows(t)
  <2>1. CASE UNCHANGED outcome
    <3>1. Pending' = Pending
      BY <1>0, PendingSame DEF threadVars, Running, Normal, T!MailboxNormal
    <3> QED
      BY <1>0, <2>1, <3>1, EngineStutters DEF opVars
  <2>2. CASE Got(t, "invalid")
    BY <1>0, <1>1, <2>2, GotMaps DEF DispatchThrows
  <2> QED
    BY <1>1, <2>1, <2>2 DEF DispatchThrows
<1>2. CASE ReturnAtOnce(t)
  BY <1>0, <1>2, GotMaps DEF ReturnAtOnce
<1>3. CASE SyncDone(t)
  <2>1. body[cur[t]] # "none" /\ Got(t, IF body[cur[t]] = "ok" THEN "value" ELSE "error")
    BY <1>3 DEF SyncDone
  <2>2. body[cur[t]] \in {"ok", "threw"}
    <3>1. cur[t] \in Ops /\ body \in [Ops -> {"none", "ok", "threw"}]
      BY <1>0, Split DEF Proxy, Known, Calling, Typed
    <3> QED
      BY <2>1, <3>1
  <2>3. CASE body[cur[t]] = "ok"
    BY <1>0, <2>1, <2>3, GotMaps
  <2>4. CASE body[cur[t]] = "threw"
    BY <1>0, <2>1, <2>4, GotMaps
  <2> QED
    BY <2>2, <2>3, <2>4
<1>4. CASE SyncTimeout(t)
  BY <1>0, <1>4, GotMaps DEF SyncTimeout
<1> QED
  BY <1>1, <1>2, <1>3, <1>4

(* The engine executes the first operation it has accepted.                *)
LEMMA RunMaps ==
  ASSUME DInv, NEW w \in Workers, RunTask(w)
  PROVE  [E!Next]_(E!vars)
<1>0. /\ TP!MInv /\ Typed /\ Opened /\ NoMsg \notin Ops
      /\ UNCHANGED <<threadVars, target, issued, outcome, freed>> /\ worker[w] = "invoking"
  BY Split, DuckAssumption DEF Proxy, Known, RunTask, opVars
<1>1. PICK m \in Ops : m = wmsg[w] /\ status[m] = "invoking" /\ body[m] = "none"
  BY <1>0, WorkerServes DEF RunTask
<1>2. PICK r \in {"ok", "threw"} : body' = [body EXCEPT ![m] = r]
  BY <1>1 DEF RunTask
<1>3. Running = {w} /\ Pending = <<m>> \o Normal
  <2>1. w \in Running
    BY <1>0, <1>1 DEF Running
  <2> QED
    BY <1>1, <2>1, PendingRuns
<1>4. Running' = {}
  <2>1. UNCHANGED <<worker, wmsg>>
    BY <1>0 DEF threadVars
  <2>2. body'[m] # "none" /\ \A n \in Ops : n # m => body'[n] = body[n]
    BY <1>0, <1>2 DEF Typed
  <2>3. \A v \in Workers : worker[v] = "invoking" => v = w
    BY <1>0, OneRuns
  <2> QED
    BY <1>1, <2>1, <2>2, <2>3 DEF Running
<1>5. Normal' = Normal /\ Pending' = Normal
  <2>1. Normal' = Normal
    BY <1>0 DEF Normal, T!MailboxNormal, threadVars
  <2>2. Pending' = Normal'
    BY <1>4 DEF Pending, Normal
  <2> QED
    BY <2>1, <2>2
<1>6. Pending # <<>> /\ Head(Pending) = m /\ Tail(Pending) = Normal
  <2>1. Normal \in Seq(Ops \cup {ExitMsg})
    BY <1>0, WorkerTypes, NormalHolds
  <2> QED
    BY <1>3, <2>1
<1>7. target[m] # NoMsg => E!Exists(target[m])
  <2> SUFFICES ASSUME target[m] # NoMsg PROVE E!Exists(target[m])
    OBVIOUS
  <2>1. target[m] \in Ops /\ target[m] # m
    BY <1>0 DEF Typed, Opened
  <2>2. Held(target[m])
    BY <1>1, <2>1 DEF Held, TaskAlive, MsgHolds
  <2> QED
    BY <2>1, <2>2, HeldExists
<1>8. Answers' = Answers /\ Gone' = Gone
  BY <1>0 DEF Answers, Gone
<1>9. E!Execute
  BY <1>0, <1>2, <1>5, <1>6, <1>7, <1>8 DEF E!Execute, Answers, Gone
<1> QED
  BY <1>9 DEF E!Next

(* The handles that go are those that nothing still to come works on.      *)
LEMMA ReleaseMaps ==
  ASSUME DInv, NEW t \in Threads, Release(t), UNCHANGED <<target, issued, outcome, body>>,
         Pending' = Pending,
         \A m \in Ops : E!Accepted(m) => TaskAlive(m)',
         \A m \in Ops, u \in Threads : cur[u] = m /\ pc[u] # "unwind" => TaskAlive(m)'
  PROVE  [E!Next]_(E!vars)
<1>0. Typed /\ Recorded /\ Opened /\ NoMsg \notin Ops
  BY Split, DuckAssumption DEF Proxy, Known
<1> DEFINE H == {h \in Ops : Held(h) /\ ~Held(h)'}
<1>1. Answers' = Answers
  BY AnswersSame
<1>2. \A h \in H : E!Exists(h)
  BY HeldExists
<1>3. ASSUME NEW h \in H, NEW m \in Ops, target[m] = h
      PROVE  Answers[m] # "awaited" /\ ~E!Accepted(m)
  <2>1. m # h
    BY <1>0, <1>3 DEF Opened
  <2>2. ~TaskAlive(m)'
    BY <1>3, <2>1 DEF Held
  <2>3. Answers[m] = "awaited" => outcome[m] = "none" /\ m <= issued
    <3>1. m \in Nat /\ issued \in Nat /\ outcome[m] \in Outcomes
      BY <1>0, DuckAssumption DEF Typed, Ops
    <3> QED
      BY <3>1 DEF Answers, Outcomes
  <2>4. Answers[m] = "awaited" => \E u \in Threads : cur[u] = m /\ pc[u] # "unwind"
    BY <1>0, <2>3 DEF Recorded
  <2> QED
    BY <2>2, <2>4
<1>4. Gone' = Gone \cup H
  <2>1. \A h \in Ops : freed'[h] = IF Held(h) /\ ~Held(h)' THEN t ELSE freed[h]
    BY DEF Release
  <2>2. t # NoThread
    BY DuckAssumption
  <2>3. \A h \in Ops : freed'[h] # NoThread <=> freed[h] # NoThread \/ h \in H
    BY <2>1, <2>2
  <2> QED
    BY <2>3 DEF Gone
<1>5. H \in SUBSET {h \in Ops : E!Exists(h)}
  BY <1>2
<1>6. \A h \in H : /\ E!Exists(h)
                   /\ \A m \in Ops : target[m] = h => Answers[m] # "awaited" /\ ~E!Accepted(m)
  BY <1>2, <1>3
<1>7. PICK G : G = H
  OBVIOUS
<1> HIDE DEF H
<1>8. E!DestroyHandles(G)
  BY <1>1, <1>4, <1>6, <1>7 DEF E!DestroyHandles, Answers, Gone
<1>9. G \in SUBSET {h \in Ops : E!Exists(h)}
  BY <1>5, <1>7
<1> QED
  BY <1>8, <1>9 DEF E!Next

LEMMA UnwindMaps ==
  ASSUME DInv, NEW t \in Threads, Unwind(t)
  PROVE  [E!Next]_(E!vars)
<1>0. /\ UNCHANGED <<threadVars, target, issued, outcome, body>> /\ UNCHANGED status
      /\ Release(t) /\ pc[t] = "unwind" /\ cur' = [cur EXCEPT ![t] = NoMsg]
      /\ cur \in [Threads -> Ops \cup {NoMsg}]
  BY Split DEF Proxy, Typed, Unwind, At, opVars, threadVars
<1>1. Pending' = Pending
  BY <1>0, PendingSame DEF threadVars, Running, Normal, T!MailboxNormal
<1>2. \A m \in Ops : E!Accepted(m) => TaskAlive(m)'
  BY <1>0, AcceptedIs DEF TaskAlive, MsgHolds
<1>3. \A m \in Ops, u \in Threads : cur[u] = m /\ pc[u] # "unwind" => TaskAlive(m)'
  BY <1>0 DEF TaskAlive, CallerHolds
<1> QED
  BY <1>0, <1>1, <1>2, <1>3, ReleaseMaps

LEMMA FinishMaps ==
  ASSUME DInv, NEW w \in Workers, Finish(w)
  PROVE  [E!Next]_(E!vars)
<1>0. /\ TP!MInv /\ UNCHANGED <<target, issued, outcome, body, cur, normalQueue>>
      /\ Release(w) /\ worker[w] = "invoking" /\ body[wmsg[w]] # "none" /\ w \in Threads
      /\ worker' = [worker EXCEPT ![w] = "idle"] /\ wmsg' = [wmsg EXCEPT ![w] = NoMsg]
      /\ status' = [status EXCEPT ![wmsg[w]] = "done"] /\ status \in [Ops -> TP!Fates]
      /\ worker \in [Workers -> TP!WorkerStates]
  BY Split, WorkerTypes
  DEF Proxy, Controlled, Finish, T!Finish, T!InLoop, T!queues, opVars, callVars, Threads
<1>1. Pending' = Pending
  <2>1. \A v \in Workers : worker[v] = "invoking" => v = w
    BY <1>0, OneRuns
  <2>2. Running = {}
    BY <1>0, <2>1 DEF Running
  <2>3. Running' = {}
    BY <1>0, <2>1 DEF Running
  <2>4. Normal' = Normal
    BY <1>0 DEF Normal, T!MailboxNormal
  <2> QED
    BY <2>2, <2>3, <2>4 DEF Pending, Normal
<1>2. \A m \in Ops : E!Accepted(m) => TaskAlive(m)'
  <2> SUFFICES ASSUME NEW m \in Ops, E!Accepted(m) PROVE TaskAlive(m)'
    OBVIOUS
  <2>1. status[m] = "queued" \/ (status[m] = "invoking" /\ body[m] = "none")
    BY AcceptedIs
  <2>2. m # wmsg[w]
    BY <1>0, <2>1, WorkerServes
  <2> QED
    BY <1>0, <2>1, <2>2 DEF TaskAlive, MsgHolds
<1>3. \A m \in Ops, u \in Threads : cur[u] = m /\ pc[u] # "unwind" => TaskAlive(m)'
  BY <1>0 DEF TaskAlive, CallerHolds
<1> QED
  BY <1>0, <1>1, <1>2, <1>3, ReleaseMaps

-----------------------------------------------------------------------------
(* The queue.                                                              *)
LEMMA TakeMapsPending ==
  ASSUME DInv, NEW w \in Workers, Take(w)
  PROVE  [E!Next]_(E!vars)
<1>0. /\ TP!MInv /\ Typed /\ Recorded
      /\ UNCHANGED <<target, issued, outcome, body, freed>> /\ worker[w] = "idle"
      /\ normalQueue \in Seq(Ops \cup {ExitMsg}) /\ highQueue = <<>> /\ ExitMsg \notin Ops
      /\ worker \in [Workers -> TP!WorkerStates] /\ wmsg \in [Workers -> Ops \cup {NoMsg}]
      /\ Normal \in Seq(Ops \cup {ExitMsg})
  BY Split, WorkerTypes, DuckAssumption, NormalHolds DEF Proxy, Known, Take, T!Take, T!InLoop, opVars
<1>1. \A v \in Workers : worker[v] # "invoking"
  BY <1>0, OneRuns
<1>2. Running = {} /\ Pending = Normal
  <2>1. Running = {}
    BY <1>1 DEF Running
  <2> QED
    BY <2>1, PendingIdle
<1>3. PICK m \in Ops \cup {ExitMsg} :
        /\ normalQueue # <<>> /\ m = Head(normalQueue) /\ normalQueue' = Tail(normalQueue)
        /\ \/ m = ExitMsg /\ worker' = [worker EXCEPT ![w] = "stopped"] /\ UNCHANGED wmsg
           \/ /\ m # ExitMsg /\ worker' = [worker EXCEPT ![w] = "invoking"]
              /\ wmsg' = [wmsg EXCEPT ![w] = m]
  BY <1>0 DEF Take, T!Take, T!Pop
<1>4. Len(normalQueue) \in Nat \ {0} /\ normalQueue[1] = m /\ 1 \in 1 .. Len(normalQueue)
  BY <1>0, <1>3
<1>5. Pending' = Pending
  <2>1. CASE m = ExitMsg
    <3>1. Len(normalQueue) = 1
      BY <1>0, <1>4, <2>1 DEF TP!MInv, TP!QInv, TP!ExitReachesWorker
    <3>2. Normal = <<>>
      <4>1. SubSeq(normalQueue, 1, 0) = <<>>
        BY SubSeqEmpty
      <4> QED
        BY <1>4, <2>1, <3>1, <4>1 DEF Normal, T!MailboxNormal
    <3>3. normalQueue' = <<>> /\ Len(<<>>) = 0
      BY <1>0, <1>3, <3>1
    <3>4. Normal' = <<>>
      BY <3>3 DEF Normal, T!MailboxNormal
    <3>5. Running' = {}
      BY <1>0, <1>1, <1>3, <2>1 DEF Running
    <3> QED
      BY <1>2, <3>2, <3>4, <3>5 DEF Pending, Normal
  <2>2. CASE m # ExitMsg
    <3>1. Normal # <<>> /\ Head(Normal) = m /\ Tail(Normal) = Normal'
      <4>1. /\ TP!Stripped(normalQueue) # <<>> /\ Head(TP!Stripped(normalQueue)) = m
            /\ Tail(TP!Stripped(normalQueue)) = TP!Stripped(normalQueue')
        BY <1>0, <1>3, <2>2, Premises, TP!StrippedTail
      <4>2. Normal = TP!Stripped(normalQueue) /\ Normal' = TP!Stripped(normalQueue')
        BY DEF Normal, T!MailboxNormal, TP!Stripped
      <4> QED
        BY <4>1, <4>2
    <3>2. worker'[w] = "invoking" /\ wmsg'[w] = m /\ \A v \in Workers : v # w => worker'[v] = worker[v]
      BY <1>0, <1>3, <2>2
    <3>3. status[m] = "queued" /\ m \in Ops
      BY <1>0, <1>3, <1>4, <2>2, WorkerServes
    <3>4. body'[m] = "none"
      BY <1>0, <3>3 DEF Recorded
    <3>5. Running' = {w}
      BY <1>1, <3>2, <3>4 DEF Running
    <3>6. (CHOOSE v \in Workers : v \in Running') = w
      BY <3>5
    <3>7. Pending' = <<m>> \o Normal'
      BY <3>2, <3>5, <3>6 DEF Pending, Normal
    <3>8. <<m>> \o Tail(Normal) = Normal
      BY <1>0, <3>1
    <3> QED
      BY <1>2, <3>1, <3>7, <3>8
  <2> QED
    BY <2>1, <2>2
<1> QED
  BY <1>0, <1>5, EngineStutters

(* DispatchDelegate has queued the message.                                *)
LEMMA PushMaps ==
  ASSUME DInv, NEW t \in Threads, dpc[t] # "out", ~mExit, T!Push(t),
         UNCHANGED <<worker, wmsg, opVars, outcome, body, freed>>
  PROVE  [E!Next]_(E!vars)
<1>0. /\ TP!MInv /\ Typed /\ Calling /\ Recorded
      /\ normalQueue \in Seq(Ops \cup {ExitMsg}) /\ ExitMsg \notin Ops
      /\ UNCHANGED <<issued, target>>
  BY Split, WorkerTypes, DuckAssumption DEF Proxy, Known, opVars
<1>1. PICK m \in Ops : m = cur[t] /\ m = dmsg[t] /\ status[m] = "calling"
  BY Split, DispatchOfCall
<1>2. normalQueue' = Append(normalQueue, m)
  BY <1>1 DEF T!Push
<1>3. m <= issued /\ outcome[m] = "none"
  <2>1. pc[t] = "sent" /\ m <= issued
    BY <1>0, <1>1, DuckAssumption DEF Calling
  <2> QED
    BY <1>0, <1>1, <2>1 DEF Recorded
<1>4. Answers[m] = "awaited" /\ Answers' = Answers
  <2>1. ~(m > issued)
    BY <1>0, <1>3, DuckAssumption DEF Typed, Ops
  <2> QED
    BY <1>0, <1>3, <2>1 DEF Answers
<1>5. body[m] = "none" /\ ~E!Accepted(m)
  BY <1>0, <1>1, AcceptedIs DEF Recorded
<1>6. Normal = normalQueue /\ Normal' = Append(normalQueue, m)
  <2>1. \A i \in 1 .. Len(normalQueue) : normalQueue[i] # ExitMsg
    BY <1>0 DEF TP!MInv, TP!QInv, TP!ExitReachesWorker
  <2>2. Normal = normalQueue
    BY <1>0, <2>1 DEF Normal, T!MailboxNormal
  <2>3. normalQueue'[Len(normalQueue')] # ExitMsg
    BY <1>0, <1>2
  <2> QED
    BY <1>2, <2>2, <2>3 DEF Normal, T!MailboxNormal
<1>7. Pending' = Append(Pending, m)
  <2>1. Running' = Running
    BY DEF Running
  <2>2. CASE Running = {}
    BY <1>6, <2>1, <2>2 DEF Pending, Normal
  <2>3. CASE Running # {}
    <3>1. PICK x : x = wmsg[CHOOSE v \in Workers : v \in Running]
      OBVIOUS
    <3>2. Pending = <<x>> \o Normal /\ Pending' = <<x>> \o Normal'
      BY <2>1, <2>3, <3>1 DEF Pending, Normal
    <3>3. PICK v \in Workers : v \in Running
      BY <2>3 DEF Running
    <3>4. x \in Ops
      <4>1. v \in Running /\ (CHOOSE u \in Workers : u \in Running) \in Running
        BY <3>3
      <4> QED
        BY <1>0, <3>1, <4>1, WorkerServes DEF Running
    <3> QED
      BY <1>0, <1>6, <3>2, <3>4
  <2> QED
    BY <2>2, <2>3
<1>8. E!Accept(m)
  BY <1>0, <1>4, <1>5, <1>7 DEF E!Accept, Answers
<1>9. m \in E!With("awaited")
  BY <1>0, <1>4 DEF E!With, Answers
<1> QED
  BY <1>8, <1>9 DEF E!Next

-----------------------------------------------------------------------------
(* The steps that leave the engine as it is.                               *)

(* A step that moves no message and neither starts nor ends a task.        *)
LEMMA QuietMaps ==
  ASSUME UNCHANGED <<target, issued, outcome, body, freed, wmsg>>, Normal' = Normal,
         \A w \in Workers : worker'[w] = "invoking" <=> worker[w] = "invoking"
  PROVE  [E!Next]_(E!vars)
<1>1. Running' = Running
  BY DEF Running
<1>2. Pending' = Pending
  BY <1>1, PendingSame
<1> QED
  BY <1>2, EngineStutters

LEMMA ThreadStepMaps ==
  ASSUME DInv, ThreadStep
  PROVE  [E!Next]_(E!vars)
<1>0. /\ TP!MInv /\ UNCHANGED <<opVars, outcome, body, freed>>
      /\ UNCHANGED <<target, issued>>
      /\ worker \in [Workers -> TP!WorkerStates]
      /\ UNCHANGED normalQueue => Normal' = Normal
  BY Split, WorkerTypes DEF ThreadStep, opVars, Normal, T!MailboxNormal
<1>1. CASE \E t \in Threads : T!CheckThread(t)
  <2>1. UNCHANGED <<normalQueue, worker, wmsg>>
    BY <1>1 DEF T!CheckThread, T!queues, T!loop
  <2> QED
    BY <1>0, <2>1, QuietMaps
<1>2. CASE \E t \in Threads : T!Lock(t)
  <2>1. PICK t \in Threads : T!Lock(t)
    BY <1>2
  <2>2. dpc[t] # "out" /\ T!Enqueue(t) /\ UNCHANGED <<worker, wmsg>>
    BY <2>1 DEF T!Lock, T!InCall, T!loop, T!Full, T!MayProceed
  <2>3. CASE UNCHANGED T!queues
    BY <1>0, <2>2, <2>3, QuietMaps DEF T!queues
  <2>4. CASE ~mExit /\ T!Push(t)
    BY <1>0, <2>2, <2>4, PushMaps
  <2> QED
    BY <2>2, <2>3, <2>4 DEF T!Enqueue
<1>3. CASE (\E w \in Workers : T!Started(w)) \/ T!Spawn
  <2>1. UNCHANGED <<normalQueue, wmsg>>
    BY <1>3 DEF T!Started, T!Spawn, T!queues
  <2>2. \A w \in Workers : worker'[w] = "invoking" <=> worker[w] = "invoking"
    BY <1>0, <1>3 DEF T!Started, T!Spawn, T!InLoop
  <2> QED
    BY <1>0, <2>1, <2>2, QuietMaps
<1>4. CASE T!Emplace \/ T!CreateReturns \/ T!Join
  <2>1. UNCHANGED <<normalQueue, worker, wmsg>>
    BY <1>4 DEF T!Emplace, T!CreateReturns, T!Join, T!queues, T!loop
  <2> QED
    BY <1>0, <2>1, QuietMaps
<1>5. CASE T!Reset
  <2>1. UNCHANGED <<worker, wmsg>> /\ normalQueue' = <<>>
    BY <1>5 DEF T!Reset, T!loop
  <2>2. normalQueue = <<>>
    BY <1>5, ResetFindsNothing
  <2> QED
    BY <1>0, <2>1, <2>2, QuietMaps
<1> QED
  BY <1>1, <1>2, <1>3, <1>4, <1>5 DEF ThreadStep

(* ExitThread posts its message behind a queue that has none yet.          *)
LEMMA LifecycleMaps ==
  ASSUME DInv, NEW t \in Threads,
         InitStore(t) \/ ShutdownStore(t) \/ LoadCentral(t) \/ InitWorker(t) \/ ShutdownWorker(t)
  PROVE  [E!Next]_(E!vars)
<1>0. /\ UNCHANGED <<target, issued, outcome, body, freed>>
      /\ UNCHANGED threadVars \/ T!CreateThread(t) \/ T!ExitThread(t)
  BY DEF InitStore, ShutdownStore, LoadCentral, InitWorker, ShutdownWorker, opVars
<1>1. UNCHANGED <<worker, wmsg>>
  BY <1>0 DEF threadVars, T!CreateThread, T!ExitThread, T!loop
<1>2. UNCHANGED threadVars \/ T!CreateThread(t) => UNCHANGED normalQueue
  BY DEF threadVars, T!CreateThread, T!queues
<1>3. CASE UNCHANGED normalQueue
  <2>1. Normal' = Normal
    BY <1>3 DEF Normal, T!MailboxNormal
  <2> QED
    BY <1>0, <1>1, <2>1, QuietMaps
<1>4. CASE T!ExitThread(t)
  <2>1. ~mExit /\ normalQueue' = Append(normalQueue, ExitMsg) /\ normalQueue \in Seq(Ops \cup {ExitMsg})
    BY <1>4, Split, WorkerTypes
    DEF T!ExitThread, T!InControl, TP!MInv, TP!QInv, TP!Ending, TP!Accepting
  <2>2. Normal = normalQueue
    <3>1. \A i \in 1 .. Len(normalQueue) : normalQueue[i] # ExitMsg
      BY <2>1, Split DEF TP!MInv, TP!QInv, TP!ExitReachesWorker
    <3> QED
      BY <2>1, <3>1 DEF Normal, T!MailboxNormal
  <2>3. Normal' = normalQueue
    <3>1. ExitMsg \in Ops \cup {ExitMsg}
      OBVIOUS
    <3>2. TP!Stripped(Append(normalQueue, ExitMsg)) = normalQueue
      BY <2>1, <3>1, Premises, TP!StrippedAppend
    <3> QED
      BY <2>1, <3>2 DEF Normal, T!MailboxNormal, TP!Stripped
  <2> QED
    BY <1>0, <1>1, <2>2, <2>3, QuietMaps
<1> QED
  BY <1>0, <1>2, <1>3, <1>4

LEMMA NextMaps ==
  ASSUME DInv, [Next]_vars
  PROVE  [E!Next]_(E!vars)
<1>1. CASE \E t \in Threads : Own(t)
  BY <1>1, CallMaps, UnwindLastMaps, ReturnsMap, RunMaps, UnwindMaps, LifecycleMaps DEF Own
<1>2. CASE \E t \in Threads : Dispatch(t)
  <2>1. UNCHANGED <<target, issued, outcome, body, freed, normalQueue, worker, wmsg>>
    BY <1>2 DEF Dispatch, T!DispatchDelegate, T!queues, T!loop, opVars
  <2>2. Normal' = Normal
    BY <2>1 DEF Normal, T!MailboxNormal
  <2> QED
    BY <2>1, <2>2, QuietMaps
<1>3. CASE \E w \in Workers : Take(w) \/ Finish(w)
  BY <1>3, TakeMapsPending, FinishMaps
<1>4. CASE \E t \in Controllers : InitWorker(t) \/ ShutdownWorker(t)
  BY <1>4, LifecycleMaps DEF Threads
<1>5. CASE ThreadStep
  BY <1>5, ThreadStepMaps
<1>6. CASE UNCHANGED vars
  <2>1. UNCHANGED <<target, issued, outcome, body, freed, normalQueue, worker, wmsg>>
    BY <1>6 DEF vars, threadVars, opVars
  <2>2. Normal' = Normal
    BY <2>1 DEF Normal, T!MailboxNormal
  <2> QED
    BY <2>1, <2>2, QuietMaps
<1> QED
  BY <1>1, <1>2, <1>3, <1>4, <1>5, <1>6, Steps

LEMMA InitMaps == Init => E!Init
<1> SUFFICES ASSUME Init PROVE E!Init
  OBVIOUS
<1>1. normalQueue = <<>> /\ worker = [w \in Workers |-> "unborn"] /\ Len(<<>>) = 0
  BY DEF Init, T!Init
<1>2. Running = {}
  BY <1>1 DEF Running
<1>3. Pending = <<>>
  BY <1>1, <1>2, PendingIdle DEF Normal, T!MailboxNormal
<1>4. Answers = [m \in Ops |-> "uncalled"]
  <2>1. \A m \in Ops : m > issued
    BY DuckAssumption DEF Init, Ops
  <2> QED
    BY <2>1 DEF Answers
<1>5. Gone = {}
  BY DEF Init, Gone
<1> QED
  BY <1>3, <1>4, <1>5 DEF Init, E!Init, Answers, Gone

(* What the application sees of the proxy, with any number of threads,     *)
(* timeouts, shutdowns and restarts, is one serial engine.                 *)
THEOREM SerialEngineImplemented == Spec => ImplementsSerialEngine
<1>1. DInv /\ [Next]_vars => [E!Next]_(E!vars)
  BY NextMaps
<1> QED
  BY <1>1, InitMaps, DInvAlways, PTL DEF Spec, ImplementsSerialEngine, E!Spec
=============================================================================
