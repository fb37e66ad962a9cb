---------------------------- MODULE AsyncDuckDB ----------------------------
(***************************************************************************)
(* The proxy over DuckDB (src/DuckDB/async_duckdb.cpp): application        *)
(* threads hold proxies of engine handles (databases, connections,         *)
(* prepared statements, appenders), and every use of a handle is a task    *)
(* dispatched to one worker thread. The worker is module Thread, with the  *)
(* constructor arguments of DuckThread: an unlimited queue, and every task *)
(* of normal priority.                                                     *)
(*                                                                         *)
(* An engine handle is owned by shared_ptr. Who holds one, and which       *)
(* thread drops the last one and so runs the engine's destructor, is what  *)
(* the variable freed and the operator Held are about.                     *)
(***************************************************************************)
EXTENDS Naturals, Sequences, FiniteSets

CONSTANTS
  Callers,      \* application threads that use proxies
  Controllers,  \* application threads that call init_worker and shutdown_worker
  Workers,      \* OS threads that init_worker may start
  MaxCalls,     \* bound: calls the application makes
  AppKinds,     \* bound: the kinds of these calls
  NoThread, NoMsg, ExitMsg

(* Operations, numbered in the order their calls begin. A destructor that  *)
(* runs on its own, of a proxy whose opener timed out, is numbered too.    *)
Ops == 1 .. 2 * MaxCalls

(* database: Database(); connect: Connection(); prepare: Prepare and       *)
(* CreateAppender; exec: the blocking calls on a handle; future: the calls *)
(* that return a std::future; close: the four destructors.                 *)
Opens == {"database", "connect", "prepare"}
Syncs == Opens \cup {"exec"}
Kinds == Syncs \cup {"future", "close"}

VARIABLES
  mThread, mExit, highQueue, normalQueue, worker, wmsg, selfExit,
  dpc, dmsg, ctlpc, ctlby, status, fault,   \* the variables of Thread
  central,  \* CentralThread: "duck" (&DuckThread) or "null"
  issued,   \* number of operations begun
  kind,     \* what each operation is
  target,   \* the handle it works on, named by the operation that opened it
  pc,       \* where each thread is in a call of this module
  cur,      \* the operation it is calling
  body,     \* how the task of each operation ended on the worker
  outcome,  \* what the caller got
  place,    \* the shared_ptr that owns each handle: in the opener's SyncState,
            \* in a proxy, or moved into a destructor's task
  terminated,  \* std::terminate was called
  freed,    \* the thread that ran the engine's destructor of each handle
  before    \* history: operations accepted before each one was called

Threads == Callers \cup Controllers \cup Workers

ASSUME DuckAssumption ==
  /\ (Callers \cup Controllers) \cap Workers = {}
  /\ NoThread \notin Threads
  /\ NoMsg \notin Ops
  /\ ExitMsg \notin Ops
  /\ MaxCalls \in Nat
  /\ AppKinds \subseteq Kinds

ASSUME FiniteThreads == IsFiniteSet(Threads)

T == INSTANCE Thread WITH
  Callers <- Callers \cup Controllers,
  Msgs <- Ops, HighMsgs <- {}, MaxQueueSize <- 0, Policies <- {"FAULT"}, policy <- "FAULT"

threadVars == <<mThread, mExit, highQueue, normalQueue, worker, wmsg, selfExit,
                dpc, dmsg, ctlpc, ctlby, status, fault>>
opVars   == <<issued, kind, target, before>>
callVars == <<pc, cur>>
vars == <<threadVars, central, opVars, callVars, body, outcome, place, freed, terminated>>

CallStates == {"app", "load", "dispatch", "sent", "unwind", "init", "shutdown"}
Outcomes   == {"none", "value", "error", "timeout", "invalid", "returned"}

TypeOK ==
  /\ T!TypeOK
  /\ central \in {"duck", "null"}
  /\ issued \in 0 .. 2 * MaxCalls
  /\ kind \in [Ops -> Kinds \cup {"none"}]
  /\ target \in [Ops -> Ops \cup {NoMsg}]
  /\ pc \in [Threads -> CallStates]
  /\ cur \in [Threads -> Ops \cup {NoMsg}]
  /\ body \in [Ops -> {"none", "ok", "threw"}]
  /\ outcome \in [Ops -> Outcomes]
  /\ place \in [Ops -> {"none", "state", "proxy", "task"}]
  /\ freed \in [Ops -> Threads \cup {NoThread}]
  /\ before \in [Ops -> SUBSET Ops]
  /\ terminated \in BOOLEAN

Init ==
  /\ T!Init
  /\ central = "duck"
  /\ issued = 0
  /\ kind = [m \in Ops |-> "none"]
  /\ target = [m \in Ops |-> NoMsg]
  /\ pc = [t \in Threads |-> "app"]
  /\ cur = [t \in Threads |-> NoMsg]
  /\ body = [m \in Ops |-> "none"]
  /\ outcome = [m \in Ops |-> "none"]
  /\ place = [m \in Ops |-> "none"]
  /\ freed = [m \in Ops |-> NoThread]
  /\ before = [m \in Ops |-> {}]
  /\ terminated = FALSE

-----------------------------------------------------------------------------
(* Who holds what.                                                         *)

(* The caller's own copies of the task (the lambda, the std::function, the *)
(* delegate) live until its call returns.                                  *)
CallerHolds(m) == \E t \in Threads : cur[t] = m

(* Mutant: the task in the message refers to the handle without owning it. *)
MsgBorrows(m) == FALSE

(* The copy in the message lives until the message is destroyed: after the *)
(* task has run, or when the dispatch fails.                               *)
MsgHolds(m) == status[m] \in {"calling", "queued", "invoking"}

TaskAlive(m) == CallerHolds(m) \/ MsgHolds(m)

(* Some shared_ptr to the engine handle h is left. The task of the opener  *)
(* holds it through its SyncState, every other task through its capture.   *)
Held(h) ==
  \/ place[h] = "proxy"
  \/ place[h] = "state" /\ TaskAlive(h)
  \/ \E m \in Ops \ {h} : target[m] = h /\ TaskAlive(m)

(* Thread t runs the engine's destructor of each handle whose last         *)
(* shared_ptr goes in this step.                                           *)
Release(t) ==
  freed' = [h \in Ops |-> IF Held(h) /\ ~Held(h)' THEN t ELSE freed[h]]

(* t holds the only copy left of a SyncState in which the proxy that       *)
(* Prepare or CreateAppender made was left behind by a caller that timed   *)
(* out: its destructor runs, and dispatches.                               *)
LeftBehind(m) == kind[m] = "prepare" /\ place[m] = "state"

-----------------------------------------------------------------------------
(* The calls, made by thread t.                                            *)

(* Where a thread is. std::terminate ends the process, and no thread takes *)
(* a step after it.                                                        *)
At(t, s) == ~terminated /\ pc[t] = s

(* The operation k on handle h becomes operation number issued + 1. *)
Begin(t, k, h) ==
  /\ issued' = issued + 1
  /\ kind' = [kind EXCEPT ![issued + 1] = k]
  /\ target' = [target EXCEPT ![issued + 1] = h]
  /\ before' = [before EXCEPT ![issued + 1] =
                  {m \in Ops : status[m] \in {"queued", "invoking", "done"}}]
  /\ cur' = [cur EXCEPT ![t] = issued + 1]
  /\ pc' = [pc EXCEPT ![t] = "load"]

AppMayCall(t) ==
  /\ t \in Callers /\ At(t, "app")
  /\ issued < MaxCalls

(* The kinds of operation that a handle opened by kind k serves. *)
Serves(k) ==
  CASE k = "database" -> {"connect"}
    [] k = "connect"  -> {"prepare", "exec", "future"}
    [] OTHER          -> {"exec", "future"}

(* Database(), the one call that needs no handle. *)
OpenDatabase(t) ==
  /\ AppMayCall(t)
  /\ Begin(t, "database", NoMsg)
  /\ UNCHANGED <<threadVars, central, body, outcome, place, freed, terminated>>

(* Connection(), Prepare, CreateAppender, Query, Execute, BindValue,       *)
(* nParam, EndRow, Flush, Close, BeginTransaction, Commit, Rollback go     *)
(* through RunSync, QueryFuture and ExecuteFuture through RunAsync. Any    *)
(* thread may use any proxy.                                               *)
Use(t, k, h) ==
  /\ AppMayCall(t)
  /\ place[h] = "proxy"
  /\ k \in Serves(kind[h])
  /\ Begin(t, k, h)
  /\ UNCHANGED <<threadVars, central, body, outcome, place, freed, terminated>>

(* ~Database, ~Connection, ~PreparedStatement, ~Appender: the handle moves *)
(* into a task. An object is not destroyed while another thread is in one  *)
(* of its methods.                                                         *)
Destroy(t, h) ==
  /\ AppMayCall(t)
  /\ place[h] = "proxy"
  /\ \A s \in Threads : cur[s] # NoMsg => target[cur[s]] # h
  /\ Begin(t, "close", h)
  /\ place' = [place EXCEPT ![h] = "task"]
  /\ UNCHANGED <<threadVars, central, body, outcome, freed, terminated>>

(* DispatchTask loads CentralThread, and drops the task when it is null. *)
LoadCentral(t) ==
  /\ At(t, "load")
  /\ pc' = [pc EXCEPT ![t] = IF central = "duck" THEN "dispatch" ELSE "sent"]
  /\ UNCHANGED <<threadVars, central, opVars, cur, body, outcome, place, freed, terminated>>

(* AsyncInvoke: DispatchDelegate begins. *)
Dispatch(t) ==
  /\ At(t, "dispatch")
  /\ T!DispatchDelegate(t, cur[t])
  /\ pc' = [pc EXCEPT ![t] = "sent"]
  /\ UNCHANGED <<central, opVars, cur, body, outcome, place, freed, terminated>>

(* The call has been dispatched, refused or dropped - nobody asks which -  *)
(* or DispatchDelegate has thrown.                                         *)
Dispatched(t) == At(t, "sent") /\ dpc[t] = "out"

Got(t, o) ==
  /\ outcome' = [outcome EXCEPT ![cur[t]] = o]
  /\ pc' = [pc EXCEPT ![t] = "unwind"]

(* DispatchDelegate's exception reaches the caller; in a destructor it     *)
(* ends the process, as destructors are noexcept.                          *)
DispatchThrows(t) ==
  /\ Dispatched(t)
  /\ status[cur[t]] = "threw"
  /\ IF kind[cur[t]] = "close"
       THEN terminated' = TRUE /\ UNCHANGED <<outcome, pc>>
       ELSE Got(t, "invalid") /\ UNCHANGED terminated
  /\ UNCHANGED <<threadVars, central, opVars, cur, body, place, freed>>

(* RunAsync returns its future, a destructor returns. *)
ReturnAtOnce(t) ==
  /\ Dispatched(t)
  /\ status[cur[t]] # "threw"
  /\ kind[cur[t]] \notin Syncs
  /\ Got(t, "returned")
  /\ UNCHANGED <<threadVars, central, opVars, cur, body, place, freed, terminated>>

(* Mutant: the semaphore's Wait wakes spuriously. *)
SyncDoneSpurious(t) ==
  LET m == cur[t] IN
  /\ Dispatched(t)
  /\ kind[m] \in Syncs
  /\ Got(t, IF body[m] = "threw" THEN "error" ELSE "value")
  /\ place' = IF kind[m] \in Opens /\ body[m] = "ok"
                THEN [place EXCEPT ![m] = "proxy"] ELSE place
  /\ UNCHANGED <<threadVars, central, opVars, cur, body, freed, terminated>>

(* The semaphore was signalled: the result is moved out of the SyncState,  *)
(* or the task's exception is rethrown.                                    *)
SyncDone(t) ==
  LET m == cur[t] IN
  /\ Dispatched(t)
  /\ kind[m] \in Syncs
  /\ body[m] # "none"
  /\ Got(t, IF body[m] = "ok" THEN "value" ELSE "error")
  /\ place' = IF kind[m] \in Opens /\ body[m] = "ok"
                THEN [place EXCEPT ![m] = "proxy"] ELSE place
  /\ UNCHANGED <<threadVars, central, opVars, cur, body, freed, terminated>>

(* sema.Wait(timeout) gives up; the task stays where it is. *)
SyncTimeout(t) ==
  /\ Dispatched(t)
  /\ status[cur[t]] # "threw"
  /\ kind[cur[t]] \in Syncs
  /\ body[cur[t]] = "none"
  /\ Got(t, "timeout")
  /\ UNCHANGED <<threadVars, central, opVars, cur, body, place, freed, terminated>>

(* The caller's copies of the task go out of scope. *)
Unwind(t) ==
  /\ At(t, "unwind")
  /\ ~(LeftBehind(cur[t]) /\ ~MsgHolds(cur[t]))
  /\ cur' = [cur EXCEPT ![t] = NoMsg]
  /\ pc' = [pc EXCEPT ![t] = "app"]
  /\ UNCHANGED <<threadVars, central, opVars, body, outcome, place, terminated>>
  /\ Release(t)

(* They were the last, and take the destructor of a proxy with them. *)
UnwindLast(t) ==
  LET h == cur[t] IN
  /\ At(t, "unwind")
  /\ LeftBehind(h) /\ ~MsgHolds(h)
  /\ place' = [place EXCEPT ![h] = "task"]
  /\ Begin(t, "close", h)
  /\ UNCHANGED <<threadVars, central, body, outcome, terminated>>
  /\ Release(t)

-----------------------------------------------------------------------------
(* The worker w, on top of Thread.                                         *)

Take(w) ==
  /\ T!Take(w)
  /\ At(w, "app")
  /\ UNCHANGED <<central, opVars, callVars, body, outcome, place, freed, terminated>>

(* The task: the engine call, its result stored for the caller, then the   *)
(* semaphore signalled or the promise set. Destructors' tasks do nothing   *)
(* but hold the handle.                                                    *)
RunTask(w) ==
  LET m == wmsg[w] IN
  /\ worker[w] = "invoking" /\ At(w, "app")
  /\ body[m] = "none"
  /\ \E r \in {"ok", "threw"} :
       /\ kind[m] = "close" => r = "ok"
       /\ body' = [body EXCEPT ![m] = r]
       /\ place' = IF kind[m] \in Opens /\ r = "ok"
                     THEN [place EXCEPT ![m] = "state"] ELSE place
  /\ UNCHANGED <<threadVars, central, opVars, callVars, outcome, freed, terminated>>

(* The message and the copy of the task in it are destroyed. *)
Finish(w) ==
  LET m == wmsg[w] IN
  /\ T!Finish(w)
  /\ body[m] # "none"
  /\ At(w, "app")
  /\ ~(LeftBehind(m) /\ ~CallerHolds(m))
  /\ UNCHANGED <<central, opVars, callVars, body, outcome, place, terminated>>
  /\ Release(w)

(* It is the last copy, and takes the destructor of a proxy with it, which *)
(* dispatches from the worker to itself.                                   *)
FinishLast(w) ==
  LET h == wmsg[w] IN
  /\ worker[w] = "invoking" /\ At(w, "app")
  /\ body[h] # "none"
  /\ LeftBehind(h) /\ ~CallerHolds(h)
  /\ place' = [place EXCEPT ![h] = "task"]
  /\ Begin(w, "close", h)
  /\ UNCHANGED <<threadVars, central, body, outcome, freed, terminated>>

-----------------------------------------------------------------------------
(* init_worker and shutdown_worker, never two at a time.                   *)

NoLifecycle == \A t \in Threads : pc[t] \notin {"init", "shutdown"}

(* init_worker(nullptr): CreateThread. *)
InitWorker(t) ==
  /\ At(t, "app") /\ NoLifecycle
  /\ T!CreateThread(t)
  /\ pc' = [pc EXCEPT ![t] = "init"]
  /\ UNCHANGED <<central, opVars, cur, body, outcome, place, freed, terminated>>

(* The store of CentralThread. *)
InitStore(t) ==
  /\ At(t, "init") /\ ctlpc = "none"
  /\ central' = "duck"
  /\ pc' = [pc EXCEPT ![t] = "app"]
  /\ UNCHANGED <<threadVars, opVars, cur, body, outcome, place, freed, terminated>>

(* shutdown_worker: ExitThread, which returns at once when no thread was   *)
(* created, then the store of nullptr.                                     *)
ShutdownWorker(t) ==
  /\ At(t, "app") /\ NoLifecycle
  /\ central = "duck"
  /\ \/ T!ExitThread(t)
     \/ mThread = NoThread /\ UNCHANGED threadVars
  /\ pc' = [pc EXCEPT ![t] = "shutdown"]
  /\ UNCHANGED <<central, opVars, cur, body, outcome, place, freed, terminated>>

ShutdownStore(t) ==
  /\ At(t, "shutdown") /\ ctlpc = "none"
  /\ central' = "null"
  /\ pc' = [pc EXCEPT ![t] = "app"]
  /\ UNCHANGED <<threadVars, opVars, cur, body, outcome, place, freed, terminated>>

(* The steps of Thread that concern nobody else. *)
ThreadStep ==
  /\ ~terminated
  /\ \/ \E t \in Threads : T!CheckThread(t) \/ T!Lock(t)
     \/ \E w \in Workers : T!Started(w)
     \/ T!Spawn \/ T!Emplace \/ T!CreateReturns \/ T!Join \/ T!Reset
  /\ UNCHANGED <<central, opVars, callVars, body, outcome, place, freed, terminated>>

-----------------------------------------------------------------------------
Call(t) ==
  \/ OpenDatabase(t)
  \/ \E h \in Ops, k \in AppKinds : Use(t, k, h)
  \/ \E h \in Ops : "close" \in AppKinds /\ Destroy(t, h)

Proceed(t) ==
  \/ LoadCentral(t) \/ Dispatch(t) \/ DispatchThrows(t) \/ ReturnAtOnce(t)
  \/ SyncDone(t) \/ SyncTimeout(t) \/ Unwind(t) \/ UnwindLast(t)

Work(w) == Take(w) \/ RunTask(w) \/ Finish(w) \/ FinishLast(w)

Quiet ==
  /\ T!Quiet
  /\ \A t \in Threads : pc[t] = "app"

Rest == (terminated \/ Quiet) /\ UNCHANGED vars

Next ==
  \/ \E t \in Threads : Call(t) \/ Proceed(t)
  \/ \E w \in Workers : Work(w)
  \/ \E t \in Controllers : InitWorker(t) \/ InitStore(t)
                             \/ ShutdownWorker(t) \/ ShutdownStore(t)
  \/ ThreadStep
  \/ Rest

(* Threads run, timeouts expire, the engine returns from every call. Only  *)
(* the application decides whether to make a call.                         *)
Fairness ==
  /\ \A t \in Threads : WF_vars(Proceed(t))
  /\ \A w \in Workers : WF_vars(Work(w))
  /\ \A t \in Controllers : WF_vars(InitStore(t) \/ ShutdownStore(t))
  /\ WF_vars(ThreadStep)

Spec == Init /\ [][Next]_vars
FairSpec == Spec /\ Fairness

-----------------------------------------------------------------------------
(* No task of the engine runs on a handle that is not there: it was opened *)
(* before, and its destructor has not run, although the proxy may be long  *)
(* gone when the task's turn comes.                                        *)
TaskOnLiveHandle ==
  \A w \in Workers :
    LET m == wmsg[w] IN
    (worker[w] = "invoking" /\ body[m] = "none" /\ target[m] # NoMsg)
      => body[target[m]] = "ok" /\ freed[target[m]] = NoThread

(* Operations run in the order of dispatch: when a task has run, so has    *)
(* every task that was accepted before its call was made, on whichever     *)
(* thread - the tasks of calls that gave up waiting included.              *)
SequentialIntegrity ==
  \A n \in Ops : body[n] # "none" => \A m \in before[n] : body[m] # "none"

(* Once shutdown_worker has returned the engine is at rest: no task waits  *)
(* in the queue and none is running, until the next init_worker.           *)
ShutdownQuiesces ==
  (central = "null" /\ mThread = NoThread /\ ctlpc = "none")
    => /\ \A m \in Ops : status[m] \notin {"queued", "invoking"}
       /\ \A w \in Workers : worker[w] \in {"unborn", "stopped"}

(* A handle that nothing owns any more has been destroyed, and no other:   *)
(* neither a timeout nor a dropped dispatch leaks one, and none is         *)
(* destroyed under its owner.                                              *)
FreedIffUnowned ==
  \A h \in Ops : place[h] # "none" => (freed[h] = NoThread <=> Held(h))

(* Who owns a handle, and for how long: tasks find theirs alive, owners    *)
(* keep theirs, and nobody else does.                                      *)
OwnershipHolds == TypeOK /\ TaskOnLiveHandle /\ FreedIffUnowned

(* Every call returns, whatever the worker, a shutdown or a restart did to *)
(* its task.                                                               *)
CallReturns == \A t \in Threads : pc[t] # "app" ~> (pc[t] = "app" \/ terminated)

(* Every future is resolved: its task runs, or the last copy of the task   *)
(* goes and breaks the promise.                                            *)
Resolved(m) == body[m] # "none" \/ ~TaskAlive(m)
FutureResolves ==
  \A m \in Ops : kind[m] = "future" ~> (Resolved(m) \/ terminated)

(* A handle nobody keeps is destroyed in the end: one whose proxy was      *)
(* destroyed, and one that was opened after its caller had given up.       *)
AbandonedIsFreed ==
  \A h \in Ops :
    (place[h] = "task" \/ (place[h] = "state" /\ outcome[h] = "timeout"))
      ~> (freed[h] # NoThread \/ terminated)

(* Whatever became of its task, no call, no future and no handle is left   *)
(* hanging.                                                                *)
NothingIsLeftHanging == CallReturns /\ FutureResolves /\ AbandonedIsFreed

(* Whatever the worker thread, the timeouts, a shutdown or a restart do,   *)
(* the application sees one serial engine: operations executed in order,   *)
(* at most once and on live handles, and callers told the truth.           *)
Running == {w \in Workers : worker[w] = "invoking" /\ body[wmsg[w]] = "none"}
Pending ==
  IF Running = {} THEN T!MailboxNormal
  ELSE <<wmsg[CHOOSE w \in Workers : w \in Running]>> \o T!MailboxNormal
E == INSTANCE SerialEngine WITH
  None <- NoMsg, handle <- target, pending <- Pending, ran <- body,
  answer <- [m \in Ops |->
    IF m > issued THEN "uncalled" ELSE IF outcome[m] = "none" THEN "awaited" ELSE outcome[m]],
  gone <- {h \in Ops : freed[h] # NoThread}
ImplementsSerialEngine == E!Spec
=============================================================================
