----------------------------- MODULE AsyncWait -----------------------------
(***************************************************************************)
(* The blocking delegate (src/DelegateMQ/delegate/DelegateAsyncWait.h):    *)
(* the caller hands a message to a destination thread and waits, with a    *)
(* timeout, for the target function to run there. The arguments stay on    *)
(* the caller's stack: a lock in the message, and the flag InvokerWaiting, *)
(* keep the target from running once the caller has left.                  *)
(*                                                                         *)
(* Destination threads appear as what Thread implements, a mailbox: a      *)
(* queue that accepts or refuses a message, served in order. Several of    *)
(* them may call each other, or themselves.                                *)
(***************************************************************************)
EXTENDS Naturals, Sequences, FiniteSets

CONSTANTS
  Callers,  \* threads that only call
  Threads,  \* threads that serve messages, and call from target functions
  Calls,    \* calls, each made at most once
  Nobody

ASSUME AsyncWaitAssumption ==
  /\ Callers \cap Threads = {}
  /\ Nobody \notin Calls \cup Callers \cup Threads

VARIABLES
  queue,     \* the messages each thread has accepted
  open,      \* the threads that still accept messages
  ipc,       \* where each thread is in Invoke()
  serving,   \* the message it invokes
  cpc,       \* where each thread is in operator()
  calling,   \* the call it makes
  waited,    \* the threads whose Wait returned true
  dest,      \* the destination of each call
  invokerWaiting,  \* the messages whose InvokerWaiting is set
  lock,      \* who holds m_lock of each message
  signaled,  \* the messages whose semaphore is signaled
  ran,       \* how far the target function of each call is
  answer     \* what operator() returned: IsSuccess()

sourceVars == <<cpc, calling, waited>>
destVars   == <<ipc, serving>>
waitVars == <<queue, open, sourceVars, destVars, dest, invokerWaiting, lock, signaled, ran, answer>>

All == Callers \cup Threads

WaitTypeOK ==
  /\ queue \in [Threads -> Seq(Calls)]
  /\ open \in SUBSET Threads
  /\ ipc \in [Threads -> {"idle", "invoke", "target", "signaled"}]
  /\ serving \in [Threads -> Calls \cup {Nobody}]
  /\ cpc \in [All -> {"out", "dispatch", "wait", "readBack"}]
  /\ calling \in [All -> Calls \cup {Nobody}]
  /\ waited \in SUBSET All
  /\ dest \in [Calls -> Threads \cup {Nobody}]
  /\ invokerWaiting \in SUBSET Calls
  /\ lock \in [Calls -> Threads \cup {Nobody}]
  /\ signaled \in SUBSET Calls
  /\ ran \in [Calls -> {"no", "running", "done"}]
  /\ answer \in [Calls -> {"none", "success", "failure"}]

WaitInit ==
  /\ queue = [d \in Threads |-> <<>>]
  /\ open = Threads
  /\ ipc = [d \in Threads |-> "idle"]
  /\ serving = [d \in Threads |-> Nobody]
  /\ cpc = [t \in All |-> "out"]
  /\ calling = [t \in All |-> Nobody]
  /\ waited = {}
  /\ dest = [m \in Calls |-> Nobody]
  /\ invokerWaiting = {}
  /\ lock = [m \in Calls |-> Nobody]
  /\ signaled = {}
  /\ ran = [m \in Calls |-> "no"]
  /\ answer = [m \in Calls |-> "none"]

-----------------------------------------------------------------------------
(* operator(), run by thread t.                                            *)

(* A new message, with InvokerWaiting set. A target function may call, on  *)
(* the thread that runs it.                                                *)
Call(t, m, d) ==
  /\ cpc[t] = "out"
  /\ t \in Threads => ipc[t] = "target"
  /\ dest[m] = Nobody
  /\ dest' = [dest EXCEPT ![m] = d]
  /\ invokerWaiting' = invokerWaiting \cup {m}
  /\ calling' = [calling EXCEPT ![t] = m]
  /\ cpc' = [cpc EXCEPT ![t] = "dispatch"]
  /\ UNCHANGED <<queue, open, destVars, waited, lock, signaled, ran, answer>>

(* DispatchDelegate returns true: the call waits on the semaphore. *)
Accept(t) ==
  LET m == calling[t] IN
  /\ cpc[t] = "dispatch"
  /\ dest[m] \in open
  /\ queue' = [queue EXCEPT ![dest[m]] = Append(@, m)]
  /\ cpc' = [cpc EXCEPT ![t] = "wait"]
  /\ UNCHANGED <<open, destVars, calling, waited, dest, invokerWaiting, lock, signaled, ran, answer>>

(* It returns false or throws: the queue is full, or the thread has ended. *)
Refuse(t) ==
  /\ cpc[t] = "dispatch"
  /\ cpc' = [cpc EXCEPT ![t] = "readBack"]
  /\ UNCHANGED <<queue, open, destVars, calling, waited, dest, invokerWaiting, lock, signaled, ran, answer>>

(* Semaphore::Wait consumes the signal. *)
WaitSignaled(t) ==
  /\ cpc[t] = "wait"
  /\ calling[t] \in signaled
  /\ signaled' = signaled \ {calling[t]}
  /\ waited' = waited \cup {t}
  /\ cpc' = [cpc EXCEPT ![t] = "readBack"]
  /\ UNCHANGED <<queue, open, destVars, calling, dest, invokerWaiting, lock, ran, answer>>

(* Mutant: Wait without a timeout. *)
WaitForEver(t) == FALSE

(* Its timeout expires without a signal. *)
WaitExpires(t) ==
  /\ cpc[t] = "wait"
  /\ calling[t] \notin signaled
  /\ cpc' = [cpc EXCEPT ![t] = "readBack"]
  /\ UNCHANGED <<queue, open, destVars, calling, waited, dest, invokerWaiting, lock, signaled, ran, answer>>

(* Mutant: without the lock. *)
ReadBackUnlocked(t) ==
  LET m == calling[t] IN
  /\ cpc[t] = "readBack"
  /\ answer' = [answer EXCEPT ![m] = IF t \in waited THEN "success" ELSE "failure"]
  /\ invokerWaiting' = invokerWaiting \ {m}
  /\ waited' = waited \ {t}
  /\ calling' = [calling EXCEPT ![t] = Nobody]
  /\ cpc' = [cpc EXCEPT ![t] = "out"]
  /\ UNCHANGED <<queue, open, destVars, dest, lock, signaled, ran>>

(* The critical section of the caller: the return value is read and        *)
(* InvokerWaiting cleared at once.                                         *)
ReadBack(t) ==
  LET m == calling[t] IN
  /\ cpc[t] = "readBack"
  /\ lock[m] = Nobody
  /\ answer' = [answer EXCEPT ![m] = IF t \in waited THEN "success" ELSE "failure"]
  /\ invokerWaiting' = invokerWaiting \ {m}
  /\ waited' = waited \ {t}
  /\ calling' = [calling EXCEPT ![t] = Nobody]
  /\ cpc' = [cpc EXCEPT ![t] = "out"]
  /\ UNCHANGED <<queue, open, destVars, dest, lock, signaled, ran>>

-----------------------------------------------------------------------------
(* The destination thread d: its queue, and Invoke().                      *)

Pop(d) ==
  /\ ipc[d] = "idle"
  /\ queue[d] # <<>>
  /\ serving' = [serving EXCEPT ![d] = Head(queue[d])]
  /\ queue' = [queue EXCEPT ![d] = Tail(@)]
  /\ ipc' = [ipc EXCEPT ![d] = "invoke"]
  /\ UNCHANGED <<open, sourceVars, dest, invokerWaiting, lock, signaled, ran, answer>>

(* Mutant: InvokerWaiting is not looked at. *)
StartAlways(d) ==
  LET m == serving[d] IN
  /\ ipc[d] = "invoke"
  /\ lock[m] = Nobody
  /\ lock' = [lock EXCEPT ![m] = d]
  /\ ran' = [ran EXCEPT ![m] = "running"]
  /\ ipc' = [ipc EXCEPT ![d] = "target"]
  /\ UNCHANGED <<queue, open, serving, sourceVars, dest, invokerWaiting, signaled, answer>>

(* The caller waits: the target function runs with the lock held. *)
Start(d) ==
  LET m == serving[d] IN
  /\ ipc[d] = "invoke"
  /\ lock[m] = Nobody
  /\ m \in invokerWaiting
  /\ lock' = [lock EXCEPT ![m] = d]
  /\ ran' = [ran EXCEPT ![m] = "running"]
  /\ ipc' = [ipc EXCEPT ![d] = "target"]
  /\ UNCHANGED <<queue, open, serving, sourceVars, dest, invokerWaiting, signaled, answer>>

(* The caller has left: nothing is invoked. *)
Skip(d) ==
  /\ ipc[d] = "invoke"
  /\ lock[serving[d]] = Nobody
  /\ serving[d] \notin invokerWaiting
  /\ ipc' = [ipc EXCEPT ![d] = "idle"]
  /\ serving' = [serving EXCEPT ![d] = Nobody]
  /\ UNCHANGED <<queue, open, sourceVars, dest, invokerWaiting, lock, signaled, ran, answer>>

(* The target function has returned, its value is stored, and the          *)
(* semaphore signaled - still with the lock held.                          *)
Signal(d) ==
  LET m == serving[d] IN
  /\ ipc[d] = "target"
  /\ cpc[d] = "out"
  /\ ran' = [ran EXCEPT ![m] = "done"]
  /\ signaled' = signaled \cup {m}
  /\ ipc' = [ipc EXCEPT ![d] = "signaled"]
  /\ UNCHANGED <<queue, open, serving, sourceVars, dest, invokerWaiting, lock, answer>>

Unlock(d) ==
  /\ ipc[d] = "signaled"
  /\ lock' = [lock EXCEPT ![serving[d]] = Nobody]
  /\ ipc' = [ipc EXCEPT ![d] = "idle"]
  /\ serving' = [serving EXCEPT ![d] = Nobody]
  /\ UNCHANGED <<queue, open, sourceVars, dest, invokerWaiting, signaled, ran, answer>>

(* The destination thread is ended: what it has accepted is still served,  *)
(* unless a target function ends its own thread.                           *)
Exit(d) ==
  /\ d \in open
  /\ open' = open \ {d}
  /\ \/ UNCHANGED queue
     \/ ipc[d] = "target" /\ queue' = [queue EXCEPT ![d] = <<>>]
  /\ UNCHANGED <<destVars, sourceVars, dest, invokerWaiting, lock, signaled, ran, answer>>

-----------------------------------------------------------------------------
Source(t) ==
  \/ Accept(t) \/ Refuse(t) \/ WaitSignaled(t) \/ WaitExpires(t) \/ ReadBack(t)

Invoke(d) == Pop(d) \/ Start(d) \/ Skip(d) \/ Signal(d) \/ Unlock(d)

(* Nothing is under way. *)
AtRest ==
  /\ \A t \in All : cpc[t] = "out"
  /\ \A d \in Threads : ipc[d] = "idle" /\ queue[d] = <<>>
  /\ UNCHANGED waitVars

WaitNext ==
  \/ \E t \in All, m \in Calls, d \in Threads : Call(t, m, d)
  \/ \E t \in All : Source(t)
  \/ \E d \in Threads : Invoke(d) \/ Exit(d)
  \/ AtRest

(* Threads run, waits time out, target functions return once the calls     *)
(* they make have.                                                         *)
WaitFairness ==
  /\ \A t \in All : WF_waitVars(Source(t))
  /\ \A d \in Threads : WF_waitVars(Invoke(d))

WaitSpec == WaitInit /\ [][WaitNext]_waitVars

-----------------------------------------------------------------------------
(* A target function runs only while its caller is in operator(): the      *)
(* arguments it was given by reference, on the caller's stack, are there,  *)
(* whenever the timeout comes.                                             *)
ArgumentsAlive ==
  \A d \in Threads :
    ipc[d] = "target" => \E t \in All : calling[t] = serving[d]

(* Seen by its caller, a blocking call is what module BlockingCall says:   *)
(* the target runs at most once and while the caller waits, and a success  *)
(* is the success of a target that has run to its end.                     *)
BC == INSTANCE BlockingCall WITH
  phase <- [m \in Calls |->
    IF dest[m] = Nobody THEN "new" ELSE IF ran[m] = "no" THEN "pending" ELSE ran[m]]
ImplementsBlockingCall == BC!Spec

(* Every call returns, although target functions call back into threads    *)
(* that wait for them, or into their own.                                  *)
CallReturns == \A m \in Calls : dest[m] # Nobody ~> answer[m] # "none"
=============================================================================
