-------------------------- MODULE DelegateProofs ---------------------------
(***************************************************************************)
(* Theorems about AsyncWait, for every number of threads and calls, and    *)
(* about Delegates, for every set of containers and delegates.             *)
(***************************************************************************)
EXTENDS AsyncWait, Delegates, FiniteSetTheorems, SequenceTheorems, WellFoundedInduction, TLAPS

-----------------------------------------------------------------------------
(* A blocking call: AsyncWait.                                             *)

(* What a thread inside operator() or Invoke() has at hand.                *)
AtHand ==
  /\ \A t \in All : cpc[t] = "out" <=> calling[t] = Nobody
  /\ \A d \in Threads : ipc[d] # "idle" => serving[d] \in Calls

(* Invoke() holds the lock of its message while the target runs, and a     *)
(* message whose InvokerWaiting is set has a caller.                       *)
LockHeld ==
  \A d \in Threads : ipc[d] \in {"target", "signaled"} => lock[serving[d]] = d
WaitingHasCaller ==
  \A m \in invokerWaiting : \E t \in All : calling[t] = m

IInv == WaitTypeOK /\ AtHand /\ LockHeld /\ WaitingHasCaller /\ ArgumentsAlive

-----------------------------------------------------------------------------
LEMMA InitIInv == WaitInit => IInv
<1> SUFFICES ASSUME WaitInit PROVE IInv
  OBVIOUS
<1>1. WaitTypeOK
  BY DEF WaitInit, WaitTypeOK
<1>2. AtHand /\ LockHeld /\ WaitingHasCaller /\ ArgumentsAlive
  BY DEF WaitInit, AtHand, LockHeld, WaitingHasCaller, ArgumentsAlive
<1> QED
  BY <1>1, <1>2 DEF IInv

(* A new call: the thread that makes it was in no other. *)
LEMMA CallIInv ==
  ASSUME IInv, NEW t \in All, NEW m \in Calls, NEW d \in Threads, Call(t, m, d)
  PROVE  IInv'
<1>1. WaitTypeOK'
  BY DEF IInv, WaitTypeOK, Call, destVars
<1>2. AtHand'
  BY AsyncWaitAssumption DEF IInv, WaitTypeOK, AtHand, Call, destVars
<1>3. calling[t] = Nobody /\ calling' = [calling EXCEPT ![t] = m]
  BY DEF IInv, AtHand, Call
<1>4. \A n \in Calls : (\E u \in All : calling[u] = n) => \E u \in All : calling'[u] = n
  BY <1>3, AsyncWaitAssumption DEF IInv, WaitTypeOK
<1>5. calling'[t] = m
  BY <1>3 DEF IInv, WaitTypeOK
<1>6. WaitingHasCaller'
  BY <1>4, <1>5 DEF IInv, WaitTypeOK, WaitingHasCaller, Call
<1>7. LockHeld'
  BY DEF IInv, LockHeld, Call, destVars
<1>8. ArgumentsAlive'
  BY <1>4 DEF IInv, AtHand, ArgumentsAlive, Call, destVars
<1> QED
  BY <1>1, <1>2, <1>6, <1>7, <1>8 DEF IInv

(* The steps of operator() between the call and the critical section. *)
LEMMA SourceIInv ==
  ASSUME IInv, NEW t \in All,
         Accept(t) \/ Refuse(t) \/ WaitSignaled(t) \/ WaitExpires(t)
  PROVE  IInv'
<1>1. calling[t] \in Calls
  BY DEF IInv, WaitTypeOK, AtHand, Accept, Refuse, WaitSignaled, WaitExpires
<1>2. WaitTypeOK'
  <2>1. CASE Accept(t)
    <3>1. Append(queue[dest[calling[t]]], calling[t]) \in Seq(Calls)
      BY <1>1, <2>1 DEF IInv, WaitTypeOK, Accept
    <3> QED
      BY <1>1, <2>1, <3>1 DEF IInv, WaitTypeOK, Accept, destVars
  <2>2. CASE Refuse(t)
    BY <2>2 DEF IInv, WaitTypeOK, Refuse, destVars
  <2>3. CASE WaitSignaled(t)
    BY <1>1, <2>3 DEF IInv, WaitTypeOK, WaitSignaled, destVars
  <2>4. CASE WaitExpires(t)
    BY <2>4 DEF IInv, WaitTypeOK, WaitExpires, destVars
  <2> QED
    BY <2>1, <2>2, <2>3, <2>4
<1>3. AtHand'
  BY <1>1, AsyncWaitAssumption
     DEF IInv, WaitTypeOK, AtHand, Accept, Refuse, WaitSignaled, WaitExpires, destVars
<1>4. LockHeld' /\ WaitingHasCaller' /\ ArgumentsAlive'
  BY DEF IInv, LockHeld, WaitingHasCaller, ArgumentsAlive,
         Accept, Refuse, WaitSignaled, WaitExpires, destVars
<1> QED
  BY <1>2, <1>3, <1>4 DEF IInv

(* The critical section of the caller: nobody holds the lock, so that no   *)
(* target of this message is running.                                      *)
LEMMA ReadBackIInv ==
  ASSUME IInv, NEW t \in All, ReadBack(t)
  PROVE  IInv'
<1>1. calling[t] \in Calls
  BY DEF IInv, WaitTypeOK, AtHand, ReadBack
<1>2. WaitTypeOK'
  BY <1>1 DEF IInv, WaitTypeOK, ReadBack, destVars
<1>3. AtHand'
  BY AsyncWaitAssumption DEF IInv, WaitTypeOK, AtHand, ReadBack, destVars
<1>4. \A n \in Calls \ {calling[t]} :
        (\E u \in All : calling[u] = n) => \E u \in All : calling'[u] = n
  BY DEF IInv, WaitTypeOK, ReadBack
<1>5. WaitingHasCaller'
  BY <1>4 DEF IInv, WaitTypeOK, WaitingHasCaller, ReadBack
<1>6. LockHeld'
  BY DEF IInv, LockHeld, ReadBack, destVars
<1>7. ArgumentsAlive'
  <2> SUFFICES ASSUME NEW d \in Threads, ipc[d] = "target"
               PROVE  \E u \in All : calling'[u] = serving[d]
    BY DEF ArgumentsAlive, ReadBack, destVars
  <2>1. serving[d] # calling[t]
    BY AsyncWaitAssumption DEF IInv, LockHeld, ReadBack
  <2> QED
    BY <1>4, <2>1 DEF IInv, AtHand, ArgumentsAlive
<1> QED
  BY <1>2, <1>3, <1>5, <1>6, <1>7 DEF IInv

(* A thread takes a message out of its queue, or ends. *)
LEMMA PopIInv ==
  ASSUME IInv, NEW d \in Threads, Pop(d)
  PROVE  IInv'
<1>1. Head(queue[d]) \in Calls /\ Tail(queue[d]) \in Seq(Calls)
  <2>1. queue[d] \in Seq(Calls) /\ queue[d] # <<>>
    BY DEF IInv, WaitTypeOK, Pop
  <2> QED
    BY <2>1
<1>2. WaitTypeOK'
  BY <1>1 DEF IInv, WaitTypeOK, Pop, sourceVars
<1>3. AtHand' /\ LockHeld' /\ WaitingHasCaller' /\ ArgumentsAlive'
  BY <1>1 DEF IInv, WaitTypeOK, AtHand, LockHeld, WaitingHasCaller, ArgumentsAlive, Pop, sourceVars
<1> QED
  BY <1>2, <1>3 DEF IInv

LEMMA ExitIInv ==
  ASSUME IInv, NEW d \in Threads, Exit(d)
  PROVE  IInv'
<1>1. WaitTypeOK'
  <2>1. queue' \in [Threads -> Seq(Calls)]
    <3>1. <<>> \in Seq(Calls)
      OBVIOUS
    <3> QED
      BY <3>1 DEF IInv, WaitTypeOK, Exit
  <2> QED
    BY <2>1 DEF IInv, WaitTypeOK, Exit, sourceVars, destVars
<1>2. AtHand' /\ LockHeld' /\ WaitingHasCaller' /\ ArgumentsAlive'
  BY DEF IInv, AtHand, LockHeld, WaitingHasCaller, ArgumentsAlive, Exit, sourceVars, destVars
<1> QED
  BY <1>1, <1>2 DEF IInv

(* The target starts: the lock was free, and the flag shows a caller. *)
LEMMA StartIInv ==
  ASSUME IInv, NEW d \in Threads, Start(d)
  PROVE  IInv'
<1>1. serving[d] \in Calls
  BY DEF IInv, AtHand, Start
<1>2. WaitTypeOK'
  BY <1>1 DEF IInv, WaitTypeOK, Start, sourceVars
<1>3. AtHand' /\ WaitingHasCaller'
  BY DEF IInv, WaitTypeOK, AtHand, WaitingHasCaller, Start, sourceVars
<1>4. LockHeld'
  BY <1>1, AsyncWaitAssumption DEF IInv, WaitTypeOK, LockHeld, Start, sourceVars
<1>5. ArgumentsAlive'
  BY DEF IInv, WaitTypeOK, WaitingHasCaller, ArgumentsAlive, Start, sourceVars
<1> QED
  BY <1>2, <1>3, <1>4, <1>5 DEF IInv

LEMMA SkipIInv ==
  ASSUME IInv, NEW d \in Threads, Skip(d)
  PROVE  IInv'
<1>1. WaitTypeOK'
  BY DEF IInv, WaitTypeOK, Skip, sourceVars
<1>2. AtHand' /\ LockHeld' /\ WaitingHasCaller' /\ ArgumentsAlive'
  BY DEF IInv, WaitTypeOK, AtHand, LockHeld, WaitingHasCaller, ArgumentsAlive, Skip, sourceVars
<1> QED
  BY <1>1, <1>2 DEF IInv

LEMMA SignalIInv ==
  ASSUME IInv, NEW d \in Threads, Signal(d)
  PROVE  IInv'
<1>1. serving[d] \in Calls
  BY DEF IInv, AtHand, Signal
<1>2. WaitTypeOK'
  BY <1>1 DEF IInv, WaitTypeOK, Signal, sourceVars
<1>3. AtHand' /\ LockHeld' /\ WaitingHasCaller' /\ ArgumentsAlive'
  BY DEF IInv, WaitTypeOK, AtHand, LockHeld, WaitingHasCaller, ArgumentsAlive, Signal, sourceVars
<1> QED
  BY <1>2, <1>3 DEF IInv

(* The lock released is the one this thread holds, and no other thread     *)
(* runs the same message.                                                  *)
LEMMA UnlockIInv ==
  ASSUME IInv, NEW d \in Threads, Unlock(d)
  PROVE  IInv'
<1>1. serving[d] \in Calls
  BY DEF IInv, AtHand, Unlock
<1>2. WaitTypeOK'
  BY <1>1 DEF IInv, WaitTypeOK, Unlock, sourceVars
<1>3. AtHand' /\ WaitingHasCaller' /\ ArgumentsAlive'
  BY DEF IInv, WaitTypeOK, AtHand, WaitingHasCaller, ArgumentsAlive, Unlock, sourceVars
<1>4. LockHeld'
  <2> SUFFICES ASSUME NEW e \in Threads, ipc'[e] \in {"target", "signaled"}
               PROVE  lock'[serving'[e]] = e
    BY DEF LockHeld
  <2>1. e # d /\ ipc[e] \in {"target", "signaled"} /\ serving'[e] = serving[e]
    BY DEF IInv, WaitTypeOK, Unlock
  <2>2. lock[serving[e]] = e /\ lock[serving[d]] = d
    BY <2>1 DEF IInv, LockHeld, Unlock
  <2> QED
    BY <1>1, <2>1, <2>2 DEF IInv, WaitTypeOK, AtHand, Unlock
<1> QED
  BY <1>2, <1>3, <1>4 DEF IInv

-----------------------------------------------------------------------------
(* Every step keeps the invariant. *)
LEMMA NextIInv == IInv /\ [WaitNext]_waitVars => IInv'
<1> SUFFICES ASSUME IInv, [WaitNext]_waitVars PROVE IInv'
  OBVIOUS
<1>1. CASE \E t \in All, m \in Calls, d \in Threads : Call(t, m, d)
  BY <1>1, CallIInv
<1>2. CASE \E t \in All : Source(t)
  BY <1>2, SourceIInv, ReadBackIInv DEF Source
<1>3. CASE \E d \in Threads : Invoke(d) \/ Exit(d)
  BY <1>3, PopIInv, StartIInv, SkipIInv, SignalIInv, UnlockIInv, ExitIInv DEF Invoke
<1>4. CASE UNCHANGED waitVars
  BY <1>4 DEF IInv, WaitTypeOK, AtHand, LockHeld, WaitingHasCaller, ArgumentsAlive,
              waitVars, sourceVars, destVars
<1> QED
  BY <1>1, <1>2, <1>3, <1>4 DEF WaitNext, AtRest

LEMMA AlwaysIInv == WaitSpec => []IInv
BY InitIInv, NextIInv, PTL DEF WaitSpec

(* The variables of the blocking delegate keep their types. *)
THEOREM TypeCorrect == WaitSpec => []WaitTypeOK
<1>1. IInv => WaitTypeOK
  BY DEF IInv
<1> QED
  BY <1>1, AlwaysIInv, PTL

(* No target function runs on arguments that are gone, whenever a timeout  *)
(* comes and however calls nest.                                           *)
THEOREM ArgumentsStayAlive == WaitSpec => []ArgumentsAlive
<1>1. IInv => ArgumentsAlive
  BY DEF IInv
<1> QED
  BY <1>1, AlwaysIInv, PTL

-----------------------------------------------------------------------------
(* The refinement of BlockingCall.  A call is made by one thread, and is   *)
(* not answered before that thread leaves it.                              *)
CallersKnown ==
  /\ \A t \in All : calling[t] # Nobody => dest[calling[t]] # Nobody /\ answer[calling[t]] = "none"
  /\ \A t, u \in All : calling[t] = calling[u] /\ calling[t] # Nobody => t = u
  /\ \A m \in Calls : dest[m] = Nobody => ran[m] = "no" /\ answer[m] = "none"

Dispatching == {calling[t] : t \in {u \in All : cpc[u] = "dispatch"}}

(* Its message is in one place at a time: with the caller, in the queue of *)
(* its destination, or in Invoke() there.                                  *)
OnePlace ==
  /\ \A d \in Threads : \A i \in DOMAIN queue[d] :
       /\ dest[queue[d][i]] = d
       /\ queue[d][i] \notin Dispatching
       /\ \A j \in DOMAIN queue[d] : queue[d][i] = queue[d][j] => i = j
  /\ \A d \in Threads : ipc[d] # "idle" =>
       /\ dest[serving[d]] = d
       /\ serving[d] \notin Dispatching
       /\ \A i \in DOMAIN queue[d] : queue[d][i] # serving[d]

(* How far the target function is, by the place of the message.            *)
Progress ==
  /\ \A t \in All : cpc[t] = "dispatch" => ran[calling[t]] = "no"
  /\ \A d \in Threads : \A i \in DOMAIN queue[d] : ran[queue[d][i]] = "no"
  /\ \A d \in Threads :
       /\ ipc[d] = "invoke" => ran[serving[d]] = "no"
       /\ ipc[d] = "target" => ran[serving[d]] = "running"
       /\ ipc[d] = "signaled" => ran[serving[d]] = "done"

(* The lock is held while the target runs, and the semaphore is signaled   *)
(* when it has.                                                            *)
Signals ==
  /\ \A m \in Calls : ran[m] = "running" => lock[m] # Nobody
  /\ \A m \in signaled : ran[m] = "done"
  /\ \A t \in waited : cpc[t] = "readBack" /\ ran[calling[t]] = "done"

JInv == IInv /\ CallersKnown /\ OnePlace /\ Progress /\ Signals

LEMMA InitJInv == WaitInit => JInv
<1> SUFFICES ASSUME WaitInit PROVE JInv
  OBVIOUS
<1>1. CallersKnown /\ Progress /\ Signals
  BY DEF WaitInit, CallersKnown, Progress, Signals
<1>2. OnePlace
  BY DEF WaitInit, OnePlace, Dispatching
<1> QED
  BY <1>1, <1>2, InitIInv DEF JInv

LEMMA AppendFacts ==
  ASSUME NEW S, NEW s \in Seq(S), NEW x \in S
  PROVE  /\ DOMAIN Append(s, x) = DOMAIN s \cup {Len(s) + 1}
         /\ Len(s) + 1 \notin DOMAIN s
         /\ \A i \in DOMAIN s : Append(s, x)[i] = s[i]
         /\ Append(s, x)[Len(s) + 1] = x
OBVIOUS

LEMMA TailFacts ==
  ASSUME NEW S, NEW s \in Seq(S), s # <<>>
  PROVE  /\ 1 \in DOMAIN s /\ Head(s) = s[1]
         /\ \A i \in DOMAIN Tail(s) :
              i \in Nat /\ i + 1 \in DOMAIN s /\ i + 1 # 1 /\ Tail(s)[i] = s[i + 1]
OBVIOUS

(* A new call: its message is nowhere yet. *)
LEMMA CallJInv ==
  ASSUME JInv, NEW t \in All, NEW m \in Calls, NEW d \in Threads, Call(t, m, d)
  PROVE  JInv'
<1>1. /\ calling[t] = Nobody /\ calling' = [calling EXCEPT ![t] = m]
      /\ cpc' = [cpc EXCEPT ![t] = "dispatch"] /\ dest' = [dest EXCEPT ![m] = d] /\ dest[m] = Nobody
      /\ UNCHANGED <<queue, ipc, serving, waited, lock, signaled, ran, answer>>
  BY DEF JInv, IInv, AtHand, Call, destVars
<1>2. m # Nobody /\ d # Nobody /\ ran[m] = "no" /\ answer[m] = "none"
  BY <1>1, AsyncWaitAssumption DEF JInv, CallersKnown
<1>3. CallersKnown'
  BY <1>1, <1>2 DEF JInv, IInv, WaitTypeOK, CallersKnown
<1>4. Dispatching' \subseteq Dispatching \cup {m}
  BY <1>1, <1>2 DEF JInv, IInv, WaitTypeOK, Dispatching
<1>5. OnePlace'
  <2>1. \A e \in Threads : \A i \in DOMAIN queue[e] : queue[e][i] \in Calls /\ queue[e][i] # m
    BY <1>1, AsyncWaitAssumption DEF JInv, IInv, WaitTypeOK, OnePlace
  <2>2. \A e \in Threads : ipc[e] # "idle" => serving[e] \in Calls /\ serving[e] # m
    BY <1>1, AsyncWaitAssumption DEF JInv, IInv, AtHand, OnePlace
  <2> QED
    BY <1>1, <1>4, <2>1, <2>2 DEF JInv, IInv, WaitTypeOK, OnePlace
<1>6. Progress'
  BY <1>1, <1>2 DEF JInv, IInv, WaitTypeOK, Progress
<1>7. Signals'
  BY <1>1 DEF JInv, IInv, WaitTypeOK, AtHand, Signals
<1> QED
  BY <1>3, <1>5, <1>6, <1>7, CallIInv DEF JInv

(* The message goes to the end of the queue, which does not hold it. *)
LEMMA AcceptJInv ==
  ASSUME JInv, NEW t \in All, Accept(t)
  PROVE  JInv'
<1> DEFINE m == calling[t]
           d == dest[m]
<1>1. /\ cpc[t] = "dispatch" /\ cpc' = [cpc EXCEPT ![t] = "wait"] /\ d \in open
      /\ queue' = [queue EXCEPT ![d] = Append(@, m)]
      /\ UNCHANGED <<ipc, serving, calling, waited, dest, lock, signaled, ran, answer>>
  BY DEF Accept, destVars
<1>2. m \in Calls /\ d \in Threads /\ queue[d] \in Seq(Calls)
  BY <1>1 DEF JInv, IInv, WaitTypeOK, AtHand
<1>3. m \in Dispatching /\ ran[m] = "no"
  BY <1>1 DEF JInv, Progress, Dispatching
<1>4. Dispatching' \subseteq Dispatching \ {m}
  BY <1>1, <1>2, AsyncWaitAssumption DEF JInv, IInv, WaitTypeOK, CallersKnown, Dispatching
<1>5. CallersKnown' /\ Signals'
  BY <1>1 DEF JInv, IInv, WaitTypeOK, CallersKnown, Signals
<1>6. \A e \in Threads \ {d} : queue'[e] = queue[e]
  BY <1>1 DEF JInv, IInv, WaitTypeOK
<1>7. queue'[d] = Append(queue[d], m)
  BY <1>1, <1>2 DEF JInv, IInv, WaitTypeOK
<1>8. /\ DOMAIN queue'[d] = DOMAIN queue[d] \cup {Len(queue[d]) + 1}
      /\ \A i \in DOMAIN queue[d] : queue'[d][i] = queue[d][i]
      /\ queue'[d][Len(queue[d]) + 1] = m
  BY <1>2, <1>7, AppendFacts
<1>9. Progress'
  <2>1. \A u \in All : cpc'[u] = "dispatch" => ran'[calling'[u]] = "no"
    BY <1>1 DEF JInv, IInv, WaitTypeOK, Progress
  <2>2. \A e \in Threads : \A i \in DOMAIN queue'[e] : ran'[queue'[e][i]] = "no"
    BY <1>1, <1>3, <1>6, <1>8 DEF JInv, Progress
  <2> QED
    BY <1>1, <2>1, <2>2 DEF JInv, Progress
<1>10. \A i \in DOMAIN queue[d] : queue[d][i] \in Calls /\ queue[d][i] # m
  BY <1>2, <1>3 DEF JInv, OnePlace
<1>11. OnePlace'
  <2>1. ASSUME NEW e \in Threads, NEW i \in DOMAIN queue'[e]
        PROVE  /\ dest[queue'[e][i]] = e
               /\ queue'[e][i] \notin Dispatching'
               /\ \A j \in DOMAIN queue'[e] : queue'[e][i] = queue'[e][j] => i = j
    <3>1. CASE e # d
      <4>1. queue[e] \in Seq(Calls)
        BY DEF JInv, IInv, WaitTypeOK
      <4> QED
        BY <1>4, <1>6, <3>1, <4>1 DEF JInv, OnePlace
    <3>2. CASE e = d /\ i \in DOMAIN queue[d]
      BY <1>4, <1>8, <1>10, <3>2 DEF JInv, OnePlace
    <3>3. CASE e = d /\ i = Len(queue[d]) + 1
      BY <1>2, <1>4, <1>8, <1>10, <3>3
    <3> QED
      BY <1>8, <3>1, <3>2, <3>3
  <2>2. ASSUME NEW e \in Threads, ipc[e] # "idle"
        PROVE  /\ dest[serving[e]] = e
               /\ serving[e] \notin Dispatching'
               /\ \A i \in DOMAIN queue'[e] : queue'[e][i] # serving[e]
    <3>1. serving[e] \in Calls /\ serving[e] # m
      BY <1>3, <2>2 DEF JInv, IInv, AtHand, OnePlace
    <3> QED
      BY <1>4, <1>6, <1>8, <2>2, <3>1 DEF JInv, OnePlace
  <2>3. UNCHANGED <<dest, ipc, serving>>
    BY <1>1
  <2> QED
    BY <2>1, <2>2, <2>3 DEF OnePlace
<1>12. IInv'
  BY SourceIInv DEF JInv
<1> QED
  BY <1>5, <1>9, <1>11, <1>12 DEF JInv

(* The other steps of operator() before the critical section. *)
LEMMA WaitJInv ==
  ASSUME JInv, NEW t \in All, Refuse(t) \/ WaitSignaled(t) \/ WaitExpires(t)
  PROVE  JInv'
<1>1. /\ cpc' = [cpc EXCEPT ![t] = "readBack"]
      /\ signaled' \subseteq signaled
      /\ waited' = waited \/ (waited' = waited \cup {t} /\ calling[t] \in signaled)
      /\ UNCHANGED <<queue, ipc, serving, calling, dest, lock, ran, answer>>
  BY DEF Refuse, WaitSignaled, WaitExpires, destVars
<1>2. CallersKnown' /\ Progress' /\ Signals'
  BY <1>1 DEF JInv, IInv, WaitTypeOK, CallersKnown, Progress, Signals
<1>3. Dispatching' \subseteq Dispatching
  BY <1>1 DEF JInv, IInv, WaitTypeOK, Dispatching
<1>4. OnePlace'
  BY <1>1, <1>3 DEF JInv, OnePlace
<1> QED
  BY <1>2, <1>4, SourceIInv DEF JInv

(* The call is answered: no thread is in it any more. *)
LEMMA ReadBackJInv ==
  ASSUME JInv, NEW t \in All, ReadBack(t)
  PROVE  JInv'
<1>1. /\ cpc[t] = "readBack" /\ cpc' = [cpc EXCEPT ![t] = "out"]
      /\ calling' = [calling EXCEPT ![t] = Nobody]
      /\ waited' = waited \ {t}
      /\ answer' = [answer EXCEPT ![calling[t]] = IF t \in waited THEN "success" ELSE "failure"]
      /\ UNCHANGED <<queue, ipc, serving, dest, lock, signaled, ran>>
  BY DEF ReadBack, destVars
<1>2. calling[t] \in Calls /\ calling[t] # Nobody
  BY <1>1, AsyncWaitAssumption DEF JInv, IInv, WaitTypeOK, AtHand
<1>3. CallersKnown'
  BY <1>1, <1>2 DEF JInv, IInv, WaitTypeOK, CallersKnown
<1>4. Dispatching' \subseteq Dispatching
  BY <1>1 DEF JInv, IInv, WaitTypeOK, Dispatching
<1>5. OnePlace'
  BY <1>1, <1>4 DEF JInv, OnePlace
<1>6. Progress' /\ Signals'
  BY <1>1 DEF JInv, IInv, WaitTypeOK, Progress, Signals
<1> QED
  BY <1>3, <1>5, <1>6, ReadBackIInv DEF JInv

(* The message leaves the queue, which does not hold it a second time. *)
LEMMA PopJInv ==
  ASSUME JInv, NEW d \in Threads, Pop(d)
  PROVE  JInv'
<1> DEFINE m == Head(queue[d])
<1>1. /\ ipc[d] = "idle" /\ queue[d] # <<>>
      /\ serving' = [serving EXCEPT ![d] = m]
      /\ queue' = [queue EXCEPT ![d] = Tail(@)]
      /\ ipc' = [ipc EXCEPT ![d] = "invoke"]
      /\ UNCHANGED <<cpc, calling, waited, dest, lock, signaled, ran, answer>>
  BY DEF Pop, sourceVars
<1>2. queue[d] \in Seq(Calls)
  BY DEF JInv, IInv, WaitTypeOK
<1>3. /\ 1 \in DOMAIN queue[d] /\ m = queue[d][1]
      /\ \A i \in DOMAIN Tail(queue[d]) :
           /\ i \in Nat /\ i + 1 \in DOMAIN queue[d] /\ i + 1 # 1
           /\ Tail(queue[d])[i] = queue[d][i + 1]
  BY <1>1, <1>2, TailFacts
<1>4. queue'[d] = Tail(queue[d]) /\ \A e \in Threads \ {d} : queue'[e] = queue[e]
  BY <1>1 DEF JInv, IInv, WaitTypeOK
<1>5. serving'[d] = m /\ ipc'[d] = "invoke"
      /\ \A e \in Threads \ {d} : serving'[e] = serving[e] /\ ipc'[e] = ipc[e]
  BY <1>1 DEF JInv, IInv, WaitTypeOK
<1>6. CallersKnown' /\ Signals'
  BY <1>1 DEF JInv, CallersKnown, Signals
<1>7. Progress'
  BY <1>1, <1>3, <1>4, <1>5 DEF JInv, Progress
<1>8. \A i \in DOMAIN queue'[d] :
         /\ dest[queue'[d][i]] = d /\ queue'[d][i] \notin Dispatching /\ queue'[d][i] # m
         /\ \A j \in DOMAIN queue'[d] : queue'[d][i] = queue'[d][j] => i = j
  <2> SUFFICES ASSUME NEW i \in DOMAIN Tail(queue[d])
               PROVE  /\ dest[queue[d][i + 1]] = d /\ queue[d][i + 1] \notin Dispatching
                      /\ queue[d][i + 1] # m
                      /\ \A j \in DOMAIN Tail(queue[d]) : queue[d][i + 1] = queue[d][j + 1] => i = j
    BY <1>3, <1>4
  <2>1. queue[d][i + 1] # queue[d][1]
    BY <1>3 DEF JInv, OnePlace
  <2>2. ASSUME NEW j \in DOMAIN Tail(queue[d]), queue[d][i + 1] = queue[d][j + 1] PROVE i = j
    <3>1. i + 1 = j + 1
      BY <1>3, <2>2 DEF JInv, OnePlace
    <3>2. i \in Nat /\ j \in Nat
      BY <1>3
    <3> QED
      BY <3>1, <3>2
  <2> QED
    BY <1>3, <2>1, <2>2 DEF JInv, OnePlace
<1>9. dest[m] = d /\ m \notin Dispatching
  BY <1>3 DEF JInv, OnePlace
<1>10. Dispatching' = Dispatching
  BY <1>1 DEF Dispatching
<1>11. dest' = dest
  BY <1>1
<1>12. OnePlace'
  <2>1. ASSUME NEW e \in Threads, NEW i \in DOMAIN queue'[e]
        PROVE  /\ dest[queue'[e][i]] = e
               /\ queue'[e][i] \notin Dispatching
               /\ \A j \in DOMAIN queue'[e] : queue'[e][i] = queue'[e][j] => i = j
    <3>1. CASE e # d
      BY <1>4, <3>1 DEF JInv, OnePlace
    <3>2. CASE e = d
      BY <1>8, <3>2
    <3> QED
      BY <3>1, <3>2
  <2>2. ASSUME NEW e \in Threads, ipc'[e] # "idle"
        PROVE  /\ dest[serving'[e]] = e
               /\ serving'[e] \notin Dispatching
               /\ \A i \in DOMAIN queue'[e] : queue'[e][i] # serving'[e]
    <3>1. CASE e # d
      BY <1>4, <1>5, <2>2, <3>1 DEF JInv, OnePlace
    <3>2. CASE e = d
      BY <1>5, <1>8, <1>9, <3>2
    <3> QED
      BY <3>1, <3>2
  <2> QED
    BY <1>10, <1>11, <2>1, <2>2 DEF OnePlace
<1> QED
  BY <1>6, <1>7, <1>12, PopIInv DEF JInv

(* Invoke() of one thread changes ran only for its own message. *)
LEMMA OwnMessage ==
  ASSUME JInv, NEW d \in Threads, ipc[d] # "idle"
  PROVE  /\ serving[d] \in Calls
         /\ \A t \in All : cpc[t] = "dispatch" => calling[t] # serving[d]
         /\ \A e \in Threads : \A i \in DOMAIN queue[e] : queue[e][i] # serving[d]
         /\ \A e \in Threads \ {d} : ipc[e] # "idle" => serving[e] # serving[d]
<1>1. serving[d] \in Calls /\ dest[serving[d]] = d /\ serving[d] \notin Dispatching
  BY DEF JInv, IInv, AtHand, OnePlace
<1> QED
  BY <1>1 DEF JInv, OnePlace, Dispatching

LEMMA InvokeJInv ==
  ASSUME JInv, NEW d \in Threads, Start(d) \/ Skip(d) \/ Signal(d) \/ Unlock(d)
  PROVE  JInv'
<1> DEFINE m == serving[d]
<1>1. UNCHANGED <<queue, cpc, calling, waited, dest, answer>> /\ ipc[d] # "idle"
  BY DEF Start, Skip, Signal, Unlock, sourceVars
<1>2. /\ m \in Calls
      /\ \A t \in All : cpc[t] = "dispatch" => calling[t] # m
      /\ \A e \in Threads : \A i \in DOMAIN queue[e] : queue[e][i] # m
      /\ \A e \in Threads \ {d} : ipc[e] # "idle" => serving[e] # m
  BY <1>1, OwnMessage
<1>3. \A e \in Threads \ {d} : ipc'[e] = ipc[e] /\ serving'[e] = serving[e]
  BY DEF JInv, IInv, WaitTypeOK, Start, Skip, Signal, Unlock
<1>4. ipc'[d] = "idle" \/ serving'[d] = m
  BY DEF JInv, IInv, WaitTypeOK, Start, Skip, Signal, Unlock
<1>5. Dispatching' = Dispatching
  BY <1>1 DEF Dispatching
<1>6. OnePlace'
  BY <1>1, <1>3, <1>4, <1>5 DEF JInv, OnePlace
<1>7. /\ \A n \in Calls \ {m} : ran'[n] = ran[n]
      /\ ran[m] = "done" => ran'[m] = "done"
  BY <1>2 DEF JInv, IInv, WaitTypeOK, Progress, Start, Skip, Signal, Unlock
<1>8. CallersKnown'
  <2>1. dest[m] # Nobody
    BY <1>1, AsyncWaitAssumption DEF JInv, OnePlace
  <2> QED
    BY <1>1, <1>7, <2>1 DEF JInv, CallersKnown
<1>9. /\ ipc'[d] = "invoke" => ran'[serving'[d]] = "no"
      /\ ipc'[d] = "target" => ran'[serving'[d]] = "running"
      /\ ipc'[d] = "signaled" => ran'[serving'[d]] = "done"
  BY <1>2 DEF JInv, IInv, WaitTypeOK, Start, Skip, Signal, Unlock
<1>10. Progress'
  <2>1. \A t \in All : cpc[t] = "dispatch" => calling[t] \in Calls \ {m}
    BY <1>2 DEF JInv, IInv, WaitTypeOK, AtHand
  <2>2. \A e \in Threads : \A i \in DOMAIN queue[e] : queue[e][i] \in Calls \ {m}
    BY <1>2 DEF JInv, IInv, WaitTypeOK
  <2>3. \A e \in Threads \ {d} : ipc[e] # "idle" => serving[e] \in Calls \ {m}
    BY <1>2 DEF JInv, IInv, AtHand
  <2>4. \A e \in Threads :
          /\ ipc'[e] = "invoke" => ran'[serving'[e]] = "no"
          /\ ipc'[e] = "target" => ran'[serving'[e]] = "running"
          /\ ipc'[e] = "signaled" => ran'[serving'[e]] = "done"
    BY <1>3, <1>7, <1>9, <2>3 DEF JInv, Progress
  <2> QED
    BY <1>1, <1>7, <2>1, <2>2, <2>4 DEF JInv, Progress
<1>11. Signals'
  <2>1. \A n \in Calls : ran'[n] = "running" => lock'[n] # Nobody
    <3>1. CASE Start(d)
      <4>1. d # Nobody
        BY AsyncWaitAssumption
      <4> QED
        BY <1>2, <3>1, <4>1 DEF JInv, IInv, WaitTypeOK, Signals, Start
    <3>2. CASE Skip(d)
      BY <3>2 DEF JInv, Signals, Skip
    <3>3. CASE Signal(d)
      BY <1>2, <3>3 DEF JInv, IInv, WaitTypeOK, Signals, Signal
    <3>4. CASE Unlock(d)
      <4>1. ran[m] = "done"
        BY <3>4 DEF JInv, Progress, Unlock
      <4> QED
        BY <1>2, <3>4, <4>1 DEF JInv, IInv, WaitTypeOK, Signals, Unlock
    <3> QED
      BY <3>1, <3>2, <3>3, <3>4
  <2>2. \A n \in signaled' : ran'[n] = "done"
    <3>1. signaled' = signaled \/ (signaled' = signaled \cup {m} /\ ran'[m] = "done")
      BY <1>2 DEF JInv, IInv, WaitTypeOK, Start, Skip, Signal, Unlock
    <3> QED
      BY <1>7, <3>1 DEF JInv, IInv, WaitTypeOK, Signals
  <2>3. \A t \in waited : cpc[t] = "readBack" /\ ran'[calling[t]] = "done"
    <3> SUFFICES ASSUME NEW t \in waited PROVE cpc[t] = "readBack" /\ ran'[calling[t]] = "done"
      OBVIOUS
    <3>1. t \in All /\ cpc[t] = "readBack" /\ ran[calling[t]] = "done"
      BY DEF JInv, IInv, WaitTypeOK, Signals
    <3>2. calling[t] \in Calls
      BY <3>1 DEF JInv, IInv, WaitTypeOK, AtHand
    <3> QED
      BY <1>7, <3>1, <3>2
  <2> QED
    BY <1>1, <2>1, <2>2, <2>3 DEF Signals
<1>12. IInv'
  BY StartIInv, SkipIInv, SignalIInv, UnlockIInv DEF JInv
<1> QED
  BY <1>6, <1>8, <1>10, <1>11, <1>12 DEF JInv

LEMMA ExitJInv ==
  ASSUME JInv, NEW d \in Threads, Exit(d)
  PROVE  JInv'
<1>1. UNCHANGED <<ipc, serving, cpc, calling, waited, dest, lock, signaled, ran, answer>>
  BY DEF Exit, sourceVars, destVars
<1>2. \A e \in Threads : queue'[e] = queue[e] \/ queue'[e] = <<>>
  BY DEF JInv, IInv, WaitTypeOK, Exit
<1>3. CallersKnown' /\ Signals' /\ Progress'
  BY <1>1, <1>2 DEF JInv, CallersKnown, Signals, Progress
<1>4. Dispatching' = Dispatching
  BY <1>1 DEF Dispatching
<1>5. OnePlace'
  BY <1>1, <1>2, <1>4 DEF JInv, OnePlace
<1> QED
  BY <1>3, <1>5, ExitIInv DEF JInv

LEMMA NextJInv == JInv /\ [WaitNext]_waitVars => JInv'
<1> SUFFICES ASSUME JInv, [WaitNext]_waitVars PROVE JInv'
  OBVIOUS
<1>1. CASE \E t \in All, m \in Calls, d \in Threads : Call(t, m, d)
  BY <1>1, CallJInv
<1>2. CASE \E t \in All : Source(t)
  BY <1>2, AcceptJInv, WaitJInv, ReadBackJInv DEF Source
<1>3. CASE \E d \in Threads : Invoke(d) \/ Exit(d)
  BY <1>3, PopJInv, InvokeJInv, ExitJInv DEF Invoke
<1>4. CASE UNCHANGED waitVars
  <2>1. IInv'
    BY <1>4, NextIInv DEF JInv
  <2>2. CallersKnown' /\ OnePlace' /\ Progress' /\ Signals'
    BY <1>4 DEF JInv, CallersKnown, OnePlace, Dispatching, Progress, Signals,
                waitVars, sourceVars, destVars
  <2> QED
    BY <2>1, <2>2 DEF JInv
<1> QED
  BY <1>1, <1>2, <1>3, <1>4 DEF WaitNext, AtRest

LEMMA AlwaysJInv == WaitSpec => []JInv
BY InitJInv, NextJInv, PTL DEF WaitSpec

(* The refinement mapping. *)
Phase == [m \in Calls |->
  IF dest[m] = Nobody THEN "new" ELSE IF ran[m] = "no" THEN "pending" ELSE ran[m]]

LEMMA StepMaps ==
  ASSUME NEW m \in Calls, NEW from, NEW to, answer[m] = "none", Phase[m] = from,
         Phase' = [Phase EXCEPT ![m] = to], UNCHANGED answer
  PROVE  BC!Step(m, from, to)
BY DEF Phase, BC!Step

LEMMA CallMaps ==
  ASSUME JInv, NEW t \in All, NEW m \in Calls, NEW d \in Threads, Call(t, m, d)
  PROVE  BC!Call(m)
<1>1. dest[m] = Nobody /\ dest' = [dest EXCEPT ![m] = d] /\ UNCHANGED <<ran, answer>>
  BY DEF Call
<1>2. ran[m] = "no" /\ answer[m] = "none" /\ d # Nobody
  BY <1>1, AsyncWaitAssumption DEF JInv, CallersKnown
<1>3. Phase[m] = "new" /\ Phase' = [Phase EXCEPT ![m] = "pending"]
  BY <1>1, <1>2 DEF JInv, IInv, WaitTypeOK, Phase
<1> QED
  BY <1>1, <1>2, <1>3, StepMaps DEF BC!Call

LEMMA AnswerMaps ==
  ASSUME JInv, NEW t \in All, ReadBack(t)
  PROVE  BC!Succeed(calling[t]) \/ BC!Fail(calling[t])
<1> DEFINE m == calling[t]
<1>1. /\ cpc[t] = "readBack" /\ lock[m] = Nobody /\ UNCHANGED <<dest, ran>>
      /\ answer' = [answer EXCEPT ![m] = IF t \in waited THEN "success" ELSE "failure"]
  BY DEF ReadBack
<1>2. m \in Calls /\ m # Nobody
  BY <1>1, AsyncWaitAssumption DEF JInv, IInv, WaitTypeOK, AtHand
<1>3. answer[m] = "none" /\ dest[m] # Nobody /\ ran[m] \in {"no", "done"}
  BY <1>1, <1>2 DEF JInv, IInv, WaitTypeOK, CallersKnown, Signals
<1>4. UNCHANGED Phase
  BY <1>1 DEF Phase
<1>5. CASE t \in waited
  <2>1. Phase[m] = "done"
    BY <1>2, <1>3, <1>5 DEF JInv, Signals, Phase
  <2> QED
    BY <1>1, <1>3, <1>4, <1>5, <2>1 DEF BC!Succeed, Phase
<1>6. CASE t \notin waited
  <2>1. Phase[m] \in {"pending", "done"}
    BY <1>2, <1>3 DEF Phase
  <2> QED
    BY <1>1, <1>3, <1>4, <1>6, <2>1 DEF BC!Fail, Phase
<1> QED
  BY <1>5, <1>6

(* Whom a target function runs for has not been answered. *)
LEMMA StartMaps ==
  ASSUME JInv, NEW d \in Threads, Start(d)
  PROVE  BC!Start(serving[d])
<1> DEFINE m == serving[d]
<1>1. /\ ipc[d] = "invoke" /\ m \in invokerWaiting
      /\ ran' = [ran EXCEPT ![m] = "running"] /\ UNCHANGED <<dest, answer>>
  BY DEF Start
<1>2. m \in Calls /\ m # Nobody
  BY <1>1, AsyncWaitAssumption DEF JInv, IInv, AtHand
<1>3. answer[m] = "none" /\ dest[m] # Nobody
  BY <1>1, <1>2 DEF JInv, IInv, WaitingHasCaller, CallersKnown
<1>4. ran[m] = "no"
  BY <1>1 DEF JInv, Progress
<1>5. Phase[m] = "pending" /\ Phase' = [Phase EXCEPT ![m] = "running"]
  BY <1>1, <1>2, <1>3, <1>4 DEF JInv, IInv, WaitTypeOK, Phase
<1> QED
  BY <1>1, <1>2, <1>3, <1>5, StepMaps DEF BC!Start

LEMMA EndMaps ==
  ASSUME JInv, NEW d \in Threads, Signal(d)
  PROVE  BC!End(serving[d])
<1> DEFINE m == serving[d]
<1>1. /\ ipc[d] = "target"
      /\ ran' = [ran EXCEPT ![m] = "done"] /\ UNCHANGED <<dest, answer>>
  BY DEF Signal
<1>2. m \in Calls /\ m # Nobody
  BY <1>1, AsyncWaitAssumption DEF JInv, IInv, AtHand
<1>3. answer[m] = "none" /\ dest[m] # Nobody
  BY <1>1, <1>2 DEF JInv, IInv, ArgumentsAlive, CallersKnown
<1>4. ran[m] = "running"
  BY <1>1 DEF JInv, Progress
<1>5. Phase[m] = "running" /\ Phase' = [Phase EXCEPT ![m] = "done"]
  BY <1>1, <1>2, <1>3, <1>4 DEF JInv, IInv, WaitTypeOK, Phase
<1> QED
  BY <1>1, <1>2, <1>3, <1>5, StepMaps DEF BC!End

LEMMA InitMaps == WaitInit => BC!Init
BY DEF WaitInit, BC!Init

LEMMA NextMaps == JInv /\ [WaitNext]_waitVars => [BC!Next]_(BC!vars)
<1> SUFFICES ASSUME JInv, [WaitNext]_waitVars PROVE BC!Next \/ UNCHANGED BC!vars
  OBVIOUS
<1>1. CASE \E t \in All, m \in Calls, d \in Threads : Call(t, m, d)
  BY <1>1, CallMaps DEF BC!Next
<1>2. ASSUME NEW t \in All, ReadBack(t) PROVE BC!Next
  <2>1. calling[t] \in Calls
    BY <1>2 DEF JInv, IInv, WaitTypeOK, AtHand, ReadBack
  <2>2. BC!Succeed(calling[t]) \/ BC!Fail(calling[t])
    BY <1>2, AnswerMaps
  <2> QED
    BY <2>1, <2>2 DEF BC!Next
<1>3. ASSUME NEW d \in Threads, Start(d) \/ Signal(d) PROVE BC!Next
  <2>1. serving[d] \in Calls
    BY <1>3 DEF JInv, IInv, AtHand, Start, Signal
  <2>2. BC!Start(serving[d]) \/ BC!End(serving[d])
    BY <1>3, StartMaps, EndMaps
  <2> QED
    BY <2>1, <2>2 DEF BC!Next, BC!Start, BC!End
<1>4. ASSUME NEW t \in All, Accept(t) \/ Refuse(t) \/ WaitSignaled(t) \/ WaitExpires(t)
      PROVE  UNCHANGED <<dest, ran, answer>>
  BY <1>4 DEF Accept, Refuse, WaitSignaled, WaitExpires
<1>5. ASSUME NEW d \in Threads, Pop(d) \/ Skip(d) \/ Unlock(d) \/ Exit(d)
      PROVE  UNCHANGED <<dest, ran, answer>>
  BY <1>5 DEF Pop, Skip, Unlock, Exit
<1>6. UNCHANGED waitVars => UNCHANGED <<dest, ran, answer>>
  BY DEF waitVars
<1>7. UNCHANGED <<dest, ran, answer>> => UNCHANGED BC!vars
  BY DEF BC!vars
<1> QED
  BY <1>1, <1>2, <1>3, <1>4, <1>5, <1>6, <1>7 DEF WaitNext, AtRest, Source, Invoke

(* Seen by its caller, a blocking call is a BlockingCall: at most one run  *)
(* of the target, while the caller is in operator(), and no success but    *)
(* that of a target that has run to its end.                               *)
THEOREM BlockingCallImplemented == WaitSpec => ImplementsBlockingCall
BY InitMaps, NextMaps, AlwaysJInv, PTL DEF WaitSpec, ImplementsBlockingCall, BC!Spec

-----------------------------------------------------------------------------
(* Induction, with a set for the property: what the recursive function of  *)
(* Bound() computes is shown by it.                                        *)

(* A set of numbers that is not empty has a smallest element.              *)
LEMMA SmallestOf ==
  ASSUME NEW T \in SUBSET Nat, T # {}
  PROVE  \E n \in T : \A m \in T : n <= m
<1>1. PICK R : R = OpToRel(<, Nat)
  OBVIOUS
<1>2. IsWellFoundedOn(R, Nat)
  BY <1>1, NatLessThanWellFounded
<1>3. PICK n \in T : \A m \in T : <<m, n>> \notin R
  BY <1>2, WFMin
<1>4. \A m \in T : ~(m < n)
  BY <1>1, <1>3 DEF OpToRel
<1> QED
  BY <1>3, <1>4

(* A set with 0 that has the successor of each of its numbers has all.     *)
LEMMA InductionBySet ==
  ASSUME NEW T, 0 \in T, \A n \in Nat : n \in T => n + 1 \in T
  PROVE  \A n \in Nat : n \in T
<1>1. SUFFICES ASSUME Nat \ T # {} PROVE FALSE
  OBVIOUS
<1>2. PICK n \in Nat \ T : \A m \in Nat \ T : n <= m
  BY <1>1, SmallestOf
<1>3. n # 0 /\ n - 1 \in Nat
  BY <1>2
<1>4. n - 1 \in T
  BY <1>2, <1>3
<1>5. (n - 1) + 1 \in T
  BY <1>3, <1>4
<1> QED
  BY <1>2, <1>3, <1>5

-----------------------------------------------------------------------------
(* Delegates.                                                              *)

(* What a delegate can be: null, or one of a class with what it binds; the *)
(* result it has is that of its last call.                                 *)
Classes == {"Free", "Member", "MemberSp", "Function"}
MadeOfClass(d) ==
    /\ d.cls \in Classes /\ d.fn \in Fns
    /\ d.cls \in {"Free", "Function"} => d.obj = Nil /\ d.own = Nil
    /\ d.cls = "Member" => d.obj \in Objs /\ d.own \in {"raw", "shared"}
    /\ d.cls = "MemberSp" => d.obj \in Objs /\ d.own = "weak"
ResultIsOwn(d) == d.ok => d.val = d.n \/ (d.own = "weak" /\ d.val = 0)

Records ==
    [cls : Classes \cup {Nil}, mode : {"sync", "async", "wait"}, obj : Objs \cup {Nil},
     own : {"raw", "shared", "weak", Nil}, fn : Fns \cup {Nil}, route : Routes \cup {Nil},
     sync : BOOLEAN, ok : BOOLEAN, val : Nat \cup {Nil}, n : Nat]

AnyDelegate == {d \in Records : (d = Unbound \/ MadeOfClass(d)) /\ ResultIsOwn(d)}

LEMMA NilIsSpecial ==
  Nil \notin Objs /\ Nil \notin Fns /\ Nil \notin Classes /\ Nil \notin {"raw", "shared", "weak"}
  /\ Nil \notin Slots /\ Nil \notin Lists
  BY NilIsNothing, DelegatesConstants DEF Classes

LEMMA UnboundIsNone == Unbound \in AnyDelegate /\ ~MadeOfClass(Unbound)
<1>1. Unbound \in Records
  BY DEF Unbound, Records
<1>2. ResultIsOwn(Unbound) /\ ~MadeOfClass(Unbound)
  BY NilIsSpecial DEF Unbound, ResultIsOwn, MadeOfClass
<1> QED
  BY <1>1, <1>2 DEF AnyDelegate

LEMMA BoundIsMade ==
  ASSUME NEW d \in AnyDelegate
  PROVE  d # Unbound <=> MadeOfClass(d)
  BY UnboundIsNone DEF AnyDelegate

(* Fields that say nothing of the target may change.                       *)
LEMMA StaysMade ==
  ASSUME NEW d \in AnyDelegate, NEW e \in Records, ResultIsOwn(e), MadeOfClass(d),
         e.cls = d.cls, e.obj = d.obj, e.own = d.own, e.fn = d.fn
  PROVE  e \in AnyDelegate /\ MadeOfClass(e) /\ e # Unbound
<1>1. MadeOfClass(e)
  BY DEF MadeOfClass
<1> QED
  BY <1>1, UnboundIsNone DEF AnyDelegate

LEMMA CloneIs ==
  ASSUME NEW d \in AnyDelegate
  PROVE  /\ Clone(d) \in AnyDelegate /\ (Clone(d) = Unbound <=> d = Unbound)
         /\ Clone(d).cls = d.cls /\ Clone(d).mode = d.mode /\ Clone(d).obj = d.obj /\ Clone(d).own = d.own
         /\ Clone(d).fn = d.fn /\ Clone(d).route = d.route /\ Clone(d).ok = d.ok
         /\ Clone(d).val = d.val /\ Clone(d).n = d.n
<1>0. d \in Records /\ ResultIsOwn(d)
  BY DEF AnyDelegate
<1>1. PICK e : e = Clone(d)
  OBVIOUS
<1>2. /\ e \in Records
      /\ e.cls = d.cls /\ e.mode = d.mode /\ e.obj = d.obj /\ e.own = d.own
      /\ e.fn = d.fn /\ e.route = d.route /\ e.ok = d.ok /\ e.val = d.val /\ e.n = d.n
  BY <1>0, <1>1 DEF Clone, Records
<1>3. ResultIsOwn(e)
  BY <1>0, <1>2 DEF ResultIsOwn
<1>4. CASE d = Unbound
  <2>1. e = Unbound
    BY <1>1, <1>4 DEF Clone, Unbound
  <2> QED
    BY <1>1, <1>2, <1>4, <2>1
<1>5. CASE d # Unbound
  <2>1. e \in AnyDelegate /\ e # Unbound
    BY <1>2, <1>3, <1>5, BoundIsMade, StaysMade
  <2> QED
    BY <1>1, <1>2, <1>5, <2>1
<1> QED
  BY <1>4, <1>5

(* A delegate during its blocking call, and after it.                      *)
LEMMA ForgetsIs ==
  ASSUME NEW d \in AnyDelegate, d # Unbound, NEW c \in Nat
  PROVE  LET e == [d EXCEPT !.ok = FALSE, !.val = Nil, !.n = c]
         IN  /\ e \in AnyDelegate /\ e # Unbound /\ e.n = c
             /\ e.cls = d.cls /\ e.mode = d.mode /\ e.obj = d.obj /\ e.own = d.own /\ e.fn = d.fn
<1>0. d \in Records /\ MadeOfClass(d)
  BY BoundIsMade DEF AnyDelegate
<1>1. PICK e : e = [d EXCEPT !.ok = FALSE, !.val = Nil, !.n = c]
  OBVIOUS
<1>2. /\ e \in Records /\ e.ok = FALSE /\ e.n = c
      /\ e.cls = d.cls /\ e.mode = d.mode /\ e.obj = d.obj /\ e.own = d.own /\ e.fn = d.fn
  BY <1>0, <1>1 DEF Records
<1>3. e \in AnyDelegate /\ e # Unbound
  BY <1>0, <1>2, StaysMade DEF ResultIsOwn
<1> QED
  BY <1>1, <1>2, <1>3

LEMMA KeepsIs ==
  ASSUME NEW d \in AnyDelegate, d # Unbound, NEW v \in Nat, v = d.n \/ (d.own = "weak" /\ v = 0)
  PROVE  LET e == [d EXCEPT !.ok = TRUE, !.val = v]
         IN  e \in AnyDelegate /\ e # Unbound
<1>0. d \in Records /\ MadeOfClass(d)
  BY BoundIsMade DEF AnyDelegate
<1>1. PICK e : e = [d EXCEPT !.ok = TRUE, !.val = v]
  OBVIOUS
<1>2. /\ e \in Records /\ e.ok = TRUE /\ e.n = d.n /\ e.val = v
      /\ e.cls = d.cls /\ e.obj = d.obj /\ e.own = d.own /\ e.fn = d.fn
  BY <1>0, <1>1 DEF Records
<1>3. e \in AnyDelegate /\ e # Unbound
  BY <1>0, <1>2, StaysMade DEF ResultIsOwn
<1> QED
  BY <1>1, <1>3

LEMMA SyncIs ==
  ASSUME NEW d \in AnyDelegate, d # Unbound
  PROVE  LET e == [d EXCEPT !.sync = TRUE]
         IN  e \in AnyDelegate /\ e # Unbound /\ e.own = d.own /\ e.obj = d.obj
<1>0. d \in Records /\ MadeOfClass(d) /\ ResultIsOwn(d)
  BY BoundIsMade DEF AnyDelegate
<1>1. PICK e : e = [d EXCEPT !.sync = TRUE]
  OBVIOUS
<1>2. /\ e \in Records /\ e.ok = d.ok /\ e.n = d.n /\ e.val = d.val
      /\ e.cls = d.cls /\ e.obj = d.obj /\ e.own = d.own /\ e.fn = d.fn
  BY <1>0, <1>1 DEF Records
<1>3. ResultIsOwn(e)
  BY <1>0, <1>2 DEF ResultIsOwn
<1>4. e \in AnyDelegate /\ e # Unbound
  BY <1>0, <1>2, <1>3, StaysMade
<1> QED
  BY <1>1, <1>2, <1>4

(* What MakeDelegate() gives is a delegate.                                *)
LEMMA MadeIs == \A d \in Made : d \in AnyDelegate /\ d # Unbound
<1>1. ASSUME NEW d \in SyncDelegates PROVE d \in Records /\ MadeOfClass(d) /\ ResultIsOwn(d)
  <2>1. ASSUME NEW g \in Fns
        PROVE  /\ FreeBind(g) \in Records /\ MadeOfClass(FreeBind(g)) /\ ResultIsOwn(FreeBind(g))
               /\ FunctionBind(g) \in Records /\ MadeOfClass(FunctionBind(g)) /\ ResultIsOwn(FunctionBind(g))
    BY DEF FreeBind, FunctionBind, Unbound, Records, Classes, MadeOfClass, ResultIsOwn
  <2>2. ASSUME NEW g \in Fns, NEW p \in Objs
        PROVE  MemberBindShared(p, g) \in Records /\ MadeOfClass(MemberBindShared(p, g)) /\ ResultIsOwn(MemberBindShared(p, g))
    BY DEF MemberBindShared, Unbound, Records, Classes, MadeOfClass, ResultIsOwn
  <2>3. ASSUME NEW g \in Fns, NEW p \in Objs
        PROVE  MemberBindRaw(p, g) \in Records /\ MadeOfClass(MemberBindRaw(p, g)) /\ ResultIsOwn(MemberBindRaw(p, g))
    BY DEF MemberBindRaw, Unbound, Records, Classes, MadeOfClass, ResultIsOwn
  <2>4. ASSUME NEW g \in Fns, NEW p \in Objs
        PROVE  MemberSpBind(p, g) \in Records /\ MadeOfClass(MemberSpBind(p, g)) /\ ResultIsOwn(MemberSpBind(p, g))
    BY DEF MemberSpBind, Unbound, Records, Classes, MadeOfClass, ResultIsOwn
  <2> QED
    BY <2>1, <2>2, <2>3, <2>4 DEF SyncDelegates
<1>2. ASSUME NEW d \in SyncDelegates, NEW m \in {"async", "wait"}, NEW r \in Routes
      PROVE  OnThread(d, m, r) \in AnyDelegate /\ OnThread(d, m, r) # Unbound
  <2>0. d \in AnyDelegate /\ MadeOfClass(d) /\ d \in Records /\ ResultIsOwn(d)
    BY <1>1 DEF AnyDelegate
  <2>1. PICK e : e = OnThread(d, m, r)
    OBVIOUS
  <2>2. /\ e \in Records /\ e.ok = d.ok /\ e.n = d.n /\ e.val = d.val
        /\ e.cls = d.cls /\ e.obj = d.obj /\ e.own = d.own /\ e.fn = d.fn
    BY <2>0, <2>1 DEF Records, OnThread
  <2>3. ResultIsOwn(e)
    BY <2>0, <2>2 DEF ResultIsOwn
  <2> QED
    BY <2>0, <2>1, <2>2, <2>3, StaysMade
<1>3. ASSUME NEW g \in Fns, NEW p \in Objs
      PROVE  {FreeBind(g), FunctionBind(g), MemberBindShared(p, g), MemberBindRaw(p, g), MemberSpBind(p, g)} \subseteq SyncDelegates
  BY DEF SyncDelegates
<1>4. \A g \in Fns : FreeBind(g) \in SyncDelegates /\ FunctionBind(g) \in SyncDelegates
  BY DEF SyncDelegates
<1>5. ASSUME NEW d \in AsyncDelegates PROVE \E e \in SyncDelegates, m \in {"async", "wait"}, r \in Routes : d = OnThread(e, m, r)
  <2>1. ASSUME NEW g \in Fns, NEW r \in Routes,
               d \in {FreeAsyncBind(g, r), FunctionAsyncBind(g, r), FreeAsyncWaitBind(g, r), FunctionAsyncWaitBind(g, r)}
        PROVE  \E e \in SyncDelegates, m \in {"async", "wait"} : d = OnThread(e, m, r)
    BY <1>4, <2>1 DEF FreeAsyncBind, FunctionAsyncBind, FreeAsyncWaitBind, FunctionAsyncWaitBind
  <2>2. ASSUME NEW p \in Objs, NEW g \in Fns, NEW r \in Routes,
               d \in {MemberAsyncBindShared(p, g, r), MemberAsyncBindRaw(p, g, r), MemberAsyncSpBind(p, g, r),
                      MemberAsyncWaitBindShared(p, g, r), MemberAsyncWaitBindRaw(p, g, r),
                      MemberAsyncWaitSpBind(p, g, r)}
        PROVE  \E e \in SyncDelegates, m \in {"async", "wait"} : d = OnThread(e, m, r)
    BY <1>3, <2>2 DEF MemberAsyncBindShared, MemberAsyncBindRaw, MemberAsyncSpBind,
                      MemberAsyncWaitBindShared, MemberAsyncWaitBindRaw, MemberAsyncWaitSpBind
  <2> QED
    BY <2>1, <2>2 DEF AsyncDelegates
<1>6. ASSUME NEW d \in SyncDelegates PROVE d \in AnyDelegate /\ d # Unbound
  BY <1>1, BoundIsMade DEF AnyDelegate
<1> QED
  BY <1>2, <1>5, <1>6, DelegatesConstants

-----------------------------------------------------------------------------
(* Lists of nodes.                                                         *)

AnyNode == [id : 1..MaxNodes, d : AnyDelegate]
BoundNodes == {e \in AnyNode : e.d # Unbound}
Distinct(s) == \A i, j \in DOMAIN s : s[i].id = s[j].id => i = j

(* One more node.                                                          *)
BoundOne(s, n, t) == IF s[n].d # Unbound THEN Append(t, s[n]) ELSE t

(* f holds what Bound() has found in the first n nodes, for n up to m.     *)
Binds(f, m, s) == f[0] = <<>> /\ \A n \in 1..m : f[n] = BoundOne(s, n, f[n - 1])

(* The recursive function of Bound() exists,                               *)
LEMMA BoundRec ==
  ASSUME NEW s, Len(s) \in Nat
  PROVE  \E f : f = [n \in 0..Len(s) |-> IF n = 0 THEN <<>> ELSE BoundOne(s, n, f[n - 1])]
<1> DEFINE L == Len(s)
           G(m, f) == f = [n \in 0..m |-> IF n = 0 THEN <<>> ELSE BoundOne(s, n, f[n - 1])]
           T == {m \in Nat : \E f : G(m, f)}
<1>1. 0 \in T
  <2> DEFINE f == [n \in 0..0 |-> <<>>]
  <2>1. G(0, f)
    OBVIOUS
  <2> QED
    BY <2>1
<1>2. ASSUME NEW m \in Nat, m \in T PROVE m + 1 \in T
  <2>1. PICK f : G(m, f)
    BY <1>2
  <2>2. DOMAIN f = 0..m /\ \A n \in 0..m : f[n] = IF n = 0 THEN <<>> ELSE BoundOne(s, n, f[n - 1])
    BY <2>1
  <2> HIDE DEF G
  <2> DEFINE g == [n \in 0..m + 1 |-> IF n = m + 1 THEN BoundOne(s, m + 1, f[m]) ELSE f[n]]
  <2>3. \A n \in 0..m : g[n] = f[n]
    BY SMT
  <2>4. g[m + 1] = BoundOne(s, m + 1, f[m])
    BY SMT
  <2>5. g[m + 1] = BoundOne(s, m + 1, g[m])
    BY <2>3, <2>4
  <2>6. \A n \in 0..m + 1 : g[n] = IF n = 0 THEN <<>> ELSE BoundOne(s, n, g[n - 1])
    <3> SUFFICES ASSUME NEW n \in 0..m + 1 PROVE g[n] = IF n = 0 THEN <<>> ELSE BoundOne(s, n, g[n - 1])
      OBVIOUS
    <3>1. CASE n = m + 1
      BY <3>1, <2>5
    <3>2. CASE n = 0
      BY <3>2, <2>2, <2>3
    <3>3. CASE n \in 1..m
      <4>1. g[n] = f[n] /\ g[n - 1] = f[n - 1]
        BY <3>3, <2>3
      <4> QED
        BY <3>3, <2>2, <4>1
    <3> QED
      BY <3>1, <3>2, <3>3
  <2> HIDE DEF g
  <2>7. g = [n \in 0..m + 1 |-> g[n]]
    BY DEF g
  <2>8. G(m + 1, g)
    BY <2>6, <2>7 DEF G
  <2> QED
    BY <2>8
<1>3. L \in T
  <2> HIDE DEF T
  <2> QED
    BY <1>1, <1>2, InductionBySet
<1> QED
  BY <1>3

(* so that Bound() is its last value.                                      *)
LEMMA BoundIs ==
  ASSUME NEW s, Len(s) \in Nat
  PROVE  \E f : Binds(f, Len(s), s) /\ Bound(s) = f[Len(s)]
<1> DEFINE f == CHOOSE h : h = [n \in 0..Len(s) |-> IF n = 0 THEN <<>> ELSE IF s[n].d # Unbound THEN Append(h[n - 1], s[n]) ELSE h[n - 1]]
<1>1. Bound(s) = f[Len(s)]
  BY DEF Bound
<1>2. \E h : h = [n \in 0..Len(s) |-> IF n = 0 THEN <<>> ELSE IF s[n].d # Unbound THEN Append(h[n - 1], s[n]) ELSE h[n - 1]]
  BY BoundRec DEF BoundOne
<1>3. f = [n \in 0..Len(s) |-> IF n = 0 THEN <<>> ELSE IF s[n].d # Unbound THEN Append(f[n - 1], s[n]) ELSE f[n - 1]]
  BY <1>2
<1> HIDE DEF f
<1>4. f[0] = <<>>
  BY <1>3
<1>5. ASSUME NEW n \in 1..Len(s) PROVE f[n] = BoundOne(s, n, f[n - 1])
  <2>1. n \in 0..Len(s) /\ n # 0
    OBVIOUS
  <2>2. f[n] = IF s[n].d # Unbound THEN Append(f[n - 1], s[n]) ELSE f[n - 1]
    BY <1>3, <2>1
  <2> QED
    BY <2>2 DEF BoundOne
<1>6. Binds(f, Len(s), s)
  BY <1>4, <1>5 DEF Binds
<1> QED
  BY <1>1, <1>6

(* A node at the end of a list.                                            *)
LEMMA AppendNode ==
  ASSUME NEW s \in Seq(AnyNode), NEW e \in AnyNode
  PROVE  /\ Append(s, e) \in Seq(AnyNode) /\ ToSet(Append(s, e)) = ToSet(s) \cup {e}
         /\ Distinct(s) /\ (\A x \in ToSet(s) : x.id # e.id) => Distinct(Append(s, e))
         /\ DOMAIN Append(s, e) = 1..Len(s) + 1 /\ Len(s) \in Nat /\ Len(Append(s, e)) = Len(s) + 1
         /\ \A i \in DOMAIN s : i \in DOMAIN Append(s, e) /\ Append(s, e)[i] = s[i]
<1>1. /\ Append(s, e) \in Seq(AnyNode) /\ Len(s) \in Nat /\ DOMAIN Append(s, e) = 1..Len(s) + 1
      /\ DOMAIN s = 1..Len(s) /\ Len(Append(s, e)) = Len(s) + 1
      /\ \A i \in 1..Len(s) : Append(s, e)[i] = s[i]
      /\ Append(s, e)[Len(s) + 1] = e
  OBVIOUS
<1> DEFINE t == Append(s, e)
<1> HIDE DEF t
<1>2. ASSUME NEW i \in DOMAIN t PROVE (i \in DOMAIN s /\ t[i] = s[i]) \/ (i = Len(s) + 1 /\ t[i] = e)
  <2>1. i \in 1..Len(s) + 1
    BY <1>1 DEF t
  <2>2. i \in 1..Len(s) \/ i = Len(s) + 1
    BY <1>1, <2>1
  <2> QED
    BY <1>1, <2>2 DEF t
<1>3. \A i \in DOMAIN s : i \in DOMAIN t /\ t[i] = s[i]
  BY <1>1 DEF t
<1>4. Len(s) + 1 \in DOMAIN t /\ t[Len(s) + 1] = e /\ Len(s) + 1 \notin DOMAIN s
  BY <1>1 DEF t
<1>5. ToSet(t) = ToSet(s) \cup {e}
  BY <1>2, <1>3, <1>4 DEF ToSet
<1>6. ASSUME Distinct(s), \A x \in ToSet(s) : x.id # e.id PROVE Distinct(t)
  <2>1. \A i \in DOMAIN s : s[i].id # e.id
    BY <1>6 DEF ToSet
  <2>2. ASSUME NEW i \in DOMAIN t, NEW j \in DOMAIN t, t[i].id = t[j].id PROVE i = j
    BY <1>2, <1>6, <2>1, <2>2 DEF Distinct
  <2> QED
    BY <2>2 DEF Distinct
<1> QED
  BY <1>1, <1>3, <1>5, <1>6 DEF t

(* Bound() keeps the nodes that are not null.                              *)
LEMMA BoundFacts ==
  ASSUME NEW s \in Seq(AnyNode), Distinct(s)
  PROVE  /\ Bound(s) \in Seq(AnyNode) /\ ToSet(Bound(s)) = ToSet(s) \cap BoundNodes
         /\ Distinct(Bound(s)) /\ Len(Bound(s)) <= Len(s)
<1> DEFINE L == Len(s)
<1>0. L \in Nat /\ DOMAIN s = 1..L /\ \A n \in 1..L : s[n] \in AnyNode
  OBVIOUS
<1>1. PICK f : Binds(f, L, s) /\ Bound(s) = f[L]
  BY <1>0, BoundIs
<1> HIDE DEF L
<1> DEFINE Good(n) == /\ f[n] \in Seq(AnyNode) /\ ToSet(f[n]) = {s[i] : i \in 1..n} \cap BoundNodes
                      /\ Distinct(f[n]) /\ Len(f[n]) <= n
           T == {n \in Nat : n <= L => Good(n)}
<1>2. 0 \in T
  <2>1. f[0] = <<>> /\ <<>> \in Seq(AnyNode) /\ ToSet(<<>>) = {} /\ Distinct(<<>>) /\ 1..0 = {} /\ Len(<<>>) = 0
    BY <1>1 DEF Binds, ToSet, Distinct
  <2>2. {s[i] : i \in 1..0} = {}
    BY <2>1
  <2>3. Good(0)
    BY <2>1, <2>2
  <2> QED
    BY <2>3
<1>3. ASSUME NEW m \in Nat, m \in T PROVE m + 1 \in T
  <2>1. SUFFICES ASSUME m + 1 <= L PROVE Good(m + 1)
    OBVIOUS
  <2>2. Good(m)
    BY <1>0, <1>3, <2>1
  <2>3. m + 1 \in 1..L /\ (m + 1) - 1 = m
    BY <1>0, <2>1
  <2>4. f[m + 1] = IF s[m + 1].d # Unbound THEN Append(f[m], s[m + 1]) ELSE f[m]
    BY <1>1, <2>3 DEF Binds, BoundOne
  <2>5. {s[i] : i \in 1..m + 1} = {s[i] : i \in 1..m} \cup {s[m + 1]}
    <3>1. \A i \in 1..m + 1 : i \in 1..m \/ i = m + 1
      OBVIOUS
    <3>2. \A i \in 1..m : i \in 1..m + 1
      OBVIOUS
    <3>3. m + 1 \in 1..m + 1
      OBVIOUS
    <3> QED
      BY <3>1, <3>2, <3>3
  <2>6. s[m + 1] \in AnyNode
    BY <1>0, <2>3
  <2> DEFINE x == s[m + 1]
  <2> HIDE DEF x
  <2>7. CASE x.d # Unbound
    <3>1. f[m + 1] = Append(f[m], x) /\ x \in BoundNodes
      BY <2>4, <2>6, <2>7 DEF x, BoundNodes
    <3>2. \A y \in ToSet(f[m]) : y.id # x.id
      <4>1. \A i \in 1..m : s[i].id # s[m + 1].id
        <5>1. \A i \in 1..m : i \in DOMAIN s /\ m + 1 \in DOMAIN s /\ i # m + 1
          BY <1>0, <2>1, <2>3
        <5> QED
          BY <5>1 DEF Distinct
      <4> QED
        BY <2>2, <4>1 DEF x
    <3>3. /\ f[m + 1] \in Seq(AnyNode) /\ ToSet(f[m + 1]) = ToSet(f[m]) \cup {x}
          /\ Distinct(f[m + 1]) /\ Len(f[m + 1]) = Len(f[m]) + 1 /\ Len(f[m]) \in Nat
      BY <2>2, <2>6, <3>1, <3>2, AppendNode DEF x
    <3>4. ToSet(f[m + 1]) = {s[i] : i \in 1..m + 1} \cap BoundNodes
      BY <2>2, <2>5, <3>1, <3>3 DEF x
    <3>5. Len(f[m + 1]) <= m + 1
      BY <2>2, <3>3
    <3> QED
      BY <3>3, <3>4, <3>5
  <2>8. CASE x.d = Unbound
    <3>1. f[m + 1] = f[m] /\ x \notin BoundNodes
      BY <2>4, <2>8 DEF x, BoundNodes
    <3>2. ToSet(f[m + 1]) = {s[i] : i \in 1..m + 1} \cap BoundNodes
      BY <2>2, <2>5, <3>1 DEF x
    <3>3. Len(f[m]) \in Nat
      BY <2>2
    <3>4. Len(f[m + 1]) <= m + 1
      BY <2>2, <3>1, <3>3
    <3> QED
      BY <2>2, <3>1, <3>2, <3>4
  <2> QED
    BY <2>7, <2>8
<1>4. L \in T
  <2> HIDE DEF T
  <2> QED
    BY <1>0, <1>2, <1>3, InductionBySet
<1>5. Good(L)
  BY <1>0, <1>4
<1>6. {s[i] : i \in 1..L} = ToSet(s)
  BY <1>0 DEF ToSet
<1> QED
  BY <1>0, <1>1, <1>5, <1>6

(* Where a node is in a list, and which are not null.                      *)
IdsOf(s) == {e.id : e \in ToSet(s)}
PlaceIn(s, x) == CHOOSE i \in DOMAIN s : s[i].id = x
AfterIn(s, x) ==
    LET next == {i \in DOMAIN s : i > 1 /\ s[i - 1].id = x}
    IN  IF next = {} THEN 0 ELSE s[CHOOSE i \in next : TRUE].id
NodeBound(s, x) == \E i \in DOMAIN s : s[i].id = x /\ s[i].d # Unbound

LEMMA ListOperators ==
  ASSUME NEW l, NEW x
  PROVE  /\ Ids(l) = IdsOf(list[l]) /\ Place(l, x) = PlaceIn(list[l], x) /\ After(l, x) = AfterIn(list[l], x)
         /\ At(l, x) = IF x \in IdsOf(list[l]) THEN list[l][PlaceIn(list[l], x)].d ELSE Unbound
  BY DEF Ids, Place, After, At, IdsOf, PlaceIn, AfterIn

LEMMA PlaceIs ==
  ASSUME NEW s \in Seq(AnyNode), Distinct(s), NEW x \in IdsOf(s)
  PROVE  /\ PlaceIn(s, x) \in DOMAIN s /\ s[PlaceIn(s, x)].id = x
         /\ \A i \in DOMAIN s : s[i].id = x => i = PlaceIn(s, x)
<1>1. \E i \in DOMAIN s : s[i].id = x
  BY DEF IdsOf, ToSet
<1>2. PlaceIn(s, x) \in DOMAIN s /\ s[PlaceIn(s, x)].id = x
  BY <1>1 DEF PlaceIn
<1> QED
  BY <1>2 DEF Distinct

LEMMA IdsAre ==
  ASSUME NEW s \in Seq(AnyNode), NEW i \in DOMAIN s
  PROVE  s[i].id \in IdsOf(s) /\ s[i].id \in 1..MaxNodes /\ s[i].d \in AnyDelegate /\ s[i] \in AnyNode
<1>1. s[i] \in AnyNode /\ s[i] \in ToSet(s)
  BY DEF ToSet
<1> QED
  BY <1>1 DEF IdsOf, AnyNode

(* The node behind x: none, or the one at the next place.                  *)
LEMMA AfterIs ==
  ASSUME NEW s \in Seq(AnyNode), Distinct(s), NEW x \in IdsOf(s)
  PROVE  /\ AfterIn(s, x) \in 0..MaxNodes
         /\ AfterIn(s, x) = 0 => PlaceIn(s, x) = Len(s)
         /\ AfterIn(s, x) # 0 => AfterIn(s, x) \in IdsOf(s) /\ PlaceIn(s, AfterIn(s, x)) = PlaceIn(s, x) + 1
<1>1. PICK p : p = PlaceIn(s, x)
  OBVIOUS
<1>2. p \in DOMAIN s /\ s[p].id = x /\ \A i \in DOMAIN s : s[i].id = x => i = p
  BY <1>1, PlaceIs
<1>3. DOMAIN s = 1..Len(s) /\ Len(s) \in Nat
  OBVIOUS
<1> DEFINE next == {i \in DOMAIN s : i > 1 /\ s[i - 1].id = x}
<1>4. \A i \in next : i = p + 1 /\ i \in DOMAIN s
  <2> SUFFICES ASSUME NEW i \in next PROVE i = p + 1 /\ i \in DOMAIN s
    OBVIOUS
  <2>1. i \in DOMAIN s /\ i > 1 /\ s[i - 1].id = x
    OBVIOUS
  <2>2. i - 1 \in DOMAIN s /\ i \in Nat
    BY <1>3, <2>1
  <2>3. i - 1 = p
    BY <1>2, <2>1, <2>2
  <2> QED
    BY <2>1, <2>2, <2>3
<1>5. p < Len(s) => p + 1 \in next
  <2> SUFFICES ASSUME p < Len(s) PROVE p + 1 \in next
    OBVIOUS
  <2>1. p + 1 \in DOMAIN s /\ p + 1 > 1 /\ (p + 1) - 1 = p
    BY <1>2, <1>3
  <2> QED
    BY <1>2, <2>1
<1>6. AfterIn(s, x) = IF next = {} THEN 0 ELSE s[CHOOSE i \in next : TRUE].id
  BY DEF AfterIn
<1> HIDE DEF next
<1>7. CASE next = {}
  <2>1. AfterIn(s, x) = 0
    BY <1>6, <1>7
  <2>2. p = Len(s)
    BY <1>2, <1>3, <1>5, <1>7
  <2>3. MaxNodes \in Nat
    BY DelegatesConstants
  <2> QED
    BY <1>1, <2>1, <2>2, <2>3
<1>8. CASE next # {}
  <2>1. (CHOOSE i \in next : TRUE) \in next
    BY <1>8
  <2>2. AfterIn(s, x) = s[p + 1].id /\ p + 1 \in DOMAIN s
    BY <1>4, <1>6, <1>8, <2>1
  <2>3. AfterIn(s, x) \in IdsOf(s) /\ AfterIn(s, x) \in 1..MaxNodes
    BY <2>2, IdsAre
  <2>4. p + 1 = PlaceIn(s, AfterIn(s, x))
    BY <2>2, <2>3, PlaceIs
  <2>5. MaxNodes \in Nat
    BY DelegatesConstants
  <2> QED
    BY <1>1, <2>3, <2>4, <2>5
<1> QED
  BY <1>7, <1>8

-----------------------------------------------------------------------------
(* Frames of the stack.                                                    *)

Phases == {"next", "enter", "run", "wait", "late"}
AnyFrame ==
    [slot : Slots \cup {Nil}, list : Lists \cup {Nil}, node : 0..MaxNodes, phase : Phases, d : AnyDelegate,
     pin : Objs \cup {Nil}, n : Nat, got : Nat \cup {Nil}, called : Seq(1..MaxNodes)]

FrameShape(fr) ==
    /\ fr.list = Nil => fr.slot \in Slots /\ fr.phase # "next"
    /\ fr.phase = "next" <=> fr.d = Unbound
    /\ fr.phase \notin {"wait", "late"} => fr.n = 0 /\ fr.got = Nil
    /\ fr.phase = "run" /\ fr.d.own = "weak" => fr.pin = fr.d.obj

(* A broadcast: it has called the nodes before the one it is at, those     *)
(* that were null excepted, in their order.                                *)
CalledSoFar(fr, s) ==
    /\ fr.node # 0 => fr.node \in IdsOf(s)
    /\ fr.phase # "next" => fr.node # 0 /\ fr.node \in ToSet(fr.called)
    /\ ToSet(fr.called) \subseteq IdsOf(s)
    /\ \A i, j \in DOMAIN fr.called : i < j => PlaceIn(s, fr.called[i]) < PlaceIn(s, fr.called[j])
    /\ fr.node # 0 =>
         \A x \in ToSet(fr.called) : (x = fr.node /\ fr.phase # "next") \/ PlaceIn(s, x) < PlaceIn(s, fr.node)
    /\ \A i \in DOMAIN s :
         s[i].d # Unbound /\ (fr.node # 0 => i < PlaceIn(s, fr.node)) => s[i].id \in ToSet(fr.called)

(* A list whose nodes stay where they are: new ones come behind them.      *)
Grows(s, t) ==
    /\ Len(s) <= Len(t)
    /\ \A i \in DOMAIN s : t[i].id = s[i].id /\ (t[i].d # Unbound => s[i].d # Unbound)

LEMMA GrowsKeepsPlaces ==
  ASSUME NEW s \in Seq(AnyNode), NEW t \in Seq(AnyNode), Distinct(s), Distinct(t), Grows(s, t), NEW x \in IdsOf(s)
  PROVE  x \in IdsOf(t) /\ PlaceIn(t, x) = PlaceIn(s, x) /\ PlaceIn(s, x) \in DOMAIN s
<1>1. PlaceIn(s, x) \in DOMAIN s /\ s[PlaceIn(s, x)].id = x
  BY PlaceIs
<1>2. PlaceIn(s, x) \in DOMAIN t
  BY <1>1 DEF Grows
<1>3. t[PlaceIn(s, x)].id = x
  BY <1>1 DEF Grows
<1>4. x \in IdsOf(t)
  BY <1>2, <1>3, IdsAre
<1> QED
  BY <1>1, <1>2, <1>3, <1>4, PlaceIs

LEMMA GrowsKeepsCalls ==
  ASSUME NEW s \in Seq(AnyNode), NEW t \in Seq(AnyNode), Distinct(s), Distinct(t), Grows(s, t),
         NEW fr \in AnyFrame, CalledSoFar(fr, s), fr.node # 0 \/ Len(t) = Len(s)
  PROVE  CalledSoFar(fr, t)
<1>1. \A x \in IdsOf(s) : x \in IdsOf(t) /\ PlaceIn(t, x) = PlaceIn(s, x) /\ PlaceIn(s, x) \in DOMAIN s
  BY GrowsKeepsPlaces
<1>2. /\ fr.node # 0 => fr.node \in IdsOf(s)
      /\ fr.phase # "next" => fr.node # 0 /\ fr.node \in ToSet(fr.called)
      /\ ToSet(fr.called) \subseteq IdsOf(s)
      /\ \A i \in DOMAIN fr.called : fr.called[i] \in ToSet(fr.called)
  BY DEF CalledSoFar, ToSet
<1>3. \A i, j \in DOMAIN fr.called : i < j => PlaceIn(t, fr.called[i]) < PlaceIn(t, fr.called[j])
  <2> SUFFICES ASSUME NEW i \in DOMAIN fr.called, NEW j \in DOMAIN fr.called, i < j
               PROVE  PlaceIn(t, fr.called[i]) < PlaceIn(t, fr.called[j])
    OBVIOUS
  <2>1. PlaceIn(s, fr.called[i]) < PlaceIn(s, fr.called[j])
    BY DEF CalledSoFar
  <2>2. PlaceIn(t, fr.called[i]) = PlaceIn(s, fr.called[i]) /\ PlaceIn(t, fr.called[j]) = PlaceIn(s, fr.called[j])
    BY <1>1, <1>2
  <2> QED
    BY <2>1, <2>2
<1>4. ASSUME fr.node # 0, NEW x \in ToSet(fr.called)
      PROVE  (x = fr.node /\ fr.phase # "next") \/ PlaceIn(t, x) < PlaceIn(t, fr.node)
  <2>1. (x = fr.node /\ fr.phase # "next") \/ PlaceIn(s, x) < PlaceIn(s, fr.node)
    BY <1>4 DEF CalledSoFar
  <2>2. PlaceIn(t, x) = PlaceIn(s, x) /\ PlaceIn(t, fr.node) = PlaceIn(s, fr.node)
    BY <1>1, <1>2, <1>4
  <2> QED
    BY <2>1, <2>2
<1>5. ASSUME NEW i \in DOMAIN t, t[i].d # Unbound, fr.node # 0 => i < PlaceIn(t, fr.node)
      PROVE  t[i].id \in ToSet(fr.called)
  <2>1. i \in DOMAIN s
    <3>1. DOMAIN s = 1..Len(s) /\ DOMAIN t = 1..Len(t) /\ Len(s) \in Nat /\ Len(t) \in Nat
      OBVIOUS
    <3>2. CASE Len(t) = Len(s)
      BY <3>1, <3>2
    <3>3. CASE fr.node # 0
      <4>1. i < PlaceIn(s, fr.node) /\ PlaceIn(s, fr.node) \in DOMAIN s
        BY <1>1, <1>2, <1>5, <3>3
      <4>2. PICK q, n, m : q = PlaceIn(s, fr.node) /\ n = Len(s) /\ m = Len(t)
        OBVIOUS
      <4>3. n \in Nat /\ m \in Nat /\ i \in 1..m
        BY <3>1, <4>2
      <4>4. q \in 1..n /\ i < q
        BY <3>1, <4>1, <4>2
      <4>5. i \in 1..n
        BY <4>3, <4>4
      <4> QED
        BY <3>1, <4>2, <4>5
    <3> QED
      BY <3>2, <3>3
  <2>2. s[i].d # Unbound /\ s[i].id = t[i].id
    BY <1>5, <2>1 DEF Grows
  <2>3. fr.node # 0 => i < PlaceIn(s, fr.node)
    BY <1>1, <1>2, <1>5
  <2> QED
    BY <2>1, <2>2, <2>3 DEF CalledSoFar
<1> QED
  BY <1>1, <1>2, <1>3, <1>4, <1>5 DEF CalledSoFar

(* The iterator goes on from a node that has been called or is null.       *)
LEMMA GoesOn ==
  ASSUME NEW s \in Seq(AnyNode), Distinct(s), NEW fr \in AnyFrame, CalledSoFar(fr, s), fr.node # 0,
         fr.phase # "next" \/ ~NodeBound(s, fr.node),
         NEW g \in AnyFrame, g.phase = "next", g.node = AfterIn(s, fr.node), g.called = fr.called
  PROVE  CalledSoFar(g, s)
<1>1. PICK p : p = PlaceIn(s, fr.node)
  OBVIOUS
<1>2. /\ fr.node \in IdsOf(s) /\ p \in DOMAIN s /\ s[p].id = fr.node
      /\ \A i \in DOMAIN s : s[i].id = fr.node => i = p
  BY <1>1, PlaceIs DEF CalledSoFar
<1>3. DOMAIN s = 1..Len(s) /\ Len(s) \in Nat
  OBVIOUS
<1>4. /\ g.node = 0 => p = Len(s)
      /\ g.node # 0 => g.node \in IdsOf(s) /\ PlaceIn(s, g.node) = p + 1
  BY <1>1, <1>2, AfterIs
<1>5. \A x \in ToSet(fr.called) : x \in IdsOf(s) /\ PlaceIn(s, x) \in DOMAIN s /\ (x = fr.node \/ PlaceIn(s, x) < p)
  BY <1>1, PlaceIs DEF CalledSoFar
<1>6. ASSUME g.node # 0, NEW x \in ToSet(g.called) PROVE PlaceIn(s, x) < PlaceIn(s, g.node)
  <2>1. x = fr.node \/ PlaceIn(s, x) < p
    BY <1>5
  <2>2. PlaceIn(s, x) \in DOMAIN s
    BY <1>5
  <2>3. PlaceIn(s, x) <= p
    BY <1>1, <1>2, <1>3, <2>1, <2>2
  <2> QED
    BY <1>2, <1>3, <1>4, <1>6, <2>2, <2>3
<1>7. ASSUME NEW i \in DOMAIN s, s[i].d # Unbound, g.node # 0 => i < PlaceIn(s, g.node)
      PROVE  s[i].id \in ToSet(g.called)
  <2>1. i <= p
    BY <1>2, <1>3, <1>4, <1>7
  <2>2. CASE i < p
    BY <1>1, <1>7, <2>2 DEF CalledSoFar
  <2>3. CASE i = p
    <3>1. NodeBound(s, fr.node)
      BY <1>2, <1>7, <2>3 DEF NodeBound
    <3> QED
      BY <1>2, <2>3, <3>1 DEF CalledSoFar
  <2> QED
    BY <1>2, <1>3, <2>1, <2>2, <2>3
<1> QED
  BY <1>4, <1>5, <1>6, <1>7 DEF CalledSoFar

(* It calls the node it stands on.                                         *)
LEMMA CallsNode ==
  ASSUME NEW s \in Seq(AnyNode), Distinct(s), NEW fr \in AnyFrame, CalledSoFar(fr, s), fr.node # 0, fr.phase = "next",
         NEW g \in AnyFrame, g.phase # "next", g.node = fr.node, g.called = Append(fr.called, fr.node)
  PROVE  CalledSoFar(g, s)
<1>1. PICK c : c = fr.called
  OBVIOUS
<1>2. /\ c \in Seq(1..MaxNodes) /\ fr.node \in 1..MaxNodes /\ Len(c) \in Nat /\ DOMAIN c = 1..Len(c)
      /\ DOMAIN Append(c, fr.node) = 1..Len(c) + 1
      /\ \A i \in DOMAIN c : Append(c, fr.node)[i] = c[i] /\ c[i] \in ToSet(c)
      /\ Append(c, fr.node)[Len(c) + 1] = fr.node
  BY <1>1 DEF AnyFrame, ToSet
<1>3. PICK a : a = Append(c, fr.node)
  OBVIOUS
<1>4. /\ DOMAIN a = 1..Len(c) + 1 /\ a[Len(c) + 1] = fr.node
      /\ \A i \in 1..Len(c) : a[i] = c[i] /\ c[i] \in ToSet(c)
  BY <1>2, <1>3
<1>5. ToSet(a) = ToSet(c) \cup {fr.node}
  <2>1. \A i \in DOMAIN a : i \in 1..Len(c) \/ i = Len(c) + 1
    BY <1>2, <1>4
  <2>2. \A i \in 1..Len(c) : i \in DOMAIN a
    BY <1>2, <1>4
  <2>3. Len(c) + 1 \in DOMAIN a
    BY <1>2, <1>4
  <2>4. ASSUME NEW i \in DOMAIN a PROVE a[i] \in ToSet(c) \cup {fr.node}
    BY <1>4, <2>1
  <2>5. ASSUME NEW i \in DOMAIN c PROVE \E j \in DOMAIN a : a[j] = c[i]
    BY <1>2, <1>4, <2>2
  <2>6. \E j \in DOMAIN a : a[j] = fr.node
    BY <1>4, <2>3
  <2> QED
    BY <2>4, <2>5, <2>6 DEF ToSet
<1>6. fr.node \in IdsOf(s) /\ \A x \in ToSet(c) : x \in IdsOf(s) /\ PlaceIn(s, x) < PlaceIn(s, fr.node)
  BY <1>1 DEF CalledSoFar
<1>7. ASSUME NEW i \in DOMAIN a, NEW j \in DOMAIN a, i < j PROVE PlaceIn(s, a[i]) < PlaceIn(s, a[j])
  <2>1. i \in 1..Len(c) /\ (j \in 1..Len(c) \/ j = Len(c) + 1)
    BY <1>2, <1>4, <1>7
  <2>2. CASE j \in 1..Len(c)
    BY <1>1, <1>2, <1>4, <1>7, <2>1, <2>2 DEF CalledSoFar
  <2>3. CASE j = Len(c) + 1
    BY <1>4, <1>6, <2>1, <2>3
  <2> QED
    BY <2>1, <2>2, <2>3
<1>8. g.called = a
  BY <1>1, <1>3
<1>9. ASSUME NEW i \in DOMAIN s, s[i].d # Unbound, i < PlaceIn(s, fr.node) PROVE s[i].id \in ToSet(a)
  BY <1>1, <1>5, <1>9 DEF CalledSoFar
<1> QED
  BY <1>5, <1>6, <1>7, <1>8, <1>9 DEF CalledSoFar

(* It begins.                                                              *)
LEMMA BeginsCalls ==
  ASSUME NEW s \in Seq(AnyNode), Distinct(s), s # <<>>, NEW g \in AnyFrame, g.phase = "next", g.node = s[1].id, g.called = <<>>
  PROVE  CalledSoFar(g, s)
<1>1. DOMAIN s = 1..Len(s) /\ Len(s) \in Nat /\ 1 \in DOMAIN s
  OBVIOUS
<1>2. g.node \in IdsOf(s) /\ PlaceIn(s, g.node) = 1
  BY <1>1, IdsAre, PlaceIs
<1>3. ToSet(<<>>) = {} /\ DOMAIN <<>> = {}
  BY DEF ToSet
<1>4. \A i \in DOMAIN s : ~(i < PlaceIn(s, g.node))
  BY <1>1, <1>2
<1>5. g.node # 0
  BY <1>1, IdsAre
<1> QED
  BY <1>2, <1>3, <1>4, <1>5 DEF CalledSoFar

(* How many frames are broadcasts of a list.                               *)
CastsOf(st, x) == {i \in DOMAIN st : st[i].list = x}

LEMMA CastsFinite ==
  ASSUME NEW s \in Seq(AnyFrame), NEW x
  PROVE  IsFiniteSet(CastsOf(s, x)) /\ Cardinality(CastsOf(s, x)) \in Nat /\ Cardinality(CastsOf(s, x)) <= Len(s)
<1>1. DOMAIN s = 1..Len(s) /\ Len(s) \in Nat
  OBVIOUS
<1>2. IsFiniteSet(1..Len(s)) /\ Cardinality(1..Len(s)) = Len(s)
  BY <1>1, FS_Interval
<1>3. CastsOf(s, x) \in SUBSET (1..Len(s))
  BY <1>1 DEF CastsOf
<1>4. IsFiniteSet(CastsOf(s, x)) /\ Cardinality(CastsOf(s, x)) <= Len(s)
  BY <1>2, <1>3, FS_Subset
<1> QED
  BY <1>4, FS_CardinalityType

LEMMA ShiftCardinality ==
  ASSUME NEW S \in SUBSET Nat, IsFiniteSet(S)
  PROVE  IsFiniteSet({i + 1 : i \in S}) /\ Cardinality({i + 1 : i \in S}) = Cardinality(S)
<1> DEFINE T == {i + 1 : i \in S}
           f == [i \in S |-> i + 1]
<1>1. f \in [S -> T] /\ \A i \in S : f[i] = i + 1
  OBVIOUS
<1>2. \A t \in T : \E i \in S : t = i + 1
  OBVIOUS
<1> HIDE DEF f, T
<1>3. \A i, j \in S : f[i] = f[j] => i = j
  BY <1>1
<1>4. \A t \in T : \E i \in S : f[i] = t
  BY <1>1, <1>2
<1>5. f \in Bijection(S, T)
  BY <1>1, <1>3, <1>4 DEF Bijection, Injection, Surjection, IsInjective
<1>6. ExistsBijection(S, T)
  BY <1>5 DEF ExistsBijection
<1>7. IsFiniteSet(T) /\ Cardinality(T) = Cardinality(S)
  BY <1>6, FS_Bijection
<1> QED
  BY <1>7 DEF T

(* t is s with one more frame on top.                                      *)
OnTop(t, fr, s) ==
    /\ Len(t) = Len(s) + 1 /\ t[1] = fr
    /\ \A i \in DOMAIN s : i + 1 \in DOMAIN t /\ t[i + 1] = s[i]
    /\ \A i \in DOMAIN t : i # 1 => i - 1 \in DOMAIN s /\ t[i] = s[i - 1]

LEMMA PushIsOnTop ==
  ASSUME NEW s \in Seq(AnyFrame), NEW fr \in AnyFrame
  PROVE  <<fr>> \o s \in Seq(AnyFrame) /\ OnTop(<<fr>> \o s, fr, s)
<1>1. PICK t : t = <<fr>> \o s
  OBVIOUS
<1>2. /\ t \in Seq(AnyFrame) /\ Len(t) = Len(s) + 1 /\ Len(s) \in Nat /\ DOMAIN s = 1..Len(s)
      /\ DOMAIN t = 1..Len(t)
  BY <1>1
<1>3. t[1] = fr /\ \A i \in 1..Len(s) : t[i + 1] = s[i]
  BY <1>1, <1>2
<1>4. ASSUME NEW i \in DOMAIN t, i # 1 PROVE i - 1 \in DOMAIN s /\ t[i] = s[i - 1]
  <2>1. i \in Nat /\ i - 1 \in 1..Len(s) /\ (i - 1) + 1 = i
    BY <1>2, <1>4
  <2>2. t[(i - 1) + 1] = s[i - 1]
    BY <1>3, <2>1
  <2> QED
    BY <1>2, <2>1, <2>2
<1>5. \A i \in DOMAIN s : i + 1 \in DOMAIN t /\ t[i + 1] = s[i]
  BY <1>2, <1>3
<1>6. OnTop(t, fr, s)
  BY <1>2, <1>3, <1>4, <1>5 DEF OnTop
<1> QED
  BY <1>1, <1>2, <1>6

LEMMA PopIsOnTop ==
  ASSUME NEW s \in Seq(AnyFrame), s # <<>>
  PROVE  Tail(s) \in Seq(AnyFrame) /\ OnTop(s, s[1], Tail(s)) /\ s[1] \in AnyFrame
<1>1. PICK t : t = Tail(s)
  OBVIOUS
<1>2. /\ t \in Seq(AnyFrame) /\ Len(s) = Len(t) + 1 /\ Len(t) \in Nat /\ DOMAIN s = 1..Len(s)
      /\ DOMAIN t = 1..Len(t) /\ s[1] \in AnyFrame
  BY <1>1
<1>3. \A i \in 1..Len(t) : t[i] = s[i + 1]
  BY <1>1, <1>2
<1>4. ASSUME NEW i \in DOMAIN s, i # 1 PROVE i - 1 \in DOMAIN t /\ s[i] = t[i - 1]
  <2>1. i \in Nat /\ i - 1 \in 1..Len(t) /\ (i - 1) + 1 = i
    BY <1>2, <1>4
  <2>2. s[(i - 1) + 1] = t[i - 1]
    BY <1>3, <2>1
  <2> QED
    BY <1>2, <2>1, <2>2
<1>5. \A i \in DOMAIN t : i + 1 \in DOMAIN s /\ s[i + 1] = t[i]
  BY <1>2, <1>3
<1>6. OnTop(s, s[1], t)
  BY <1>2, <1>4, <1>5 DEF OnTop
<1> QED
  BY <1>1, <1>2, <1>6

LEMMA CastsOnTop ==
  ASSUME NEW s \in Seq(AnyFrame), NEW t \in Seq(AnyFrame), NEW fr, OnTop(t, fr, s), NEW x
  PROVE  Cardinality(CastsOf(t, x)) = IF fr.list = x THEN Cardinality(CastsOf(s, x)) + 1 ELSE Cardinality(CastsOf(s, x))
<1> DEFINE S == CastsOf(s, x)
           T == {i + 1 : i \in S}
<1>1. S \in SUBSET Nat /\ IsFiniteSet(S) /\ 0 \notin S
  <2>1. PICK n : n = Len(s)
    OBVIOUS
  <2>2. DOMAIN s = 1..n /\ n \in Nat
    BY <2>1
  <2>3. \A i \in CastsOf(s, x) : i \in 1..n
    BY <2>2 DEF CastsOf
  <2>4. \A i \in 1..n : i \in Nat /\ i # 0
    BY <2>2
  <2>5. S \in SUBSET Nat /\ 0 \notin S
    BY <2>3, <2>4
  <2>6. IsFiniteSet(S)
    BY CastsFinite
  <2> QED
    BY <2>5, <2>6
<1>2. IsFiniteSet(T) /\ Cardinality(T) = Cardinality(S) /\ 1 \notin T
  <2>1. 1 \notin T
    <3> HIDE DEF S
    <3> QED
      BY <1>1
  <2> HIDE DEF S
  <2> QED
    BY <1>1, <2>1, ShiftCardinality
<1>3. 1 \in DOMAIN t /\ \A i \in DOMAIN t : i \in Nat
  <2>1. DOMAIN t = 1..Len(t) /\ Len(t) = Len(s) + 1 /\ Len(s) \in Nat
    BY DEF OnTop
  <2>2. PICK n : n = Len(t)
    OBVIOUS
  <2>3. n \in Nat /\ 1 <= n /\ DOMAIN t = 1..n
    BY <2>1, <2>2
  <2>4. 1 \in 1..n /\ \A i \in 1..n : i \in Nat
    BY <2>3
  <2> QED
    BY <2>3, <2>4
<1>4. \A i \in CastsOf(t, x) : i # 1 => i \in T
  <2> SUFFICES ASSUME NEW i \in CastsOf(t, x), i # 1 PROVE i \in T
    OBVIOUS
  <2>1. i \in DOMAIN t /\ t[i].list = x
    BY DEF CastsOf
  <2>2. i - 1 \in S /\ i \in Nat
    BY <1>3, <2>1 DEF OnTop, CastsOf
  <2>3. (i - 1) + 1 = i
    BY <2>2
  <2> HIDE DEF S
  <2> QED
    BY <2>2, <2>3
<1>5. \A i \in T : i \in CastsOf(t, x)
  BY DEF OnTop, CastsOf
<1>6. CASE fr.list = x
  <2>1. 1 \in CastsOf(t, x)
    BY <1>3, <1>6 DEF OnTop, CastsOf
  <2>2. CastsOf(t, x) = T \cup {1}
    <3> HIDE DEF T
    <3> QED
      BY <1>4, <1>5, <2>1
  <2> HIDE DEF T
  <2>3. Cardinality(T \cup {1}) = Cardinality(T) + 1
    BY <1>2, FS_AddElement
  <2> QED
    BY <1>2, <1>6, <2>2, <2>3
<1>7. CASE fr.list # x
  <2>1. 1 \notin CastsOf(t, x)
    BY <1>7 DEF OnTop, CastsOf
  <2>2. CastsOf(t, x) = T
    <3> HIDE DEF T
    <3> QED
      BY <1>4, <1>5, <2>1
  <2> QED
    BY <1>2, <1>7, <2>2
<1> QED
  BY <1>6, <1>7

-----------------------------------------------------------------------------
(* The invariant.                                                          *)

AnyMessage == [d : AnyDelegate \ {Unbound}, n : Nat]
AnyWork == [d : AnyDelegate, n : Nat, pin : Objs \cup {Nil}]
Busy == {"enter", "wait", "late"}

ContainersTyped ==
    /\ slot \in [Slots -> AnyDelegate] /\ list \in [Lists -> Seq(AnyNode)]
    /\ casting \in [Lists -> Nat] /\ cleanup \in [Lists -> BOOLEAN]
    /\ stack \in Seq(AnyFrame) /\ Len(stack) <= MaxDepth
    /\ inbox \in Seq(AnyMessage) /\ Len(inbox) <= Cap /\ worker \in AnyWork
    /\ owned \subseteq Objs /\ ops \in Nat /\ calls \in Nat

(* Each node is in its list once; the broadcasts of a list are counted,    *)
(* and there is a null node only while there are some.                     *)
NodesKept ==
    \A x \in Lists :
      /\ Distinct(list[x]) /\ casting[x] = Cardinality(CastsOf(stack, x))
      /\ casting[x] = 0 => ~cleanup[x]
      /\ ~cleanup[x] => \A e \in ToSet(list[x]) : e.d # Unbound

FrameIs(fr, L) == FrameShape(fr) /\ (fr.list # Nil => CalledSoFar(fr, L[fr.list]))

(* Targets run in all frames but the innermost, and what the innermost has *)
(* called is not null before its target runs.                              *)
FramesKept ==
    /\ \A i \in DOMAIN stack : (i # 1 => stack[i].phase = "run") /\ FrameIs(stack[i], list)
    /\ stack # <<>> /\ stack[1].phase \in Busy /\ stack[1].list # Nil => NodeBound(list[stack[1].list], stack[1].node)

(* A blocking call has a number of its own, and messages with this number  *)
(* are of its own delegate.                                                *)
ResultsOwn ==
    /\ \A m \in ToSet(inbox) : m.n <= calls
    /\ worker.n <= calls
    /\ stack # <<>> /\ stack[1].phase \in {"wait", "late"} =>
         /\ stack[1].n \in 1..calls /\ stack[1].d.n = stack[1].n
         /\ stack[1].got \in {Nil, stack[1].n} \/ (stack[1].got = 0 /\ stack[1].d.own = "weak")
         /\ \A m \in ToSet(inbox) : m.n = stack[1].n => m.d.own = stack[1].d.own

Pinned == worker.d.own = "weak" => worker.pin = worker.d.obj

DelegatesInv == ContainersTyped /\ NodesKept /\ FramesKept /\ ResultsOwn /\ Pinned

-----------------------------------------------------------------------------
(* What keeps the frames.                                                  *)

LEMMA FrameIsKept ==
  ASSUME NEW L \in [Lists -> Seq(AnyNode)], NEW M \in [Lists -> Seq(AnyNode)], NEW fr \in AnyFrame, FrameIs(fr, L),
         fr.list # Nil => /\ Distinct(L[fr.list]) /\ Distinct(M[fr.list]) /\ Grows(L[fr.list], M[fr.list])
                          /\ fr.node # 0 \/ Len(M[fr.list]) = Len(L[fr.list])
  PROVE  FrameIs(fr, M)
<1>1. CASE fr.list = Nil
  BY <1>1 DEF FrameIs
<1>2. CASE fr.list # Nil
  <2>1. fr.list \in Lists
    BY <1>2 DEF AnyFrame
  <2>2. L[fr.list] \in Seq(AnyNode) /\ M[fr.list] \in Seq(AnyNode) /\ CalledSoFar(fr, L[fr.list])
    BY <1>2, <2>1 DEF FrameIs
  <2>3. CalledSoFar(fr, M[fr.list])
    BY <1>2, <2>2, GrowsKeepsCalls
  <2> QED
    BY <1>2, <2>3 DEF FrameIs
<1> QED
  BY <1>1, <1>2

LEMMA GrowsItself ==
  ASSUME NEW s \in Seq(AnyNode)
  PROVE  Grows(s, s)
<1>1. Len(s) \in Nat
  OBVIOUS
<1> QED
  BY <1>1 DEF Grows

(* A frame of a list is one of its broadcasts.                             *)
LEMMA CastsCounted ==
  ASSUME ContainersTyped, NodesKept, NEW i \in DOMAIN stack, stack[i].list # Nil
  PROVE  stack[i].list \in Lists /\ casting[stack[i].list] > 0 /\ stack[i] \in AnyFrame
<1>0. stack[i] \in AnyFrame
  BY DEF ContainersTyped
<1>1. stack[i].list \in Lists
  BY <1>0 DEF AnyFrame
<1>2. i \in CastsOf(stack, stack[i].list)
  BY DEF CastsOf
<1>3. PICK S : S = CastsOf(stack, stack[i].list)
  OBVIOUS
<1>4. IsFiniteSet(S) /\ Cardinality(S) \in Nat
  BY <1>3, CastsFinite DEF ContainersTyped
<1>5. Cardinality(S) # 0
  BY <1>2, <1>3, <1>4, FS_EmptySet
<1>6. casting[stack[i].list] = Cardinality(S)
  BY <1>1, <1>3 DEF NodesKept
<1> QED
  BY <1>0, <1>1, <1>4, <1>5, <1>6

(* Application code in control: a target runs in every frame.              *)
LEMMA AllRun ==
  ASSUME ContainersTyped, FramesKept, InControl
  PROVE  \A i \in DOMAIN stack : stack[i].phase = "run" /\ (stack[i].list # Nil => stack[i].node # 0)
<1> SUFFICES ASSUME NEW i \in DOMAIN stack
             PROVE  stack[i].phase = "run" /\ (stack[i].list # Nil => stack[i].node # 0)
  OBVIOUS
<1>1. stack # <<>>
  BY DEF ContainersTyped
<1>2. stack[1].phase = "run"
  BY <1>1 DEF InControl, Top, ContainersTyped
<1>3. stack[i].phase = "run"
  BY <1>2 DEF FramesKept
<1>4. stack[i].list # Nil => CalledSoFar(stack[i], list[stack[i].list])
  BY DEF FramesKept, FrameIs
<1>5. stack[i].list # Nil => stack[i].node # 0
  BY <1>3, <1>4 DEF CalledSoFar
<1> QED
  BY <1>3, <1>5

(* A list changes under application code.                                  *)
LEMMA OpKeepsFrames ==
  ASSUME ContainersTyped, NodesKept, FramesKept, InControl, UNCHANGED stack,
         NEW l \in Lists, NEW t \in Seq(AnyNode), list' = [list EXCEPT ![l] = t], Distinct(t),
         casting[l] > 0 => Grows(list[l], t)
  PROVE  FramesKept' /\ list' \in [Lists -> Seq(AnyNode)]
<1>1. list \in [Lists -> Seq(AnyNode)] /\ list' \in [Lists -> Seq(AnyNode)]
  BY DEF ContainersTyped
<1>2. list'[l] = t /\ \A x \in Lists : x # l => list'[x] = list[x]
  BY <1>1
<1>3. ASSUME NEW i \in DOMAIN stack PROVE stack[i].phase = "run" /\ FrameIs(stack[i], list')
  <2>1. stack[i].phase = "run" /\ (stack[i].list # Nil => stack[i].node # 0)
    BY AllRun
  <2>2. stack[i] \in AnyFrame /\ FrameIs(stack[i], list)
    BY DEF ContainersTyped, FramesKept
  <2>3. ASSUME stack[i].list # Nil
        PROVE  LET x == stack[i].list IN Distinct(list[x]) /\ Distinct(list'[x]) /\ Grows(list[x], list'[x])
    <3>1. stack[i].list \in Lists /\ casting[stack[i].list] > 0
      BY <2>3, CastsCounted
    <3>2. Distinct(list[stack[i].list]) /\ list[stack[i].list] \in Seq(AnyNode)
      BY <1>1, <3>1 DEF NodesKept
    <3>3. CASE stack[i].list = l
      BY <1>2, <3>1, <3>2, <3>3
    <3>4. CASE stack[i].list # l
      BY <1>2, <3>1, <3>2, <3>4, GrowsItself
    <3> QED
      BY <3>3, <3>4
  <2>4. FrameIs(stack[i], list')
    BY <1>1, <2>1, <2>2, <2>3, FrameIsKept
  <2> QED
    BY <2>1, <2>4
<1>4. stack # <<>> => stack[1].phase = "run"
  <2>1. stack # <<>> => 1 \in DOMAIN stack
    BY DEF ContainersTyped
  <2> QED
    BY <1>3, <2>1
<1>5. "run" \notin Busy
  BY DEF Busy
<1>6. FramesKept'
  BY <1>3, <1>4, <1>5 DEF FramesKept
<1> QED
  BY <1>1, <1>6

LEMMA OpKept ==
  ASSUME DelegatesInv, InControl, UNCHANGED <<stack, casting, inbox, worker, calls>>,
         NEW l \in Lists, NEW t \in Seq(AnyNode), list' = [list EXCEPT ![l] = t], Distinct(t),
         casting[l] > 0 => Grows(list[l], t),
         NEW c \in BOOLEAN, cleanup' = [cleanup EXCEPT ![l] = c],
         casting[l] = 0 => ~c, ~c => \A e \in ToSet(t) : e.d # Unbound
  PROVE  /\ NodesKept' /\ FramesKept' /\ ResultsOwn' /\ Pinned'
         /\ list' \in [Lists -> Seq(AnyNode)] /\ cleanup' \in [Lists -> BOOLEAN]
<1>1. ContainersTyped /\ NodesKept /\ FramesKept
  BY DEF DelegatesInv
<1>2. FramesKept' /\ list' \in [Lists -> Seq(AnyNode)]
  BY <1>1, OpKeepsFrames
<1>3. cleanup' \in [Lists -> BOOLEAN] /\ cleanup'[l] = c /\ \A x \in Lists : x # l => cleanup'[x] = cleanup[x]
  BY <1>1 DEF ContainersTyped
<1>4. list'[l] = t /\ \A x \in Lists : x # l => list'[x] = list[x]
  BY <1>1 DEF ContainersTyped
<1>5. NodesKept'
  <2> SUFFICES ASSUME NEW x \in Lists
               PROVE  /\ Distinct(list'[x]) /\ casting'[x] = Cardinality(CastsOf(stack', x))
                      /\ casting'[x] = 0 => ~cleanup'[x]
                      /\ ~cleanup'[x] => \A e \in ToSet(list'[x]) : e.d # Unbound
    BY DEF NodesKept
  <2>1. casting'[x] = Cardinality(CastsOf(stack', x))
    BY <1>1 DEF NodesKept
  <2>2. CASE x = l
    BY <1>3, <1>4, <2>1, <2>2
  <2>3. CASE x # l
    BY <1>1, <1>3, <1>4, <2>1, <2>3 DEF NodesKept
  <2> QED
    BY <2>2, <2>3
<1>6. stack # <<>> => stack[1].phase = "run"
  <2>1. stack # <<>> => 1 \in DOMAIN stack
    BY <1>1 DEF ContainersTyped
  <2> QED
    BY <1>1, <2>1, AllRun
<1>7. ResultsOwn' /\ Pinned'
  <2>1. Pinned'
    BY DEF DelegatesInv, Pinned
  <2>2. ResultsOwn'
    BY <1>6 DEF DelegatesInv, ResultsOwn
  <2> QED
    BY <2>1, <2>2
<1> QED
  BY <1>2, <1>3, <1>5, <1>7

-----------------------------------------------------------------------------
(* The innermost frame changes, comes and goes.                            *)

(* The nodes of a list stay what they are, null or not.                    *)
SameNodes(s, t) ==
    /\ Len(t) = Len(s)
    /\ \A i \in DOMAIN s : t[i].id = s[i].id /\ (t[i].d # Unbound <=> s[i].d # Unbound)

LEMMA SameNodesAre ==
  ASSUME NEW s \in Seq(AnyNode), NEW t \in Seq(AnyNode), SameNodes(s, t)
  PROVE  /\ Grows(s, t) /\ DOMAIN t = DOMAIN s /\ (Distinct(s) => Distinct(t))
         /\ (\A x : NodeBound(s, x) => NodeBound(t, x))
         /\ ((\A e \in ToSet(s) : e.d # Unbound) => \A e \in ToSet(t) : e.d # Unbound)
<1>1. PICK n : n = Len(s)
  OBVIOUS
<1>2. n \in Nat /\ Len(t) = n /\ DOMAIN s = 1..n /\ DOMAIN t = 1..n
  BY <1>1 DEF SameNodes
<1>3. \A i \in 1..n : t[i].id = s[i].id /\ (t[i].d # Unbound <=> s[i].d # Unbound)
  BY <1>2 DEF SameNodes
<1>4. Len(s) <= Len(t)
  BY <1>1, <1>2
<1>5. Grows(s, t)
  BY <1>2, <1>3, <1>4 DEF Grows
<1>6. Distinct(s) => Distinct(t)
  BY <1>2, <1>3 DEF Distinct
<1>7. \A x : NodeBound(s, x) => NodeBound(t, x)
  BY <1>2, <1>3 DEF NodeBound
<1>8. (\A e \in ToSet(s) : e.d # Unbound) => \A e \in ToSet(t) : e.d # Unbound
  BY <1>2, <1>3 DEF ToSet
<1> QED
  BY <1>2, <1>5, <1>6, <1>7, <1>8

LEMMA SameNodesItself ==
  ASSUME NEW s \in Seq(AnyNode)
  PROVE  SameNodes(s, s)
  BY DEF SameNodes

(* What an action does to the delegates of the nodes, if anything.         *)
NodesStay ==
    /\ list' \in [Lists -> Seq(AnyNode)] /\ \A x \in Lists : SameNodes(list[x], list'[x])
    /\ UNCHANGED <<casting, cleanup>>

LEMMA UnchangedNodesStay ==
  ASSUME ContainersTyped, UNCHANGED <<list, casting, cleanup>>
  PROVE  NodesStay
<1>1. list' = list /\ list \in [Lists -> Seq(AnyNode)]
  BY DEF ContainersTyped
<1> QED
  BY <1>1, SameNodesItself DEF NodesStay

(* A frame that stands on a node, and the list with it.                    *)
LEMMA FrameStays ==
  ASSUME ContainersTyped, NodesKept, NodesStay, NEW fr \in AnyFrame, FrameIs(fr, list)
  PROVE  FrameIs(fr, list')
<1>1. list \in [Lists -> Seq(AnyNode)] /\ list' \in [Lists -> Seq(AnyNode)]
  BY DEF ContainersTyped, NodesStay
<1>2. ASSUME fr.list # Nil
      PROVE  /\ Distinct(list[fr.list]) /\ Distinct(list'[fr.list]) /\ Grows(list[fr.list], list'[fr.list])
             /\ fr.node # 0 \/ Len(list'[fr.list]) = Len(list[fr.list])
  <2>1. fr.list \in Lists
    BY <1>2 DEF AnyFrame
  <2>2. PICK s, t : s = list[fr.list] /\ t = list'[fr.list]
    OBVIOUS
  <2>3. s \in Seq(AnyNode) /\ t \in Seq(AnyNode) /\ SameNodes(s, t) /\ Distinct(s)
    BY <1>1, <2>1, <2>2 DEF NodesStay, NodesKept
  <2>4. Grows(s, t) /\ Distinct(t) /\ Len(s) = Len(t)
    BY <2>3, SameNodesAre DEF SameNodes
  <2> QED
    BY <2>2, <2>3, <2>4
<1> QED
  BY <1>1, <1>2, FrameIsKept

(* The lists and their counts after a step that keeps the broadcasts.      *)
LEMMA NodesStayKept ==
  ASSUME ContainersTyped, NodesKept, NodesStay,
         \A x \in Lists : Cardinality(CastsOf(stack', x)) = Cardinality(CastsOf(stack, x))
  PROVE  NodesKept'
<1>1. list \in [Lists -> Seq(AnyNode)] /\ list' \in [Lists -> Seq(AnyNode)]
  BY DEF ContainersTyped, NodesStay
<1> SUFFICES ASSUME NEW x \in Lists
             PROVE  /\ Distinct(list'[x]) /\ casting'[x] = Cardinality(CastsOf(stack', x))
                    /\ casting'[x] = 0 => ~cleanup'[x]
                    /\ ~cleanup'[x] => \A e \in ToSet(list'[x]) : e.d # Unbound
  BY DEF NodesKept
<1>2. SameNodes(list[x], list'[x]) /\ casting'[x] = casting[x] /\ cleanup'[x] = cleanup[x]
  BY DEF NodesStay
<1>3. /\ Distinct(list[x]) /\ casting[x] = Cardinality(CastsOf(stack, x))
      /\ casting[x] = 0 => ~cleanup[x]
      /\ ~cleanup[x] => \A e \in ToSet(list[x]) : e.d # Unbound
  BY DEF NodesKept
<1>4. PICK s, t : s = list[x] /\ t = list'[x]
  OBVIOUS
<1>5. s \in Seq(AnyNode) /\ t \in Seq(AnyNode) /\ SameNodes(s, t)
  BY <1>1, <1>2, <1>4
<1>6. (Distinct(s) => Distinct(t)) /\ ((\A e \in ToSet(s) : e.d # Unbound) => \A e \in ToSet(t) : e.d # Unbound)
  BY <1>5, SameNodesAre
<1> QED
  BY <1>2, <1>3, <1>4, <1>6

(* The innermost frame becomes g.                                          *)
LEMMA TopStays ==
  ASSUME ContainersTyped, NodesKept, FramesKept, NodesStay, stack # <<>>,
         NEW g \in AnyFrame, stack' = [stack EXCEPT ![1] = g], g.list = stack[1].list, FrameIs(g, list'),
         g.phase \in Busy /\ g.list # Nil => NodeBound(list'[g.list], g.node)
  PROVE  NodesKept' /\ FramesKept' /\ stack' \in Seq(AnyFrame) /\ Len(stack') <= MaxDepth /\ stack' # <<>> /\ stack'[1] = g
<1>1. stack \in Seq(AnyFrame) /\ Len(stack) <= MaxDepth
  BY DEF ContainersTyped
<1>2. /\ stack' \in Seq(AnyFrame) /\ Len(stack') = Len(stack) /\ DOMAIN stack' = DOMAIN stack /\ stack' # <<>>
      /\ 1 \in DOMAIN stack /\ stack'[1] = g /\ \A i \in DOMAIN stack : i # 1 => stack'[i] = stack[i]
  BY <1>1
<1>3. \A x \in Lists : CastsOf(stack', x) = CastsOf(stack, x)
  BY <1>2 DEF CastsOf
<1>4. NodesKept'
  BY <1>3, NodesStayKept
<1>5. ASSUME NEW i \in DOMAIN stack' PROVE (i # 1 => stack'[i].phase = "run") /\ FrameIs(stack'[i], list')
  <2>1. CASE i = 1
    BY <1>2, <2>1
  <2>2. CASE i # 1
    <3>1. stack[i] \in AnyFrame /\ FrameIs(stack[i], list) /\ stack[i].phase = "run" /\ stack'[i] = stack[i]
      BY <1>1, <1>2, <1>5, <2>2 DEF FramesKept
    <3> QED
      BY <3>1, FrameStays
  <2> QED
    BY <2>1, <2>2
<1>6. FramesKept'
  BY <1>2, <1>5 DEF FramesKept
<1> QED
  BY <1>1, <1>2, <1>4, <1>6

(* The frame of a call of a unicast container goes.                        *)
LEMMA UnicastLeaves ==
  ASSUME ContainersTyped, NodesKept, FramesKept, NodesStay, stack # <<>>, stack[1].list = Nil, stack' = Tail(stack)
  PROVE  /\ NodesKept' /\ FramesKept' /\ stack' \in Seq(AnyFrame) /\ Len(stack') <= MaxDepth
         /\ stack' # <<>> => stack'[1].phase = "run"
<1>1. stack \in Seq(AnyFrame) /\ Len(stack) <= MaxDepth /\ Len(stack) \in Nat /\ MaxDepth \in Nat
  BY DelegatesConstants DEF ContainersTyped
<1>2. stack' \in Seq(AnyFrame) /\ OnTop(stack, stack[1], stack')
  BY <1>1, PopIsOnTop
<1>3. Len(stack') <= MaxDepth
  <2>1. Len(stack) = Len(stack') + 1 /\ Len(stack') \in Nat
    BY <1>2 DEF OnTop
  <2> QED
    BY <1>1, <2>1
<1>4. \A x \in Lists : Cardinality(CastsOf(stack', x)) = Cardinality(CastsOf(stack, x))
  <2> SUFFICES ASSUME NEW x \in Lists
               PROVE  Cardinality(CastsOf(stack', x)) = Cardinality(CastsOf(stack, x))
    OBVIOUS
  <2>1. stack[1].list # x
    BY NilIsSpecial
  <2>2. PICK s, t, fr : s = stack' /\ t = stack /\ fr = stack[1]
    OBVIOUS
  <2>3. s \in Seq(AnyFrame) /\ t \in Seq(AnyFrame) /\ OnTop(t, fr, s)
    BY <1>1, <1>2, <2>2
  <2>4. Cardinality(CastsOf(t, x)) = IF fr.list = x THEN Cardinality(CastsOf(s, x)) + 1 ELSE Cardinality(CastsOf(s, x))
    BY <2>3, CastsOnTop
  <2> QED
    BY <2>1, <2>2, <2>4
<1>5. NodesKept'
  BY <1>4, NodesStayKept
<1>6. ASSUME NEW i \in DOMAIN stack' PROVE stack'[i].phase = "run" /\ FrameIs(stack'[i], list')
  <2>1. i + 1 \in DOMAIN stack /\ stack[i + 1] = stack'[i] /\ i + 1 # 1
    BY <1>2 DEF OnTop
  <2>2. stack[i + 1] \in AnyFrame /\ FrameIs(stack[i + 1], list) /\ stack[i + 1].phase = "run"
    BY <1>1, <2>1 DEF FramesKept
  <2> QED
    BY <2>1, <2>2, FrameStays
<1>7. stack' # <<>> => 1 \in DOMAIN stack'
  BY <1>2
<1>8. "run" \notin Busy
  BY DEF Busy
<1>9. FramesKept'
  BY <1>6, <1>7, <1>8 DEF FramesKept
<1> QED
  BY <1>2, <1>3, <1>5, <1>6, <1>7, <1>9
(* The frame of a broadcast goes: the last one sweeps the null nodes, and  *)
(* no other frame stands on them.                                          *)
LEMMA BroadcastLeaves ==
  ASSUME ContainersTyped, NodesKept, FramesKept, stack # <<>>, stack[1].list # Nil,
         LeaveGuard(stack[1].list), stack' = Tail(stack)
  PROVE  /\ NodesKept' /\ FramesKept' /\ stack' \in Seq(AnyFrame) /\ Len(stack') <= MaxDepth
         /\ stack' # <<>> => stack'[1].phase = "run"
         /\ list' \in [Lists -> Seq(AnyNode)] /\ casting' \in [Lists -> Nat] /\ cleanup' \in [Lists -> BOOLEAN]
<1>1. stack \in Seq(AnyFrame) /\ Len(stack) <= MaxDepth /\ Len(stack) \in Nat /\ MaxDepth \in Nat /\ 1 \in DOMAIN stack
  BY DelegatesConstants DEF ContainersTyped
<1>2. PICK l, s : l = stack[1].list /\ s = stack'
  OBVIOUS
<1>3. s \in Seq(AnyFrame) /\ OnTop(stack, stack[1], s)
  BY <1>1, <1>2, PopIsOnTop
<1>4. Len(s) <= MaxDepth
  <2>1. Len(stack) = Len(s) + 1 /\ Len(s) \in Nat
    BY <1>3 DEF OnTop
  <2> QED
    BY <1>1, <2>1
<1>5. l \in Lists /\ casting[l] > 0
  BY <1>1, <1>2, CastsCounted
<1>6. ASSUME NEW x \in Lists
      PROVE  Cardinality(CastsOf(stack, x)) = IF l = x THEN Cardinality(CastsOf(s, x)) + 1 ELSE Cardinality(CastsOf(s, x))
  <2>1. PICK t, fr : t = stack /\ fr = stack[1]
    OBVIOUS
  <2>2. t \in Seq(AnyFrame) /\ OnTop(t, fr, s)
    BY <1>1, <1>3, <2>1
  <2>3. Cardinality(CastsOf(t, x)) = IF fr.list = x THEN Cardinality(CastsOf(s, x)) + 1 ELSE Cardinality(CastsOf(s, x))
    BY <1>3, <2>2, CastsOnTop
  <2> QED
    BY <1>2, <2>1, <2>3
<1>7. casting' = [casting EXCEPT ![l] = @ - 1] /\ casting \in [Lists -> Nat]
  BY <1>2 DEF LeaveGuard, ContainersTyped
<1>8. casting' \in [Lists -> Nat] /\ casting'[l] = casting[l] - 1 /\ \A x \in Lists : x # l => casting'[x] = casting[x]
  BY <1>5, <1>7
<1>9. ASSUME NEW x \in Lists PROVE casting'[x] = Cardinality(CastsOf(s, x)) /\ casting[x] \in Nat
  <2>1. casting[x] = Cardinality(CastsOf(stack, x)) /\ casting[x] \in Nat
    BY <1>7 DEF NodesKept
  <2>2. Cardinality(CastsOf(s, x)) \in Nat
    BY <1>3, CastsFinite
  <2> QED
    BY <1>6, <1>8, <2>1, <2>2
<1>10. list \in [Lists -> Seq(AnyNode)] /\ cleanup \in [Lists -> BOOLEAN]
  BY DEF ContainersTyped
<1>11. ASSUME NEW i \in DOMAIN s
       PROVE  /\ s[i].phase = "run" /\ s[i] \in AnyFrame /\ FrameIs(s[i], list)
  <2>1. i + 1 \in DOMAIN stack /\ stack[i + 1] = s[i] /\ i + 1 # 1
    BY <1>3 DEF OnTop
  <2> QED
    BY <1>1, <2>1 DEF FramesKept
<1>12. s # <<>> => 1 \in DOMAIN s
  BY <1>3
<1>13. "run" \notin Busy
  BY DEF Busy
<1>14. CASE casting[l] = 1 /\ cleanup[l]
  <2>1. list' = [list EXCEPT ![l] = Bound(list[l])] /\ cleanup' = [cleanup EXCEPT ![l] = FALSE]
    BY <1>2, <1>14 DEF LeaveGuard
  <2>2. list[l] \in Seq(AnyNode) /\ Distinct(list[l])
    BY <1>5, <1>10 DEF NodesKept
  <2>3. /\ Bound(list[l]) \in Seq(AnyNode) /\ Distinct(Bound(list[l]))
        /\ \A e \in ToSet(Bound(list[l])) : e.d # Unbound
    BY <2>2, BoundFacts DEF BoundNodes
  <2>4. /\ list' \in [Lists -> Seq(AnyNode)] /\ list'[l] = Bound(list[l]) /\ \A x \in Lists : x # l => list'[x] = list[x]
        /\ cleanup' \in [Lists -> BOOLEAN] /\ ~cleanup'[l] /\ \A x \in Lists : x # l => cleanup'[x] = cleanup[x]
    BY <1>5, <1>10, <2>1, <2>3
  <2>5. CastsOf(s, l) = {}
    <3>1. Cardinality(CastsOf(s, l)) = 0 /\ IsFiniteSet(CastsOf(s, l))
      BY <1>3, <1>5, <1>8, <1>9, <1>14, CastsFinite
    <3> QED
      BY <3>1, FS_EmptySet
  <2>6. ASSUME NEW i \in DOMAIN s PROVE FrameIs(s[i], list')
    <3>1. s[i].list # l /\ s[i].list \in Lists \cup {Nil}
      BY <1>11, <2>5 DEF CastsOf, AnyFrame
    <3>2. s[i].list # Nil => list'[s[i].list] = list[s[i].list]
      BY <2>4, <3>1
    <3> QED
      BY <1>11, <3>2 DEF FrameIs
  <2>7. FramesKept'
    BY <1>2, <1>11, <1>12, <1>13, <2>6 DEF FramesKept
  <2>8. NodesKept'
    <3> SUFFICES ASSUME NEW x \in Lists
                 PROVE  /\ Distinct(list'[x]) /\ casting'[x] = Cardinality(CastsOf(stack', x))
                        /\ casting'[x] = 0 => ~cleanup'[x]
                        /\ ~cleanup'[x] => \A e \in ToSet(list'[x]) : e.d # Unbound
      BY DEF NodesKept
    <3>1. casting'[x] = Cardinality(CastsOf(stack', x))
      BY <1>2, <1>9
    <3>2. CASE x = l
      BY <2>3, <2>4, <3>1, <3>2
    <3>3. CASE x # l
      BY <1>8, <2>4, <3>1, <3>3 DEF NodesKept
    <3> QED
      BY <3>2, <3>3
  <2> QED
    BY <1>2, <1>3, <1>4, <1>8, <1>11, <1>12, <2>4, <2>7, <2>8
<1>15. CASE ~(casting[l] = 1 /\ cleanup[l])
  <2>1. list' = list /\ cleanup' = cleanup
    BY <1>2, <1>15 DEF LeaveGuard
  <2>2. FramesKept'
    BY <1>2, <1>11, <1>12, <1>13, <2>1 DEF FramesKept
  <2>3. NodesKept'
    <3> SUFFICES ASSUME NEW x \in Lists
                 PROVE  /\ Distinct(list'[x]) /\ casting'[x] = Cardinality(CastsOf(stack', x))
                        /\ casting'[x] = 0 => ~cleanup'[x]
                        /\ ~cleanup'[x] => \A e \in ToSet(list'[x]) : e.d # Unbound
      BY DEF NodesKept
    <3>1. casting'[x] = Cardinality(CastsOf(stack', x))
      BY <1>2, <1>9
    <3>2. casting'[x] = 0 => ~cleanup'[x]
      <4>1. CASE x = l
        BY <1>5, <1>8, <1>9, <1>15, <2>1, <4>1
      <4>2. CASE x # l
        BY <1>8, <2>1, <4>2 DEF NodesKept
      <4> QED
        BY <4>1, <4>2
    <3> QED
      BY <2>1, <3>1, <3>2 DEF NodesKept
  <2> QED
    BY <1>2, <1>3, <1>4, <1>8, <1>10, <1>11, <1>12, <2>1, <2>2, <2>3
<1> QED
  BY <1>14, <1>15

(* A frame is new.                                                         *)
LEMMA TopComes ==
  ASSUME ContainersTyped, NodesKept, FramesKept, InControl, Len(stack) < MaxDepth, UNCHANGED <<list, cleanup>>,
         NEW g \in AnyFrame, stack' = <<g>> \o stack, FrameIs(g, list), g.list # Nil => g.phase \notin Busy,
         casting' = IF g.list = Nil THEN casting ELSE [casting EXCEPT ![g.list] = @ + 1]
  PROVE  /\ NodesKept' /\ FramesKept' /\ stack' \in Seq(AnyFrame) /\ Len(stack') <= MaxDepth
         /\ stack' # <<>> /\ stack'[1] = g /\ casting' \in [Lists -> Nat]
<1>1. stack \in Seq(AnyFrame) /\ Len(stack) \in Nat /\ MaxDepth \in Nat
  BY DelegatesConstants DEF ContainersTyped
<1>2. PICK t : t = stack'
  OBVIOUS
<1>3. t \in Seq(AnyFrame) /\ OnTop(t, g, stack)
  BY <1>1, <1>2, PushIsOnTop
<1>4. Len(t) = Len(stack) + 1 /\ Len(t) <= MaxDepth /\ t # <<>> /\ t[1] = g
  <2>1. Len(t) = Len(stack) + 1 /\ t[1] = g
    BY <1>3 DEF OnTop
  <2>2. Len(t) <= MaxDepth /\ Len(t) # 0
    BY <1>1, <2>1
  <2> QED
    BY <2>1, <2>2
<1>5. casting \in [Lists -> Nat] /\ g.list \in Lists \cup {Nil}
  BY DEF ContainersTyped, AnyFrame
<1>6. /\ casting' \in [Lists -> Nat]
      /\ \A x \in Lists : casting'[x] = IF g.list = x THEN casting[x] + 1 ELSE casting[x]
  BY <1>5, NilIsSpecial
<1>7. ASSUME NEW x \in Lists
      PROVE  Cardinality(CastsOf(t, x)) = IF g.list = x THEN Cardinality(CastsOf(stack, x)) + 1 ELSE Cardinality(CastsOf(stack, x))
  <2>1. PICK s : s = stack
    OBVIOUS
  <2>2. s \in Seq(AnyFrame) /\ OnTop(t, g, s)
    BY <1>1, <1>3, <2>1
  <2>3. Cardinality(CastsOf(t, x)) = IF g.list = x THEN Cardinality(CastsOf(s, x)) + 1 ELSE Cardinality(CastsOf(s, x))
    BY <1>3, <2>2, CastsOnTop
  <2> QED
    BY <2>1, <2>3
<1>8. NodesKept'
  <2> SUFFICES ASSUME NEW x \in Lists
               PROVE  /\ Distinct(list'[x]) /\ casting'[x] = Cardinality(CastsOf(stack', x))
                      /\ casting'[x] = 0 => ~cleanup'[x]
                      /\ ~cleanup'[x] => \A e \in ToSet(list'[x]) : e.d # Unbound
    BY DEF NodesKept
  <2>1. casting[x] \in Nat /\ casting[x] = Cardinality(CastsOf(stack, x))
    BY <1>5 DEF NodesKept
  <2>2. casting'[x] = Cardinality(CastsOf(stack', x))
    BY <1>2, <1>6, <1>7, <2>1
  <2>3. casting'[x] = 0 => casting[x] = 0
    BY <1>6, <2>1
  <2> QED
    BY <2>2, <2>3 DEF NodesKept
<1>9. ASSUME NEW i \in DOMAIN t PROVE (i # 1 => t[i].phase = "run") /\ FrameIs(t[i], list)
  <2>1. CASE i = 1
    BY <1>4, <2>1
  <2>2. CASE i # 1
    <3>1. i - 1 \in DOMAIN stack /\ t[i] = stack[i - 1]
      BY <1>3, <1>9, <2>2 DEF OnTop
    <3>2. stack[i - 1].phase = "run" /\ FrameIs(stack[i - 1], list)
      BY <3>1, AllRun DEF FramesKept
    <3> QED
      BY <3>1, <3>2
  <2> QED
    BY <2>1, <2>2
<1>10. FramesKept'
  BY <1>2, <1>4, <1>9 DEF FramesKept
<1> QED
  BY <1>2, <1>3, <1>4, <1>6, <1>8, <1>10

(* operator() of a delegate returns.                                       *)
LEMMA ReturnedKept ==
  ASSUME ContainersTyped, NodesKept, FramesKept, NodesStay, stack # <<>>, stack[1].phase # "next", stack' = Returned(stack)
  PROVE  /\ NodesKept' /\ FramesKept' /\ stack' \in Seq(AnyFrame) /\ Len(stack') <= MaxDepth
         /\ stack' # <<>> => stack'[1].phase \notin {"wait", "late"}
<1>1. stack \in Seq(AnyFrame) /\ 1 \in DOMAIN stack /\ stack[1] \in AnyFrame /\ FrameIs(stack[1], list)
  BY DEF ContainersTyped, FramesKept
<1>2. CASE stack[1].list = Nil
  <2>1. stack' = Tail(stack)
    BY <1>2 DEF Returned
  <2> QED
    BY <1>2, <2>1, UnicastLeaves
<1>3. CASE stack[1].list # Nil
  <2>1. PICK fr : fr = stack[1]
    OBVIOUS
  <2>2. PICK g : g = [fr EXCEPT !.phase = "next", !.d = Unbound, !.pin = Nil, !.n = 0, !.got = Nil,
                                !.node = After(fr.list, fr.node)]
    OBVIOUS
  <2>3. stack' = [stack EXCEPT ![1] = g]
    BY <1>1, <1>3, <2>1, <2>2 DEF Returned
  <2>4. fr \in AnyFrame /\ FrameIs(fr, list) /\ fr.list \in Lists /\ fr.phase # "next"
    BY <1>1, <1>3, <2>1 DEF AnyFrame
  <2>5. PICK s : s = list[fr.list]
    OBVIOUS
  <2>6. s \in Seq(AnyNode) /\ Distinct(s) /\ CalledSoFar(fr, s)
    BY <1>3, <2>1, <2>4, <2>5 DEF ContainersTyped, NodesKept, FrameIs
  <2>7. fr.node # 0 /\ fr.node \in IdsOf(s)
    BY <2>4, <2>6 DEF CalledSoFar
  <2>8. AfterIn(s, fr.node) = After(fr.list, fr.node) /\ AfterIn(s, fr.node) \in 0..MaxNodes
    BY <2>5, <2>6, <2>7, AfterIs, ListOperators
  <2>9. /\ g \in AnyFrame /\ g.list = fr.list /\ g.phase = "next" /\ g.d = Unbound /\ g.n = 0 /\ g.got = Nil
        /\ g.node = AfterIn(s, fr.node) /\ g.called = fr.called
    BY <2>2, <2>4, <2>8, UnboundIsNone DEF AnyFrame, Phases
  <2>10. CalledSoFar(g, s)
    BY <2>4, <2>6, <2>7, <2>9, GoesOn
  <2>11. FrameIs(g, list)
    BY <2>4, <2>5, <2>9, <2>10, NilIsSpecial DEF FrameIs, FrameShape
  <2>12. ContainersTyped
    OBVIOUS
  <2>13. FrameIs(g, list')
    <3>1. g.list # Nil => /\ Distinct(list[g.list]) /\ Distinct(list'[g.list]) /\ Grows(list[g.list], list'[g.list])
                         /\ Len(list'[g.list]) = Len(list[g.list])
      <4>1. PICK t : t = list'[fr.list]
        OBVIOUS
      <4>2. t \in Seq(AnyNode) /\ SameNodes(s, t)
        BY <2>4, <2>5, <4>1 DEF NodesStay
      <4>3. Grows(s, t) /\ Distinct(t) /\ Len(t) = Len(s)
        BY <2>6, <4>2, SameNodesAre DEF SameNodes
      <4> QED
        BY <2>5, <2>6, <2>9, <4>1, <4>3
    <3>2. list \in [Lists -> Seq(AnyNode)] /\ list' \in [Lists -> Seq(AnyNode)]
      BY DEF ContainersTyped, NodesStay
    <3> QED
      BY <2>9, <2>11, <3>1, <3>2, FrameIsKept
  <2>14. g.phase \notin Busy
    BY <2>9 DEF Busy
  <2>15. NodesKept' /\ FramesKept' /\ stack' \in Seq(AnyFrame) /\ Len(stack') <= MaxDepth /\ stack'[1] = g
    BY <2>1, <2>3, <2>9, <2>13, <2>14, TopStays
  <2> QED
    BY <2>9, <2>15
<1> QED
  BY <1>2, <1>3
-----------------------------------------------------------------------------
(* What the operations of a container do to a list.                        *)

LEMMA RemoveAtIs ==
  ASSUME NEW s \in Seq(AnyNode), NEW k \in DOMAIN s, Distinct(s)
  PROVE  /\ RemoveAt(s, k) \in Seq(AnyNode) /\ Distinct(RemoveAt(s, k))
         /\ ToSet(RemoveAt(s, k)) \subseteq ToSet(s)
         /\ \A j \in DOMAIN s : j # k => s[j] \in ToSet(RemoveAt(s, k))
<1>1. PICK a, b, t : a = SubSeq(s, 1, k - 1) /\ b = SubSeq(s, k + 1, Len(s)) /\ t = a \o b
  OBVIOUS
<1>2. PICK n : n = Len(s)
  OBVIOUS
<1>3. n \in Nat /\ k \in 1..n /\ DOMAIN s = 1..n /\ \A i \in 1..n : s[i] \in AnyNode
  BY <1>2
<1>4. a \in Seq(AnyNode) /\ Len(a) = k - 1 /\ \A i \in 1..k - 1 : a[i] = s[i]
  <2>1. PICK p : p = k - 1
    OBVIOUS
  <2>2. p \in Int /\ 1 \in Int /\ \A i \in 1..p : s[i] \in AnyNode
    BY <1>3, <2>1
  <2>3. a = SubSeq(s, 1, p)
    BY <1>1, <2>1
  <2>4. /\ SubSeq(s, 1, p) \in Seq(AnyNode)
        /\ Len(SubSeq(s, 1, p)) = IF 1 <= p THEN p - 1 + 1 ELSE 0
        /\ \A i \in 1..p - 1 + 1 : SubSeq(s, 1, p)[i] = s[1 + i - 1]
    BY <2>2, SubSeqProperties
  <2>5. /\ a \in Seq(AnyNode) /\ Len(a) = IF 1 <= p THEN p - 1 + 1 ELSE 0
        /\ \A i \in 1..p - 1 + 1 : a[i] = s[1 + i - 1]
    BY <2>3, <2>4
  <2>6. ASSUME NEW i \in 1..k - 1 PROVE i \in 1..p - 1 + 1 /\ 1 + i - 1 = i
    BY <1>3, <2>1
  <2>7. ASSUME NEW i \in 1..k - 1 PROVE a[i] = s[i]
    BY <2>5, <2>6
  <2>8. Len(a) = k - 1
    BY <1>3, <2>1, <2>5
  <2> QED
    BY <2>5, <2>7, <2>8
<1>5. b \in Seq(AnyNode) /\ Len(b) = n - k /\ \A i \in 1..n - k : b[i] = s[k + i]
  <2>1. PICK p : p = k + 1
    OBVIOUS
  <2>2. p \in Int /\ n \in Int /\ \A i \in p..n : s[i] \in AnyNode
    BY <1>3, <2>1
  <2>3. b = SubSeq(s, p, n)
    BY <1>1, <1>2, <2>1
  <2>4. /\ SubSeq(s, p, n) \in Seq(AnyNode)
        /\ Len(SubSeq(s, p, n)) = IF p <= n THEN n - p + 1 ELSE 0
        /\ \A i \in 1..n - p + 1 : SubSeq(s, p, n)[i] = s[p + i - 1]
    BY <2>2, SubSeqProperties
  <2>5. /\ b \in Seq(AnyNode) /\ Len(b) = IF p <= n THEN n - p + 1 ELSE 0
        /\ \A i \in 1..n - p + 1 : b[i] = s[p + i - 1]
    BY <2>3, <2>4
  <2>6. ASSUME NEW i \in 1..n - k PROVE i \in 1..n - p + 1 /\ p + i - 1 = k + i
    BY <1>3, <2>1
  <2>7. ASSUME NEW i \in 1..n - k PROVE b[i] = s[k + i]
    BY <2>6, <2>5
  <2>8. Len(b) = n - k
    BY <1>3, <2>1, <2>5
  <2> QED
    BY <2>7, <2>8, <2>5
<1>6. /\ t \in Seq(AnyNode) /\ Len(t) = n - 1 /\ DOMAIN t = 1..n - 1
      /\ \A i \in 1..n - 1 : t[i] = IF i <= k - 1 THEN a[i] ELSE b[i - (k - 1)]
  <2>1. /\ t \in Seq(AnyNode) /\ Len(t) = Len(a) + Len(b)
        /\ \A i \in 1..Len(a) + Len(b) : t[i] = IF i <= Len(a) THEN a[i] ELSE b[i - Len(a)]
    BY <1>1, <1>4, <1>5, ConcatProperties
  <2>2. Len(t) = n - 1
    BY <1>3, <1>4, <1>5, <2>1
  <2>3. DOMAIN t = 1..n - 1
    BY <2>1, <2>2
  <2>4. Len(a) + Len(b) = n - 1
    BY <1>3, <1>4, <1>5
  <2> QED
    BY <1>4, <2>1, <2>2, <2>3, <2>4
<1>7. ASSUME NEW i \in 1..n - 1 PROVE t[i] = IF i < k THEN s[i] ELSE s[i + 1]
  <2>1. CASE i < k
    <3>1. i <= k - 1 /\ i \in 1..k - 1
      BY <1>3, <2>1
    <3> QED
      BY <1>4, <1>6, <2>1, <3>1
  <2>2. CASE ~(i < k)
    <3>1. i - (k - 1) \in 1..n - k /\ ~(i <= k - 1) /\ k + (i - (k - 1)) = i + 1
      BY <1>3, <2>2
    <3>3. t[i] = b[i - (k - 1)]
      BY <1>6, <3>1
    <3>4. b[i - (k - 1)] = s[k + (i - (k - 1))]
      BY <1>5, <3>1
    <3> QED
      BY <2>2, <3>1, <3>3, <3>4
  <2> QED
    BY <2>1, <2>2
<1>8. Distinct(t)
  <2> SUFFICES ASSUME NEW i \in 1..n - 1, NEW j \in 1..n - 1, t[i].id = t[j].id PROVE i = j
    BY <1>6 DEF Distinct
  <2>1. PICK p, q : p = (IF i < k THEN i ELSE i + 1) /\ q = (IF j < k THEN j ELSE j + 1)
    OBVIOUS
  <2>2. p \in 1..n /\ q \in 1..n /\ t[i] = s[p] /\ t[j] = s[q]
    BY <1>3, <1>7, <2>1
  <2>3. p = q
    BY <1>3, <2>2 DEF Distinct
  <2> QED
    BY <1>3, <2>1, <2>3
<1>9. ASSUME NEW i \in 1..n - 1 PROVE t[i] \in ToSet(s)
  <2>1. i \in 1..n /\ i + 1 \in 1..n
    BY <1>3
  <2> QED
    BY <1>3, <1>7, <2>1 DEF ToSet
<1>10. ASSUME NEW j \in DOMAIN s, j # k PROVE s[j] \in ToSet(t)
  <2>1. PICK i : i = IF j < k THEN j ELSE j - 1
    OBVIOUS
  <2>2. i \in 1..n - 1 /\ (i < k => i = j) /\ (~(i < k) => i + 1 = j)
    BY <1>3, <1>10, <2>1
  <2>3. t[i] = s[j]
    BY <1>7, <2>2
  <2> QED
    BY <1>6, <2>2, <2>3 DEF ToSet
<1>11. ToSet(t) \subseteq ToSet(s)
  BY <1>6, <1>9 DEF ToSet
<1>12. RemoveAt(s, k) = t
  BY <1>1 DEF RemoveAt
<1> QED
  BY <1>6, <1>8, <1>10, <1>11, <1>12

(* Some or all delegates of a list become null.                            *)
Emptied(s, t) ==
    /\ Len(t) = Len(s)
    /\ \A i \in DOMAIN s : t[i].id = s[i].id /\ t[i].d \in {s[i].d, Unbound}

LEMMA EmptiedGrows ==
  ASSUME NEW s \in Seq(AnyNode), NEW t \in Seq(AnyNode), Distinct(s), Emptied(s, t)
  PROVE  Grows(s, t) /\ Distinct(t)
<1>1. PICK n : n = Len(s)
  OBVIOUS
<1>2. n \in Nat /\ Len(t) = n /\ DOMAIN s = 1..n /\ DOMAIN t = 1..n
  BY <1>1 DEF Emptied
<1>3. \A i \in 1..n : t[i].id = s[i].id /\ (t[i].d # Unbound => s[i].d # Unbound)
  BY <1>2 DEF Emptied
<1>4. Len(s) <= Len(t)
  BY <1>1, <1>2
<1> QED
  BY <1>2, <1>3, <1>4 DEF Grows, Distinct

LEMMA EmptyNode ==
  ASSUME NEW e \in AnyNode
  PROVE  /\ [e EXCEPT !.d = Unbound] \in AnyNode /\ [e EXCEPT !.d = Unbound].id = e.id
         /\ [e EXCEPT !.d = Unbound].d = Unbound
  BY UnboundIsNone DEF AnyNode

LEMMA EmptyOneIs ==
  ASSUME NEW s \in Seq(AnyNode), NEW k \in DOMAIN s
  PROVE  LET t == [s EXCEPT ![k].d = Unbound]
         IN  /\ t \in Seq(AnyNode) /\ Emptied(s, t)
             /\ \A j \in DOMAIN s : j # k => s[j] \in ToSet(t)
<1>1. PICK e : e = [s[k] EXCEPT !.d = Unbound]
  OBVIOUS
<1>2. e \in AnyNode /\ e.id = s[k].id /\ e.d = Unbound
  BY <1>1, EmptyNode
<1>3. PICK t : t = [s EXCEPT ![k] = e]
  OBVIOUS
<1>4. t \in Seq(AnyNode) /\ Len(t) = Len(s) /\ DOMAIN t = DOMAIN s /\ t[k] = e /\ \A i \in DOMAIN s : i # k => t[i] = s[i]
  BY <1>2, <1>3
<1>5. t = [s EXCEPT ![k].d = Unbound]
  BY <1>1, <1>3
<1>6. Emptied(s, t)
  BY <1>2, <1>4 DEF Emptied
<1>7. \A j \in DOMAIN s : j # k => s[j] \in ToSet(t)
  BY <1>4 DEF ToSet
<1> QED
  BY <1>4, <1>5, <1>6, <1>7

LEMMA EmptyAllIs ==
  ASSUME NEW s \in Seq(AnyNode)
  PROVE  LET t == [i \in DOMAIN s |-> [s[i] EXCEPT !.d = Unbound]]
         IN  t \in Seq(AnyNode) /\ Emptied(s, t)
<1>1. PICK t : t = [i \in DOMAIN s |-> [s[i] EXCEPT !.d = Unbound]]
  OBVIOUS
<1>2. PICK n : n = Len(s)
  OBVIOUS
<1>3. n \in Nat /\ DOMAIN s = 1..n /\ \A i \in 1..n : s[i] \in AnyNode
  BY <1>2
<1>4. \A i \in 1..n : t[i] \in AnyNode /\ t[i].id = s[i].id /\ t[i].d = Unbound
  BY <1>1, <1>3, EmptyNode
<1>5. t \in [1..n -> AnyNode]
  BY <1>1, <1>3, <1>4
<1>6. t \in Seq(AnyNode) /\ Len(t) = n
  BY <1>3, <1>5
<1>7. Emptied(s, t)
  BY <1>2, <1>3, <1>4, <1>6 DEF Emptied
<1> QED
  BY <1>1, <1>6, <1>7

(* A list has no more nodes than there are ids, and one more can be had    *)
(* while it has less.                                                      *)
LEMMA IdsCounted ==
  ASSUME NEW s \in Seq(AnyNode)
  PROVE  /\ IsFiniteSet(IdsOf(s)) /\ Cardinality(IdsOf(s)) <= Len(s)
         /\ IdsOf(s) \subseteq 1..MaxNodes
         /\ Distinct(s) => Len(s) <= MaxNodes
<1>1. PICK n : n = Len(s)
  OBVIOUS
<1>2. n \in Nat /\ DOMAIN s = 1..n /\ MaxNodes \in Nat
  BY <1>1, DelegatesConstants
<1>3. PICK f : f = [i \in 1..n |-> s[i].id]
  OBVIOUS
<1>4. \A i \in 1..n : s[i].id \in IdsOf(s) /\ s[i].id \in 1..MaxNodes /\ f[i] = s[i].id
  BY <1>2, <1>3, IdsAre
<1>5. \A x \in IdsOf(s) : \E i \in 1..n : f[i] = x
  BY <1>2, <1>4 DEF IdsOf, ToSet
<1>6. f \in [1..n -> IdsOf(s)] /\ f \in [1..n -> 1..MaxNodes]
  BY <1>3, <1>4
<1>7. f \in Surjection(1..n, IdsOf(s))
  BY <1>5, <1>6 DEF Surjection
<1>8. IsFiniteSet(1..n) /\ Cardinality(1..n) = n
  BY <1>2, FS_Interval
<1>9. IsFiniteSet(IdsOf(s)) /\ Cardinality(IdsOf(s)) <= n
  BY <1>7, <1>8, FS_Surjection
<1>10. IdsOf(s) \subseteq 1..MaxNodes
  BY <1>4, <1>5
<1>11. ASSUME Distinct(s) PROVE n <= MaxNodes
  <2>1. IsFiniteSet(1..MaxNodes) /\ Cardinality(1..MaxNodes) = MaxNodes
    BY <1>2, FS_Interval
  <2>2. IsInjective(f)
    BY <1>2, <1>3, <1>4, <1>11 DEF Distinct, IsInjective
  <2>3. f \in Injection(1..n, 1..MaxNodes)
    BY <1>6, <2>2 DEF Injection
  <2> QED
    BY <1>8, <2>1, <2>3, FS_Injection
<1> QED
  BY <1>1, <1>9, <1>10, <1>11

LEMMA FreshIsNew ==
  ASSUME NEW l, list[l] \in Seq(AnyNode), Len(list[l]) < MaxNodes
  PROVE  FreshId(l) \in 1..MaxNodes /\ FreshId(l) \notin IdsOf(list[l])
<1>1. PICK I : I = IdsOf(list[l])
  OBVIOUS
<1>2. IsFiniteSet(I) /\ Cardinality(I) <= Len(list[l])
  BY <1>1, IdsCounted
<1>3. IsFiniteSet(1..MaxNodes) /\ Cardinality(1..MaxNodes) = MaxNodes /\ MaxNodes \in Nat /\ Len(list[l]) \in Nat
  <2>1. MaxNodes \in Nat /\ Len(list[l]) \in Nat
    BY DelegatesConstants
  <2> QED
    BY <2>1, FS_Interval
<1>4. \E x \in 1..MaxNodes : x \notin I
  <2>1. SUFFICES ASSUME 1..MaxNodes \subseteq I PROVE FALSE
    OBVIOUS
  <2>2. 1..MaxNodes \in SUBSET I
    BY <2>1
  <2>3. Cardinality(1..MaxNodes) <= Cardinality(I) /\ Cardinality(I) \in Nat
    BY <1>2, <2>2, FS_Subset, FS_CardinalityType
  <2> QED
    BY <1>2, <1>3, <2>3
<1>5. Ids(l) = I
  BY <1>1 DEF Ids, IdsOf
<1> QED
  BY <1>1, <1>4, <1>5 DEF FreshId
(* Clones of the nodes of one list behind those that another one keeps.    *)
Fresh(kept) == (1..MaxNodes) \ IdsOf(kept)
Given(new, kept) == CHOOSE h \in [1..Len(new) -> Fresh(kept)] : IsInjective(h)
Clones(new, h) == [i \in 1..Len(new) |-> [id |-> h[i], d |-> Clone(new[i].d)]]

LEMMA GivenIs ==
  ASSUME NEW kept \in Seq(AnyNode), NEW new \in Seq(AnyNode), Len(new) <= Cardinality(Fresh(kept))
  PROVE  Given(new, kept) \in [1..Len(new) -> Fresh(kept)] /\ IsInjective(Given(new, kept))
<1>1. PICK F, n, m : F = Fresh(kept) /\ n = Len(new) /\ m = Cardinality(F)
  OBVIOUS
<1>2. IsFiniteSet(F)
  <2>1. MaxNodes \in Nat
    BY DelegatesConstants
  <2>2. IsFiniteSet(1..MaxNodes)
    BY <2>1, FS_Interval
  <2>3. F \in SUBSET (1..MaxNodes)
    BY <1>1 DEF Fresh
  <2> QED
    BY <2>2, <2>3, FS_Subset
<1>3. m \in Nat /\ n \in Nat /\ n <= m /\ ExistsBijection(1..m, F)
  BY <1>1, <1>2, FS_CardinalityType
<1>4. PICK f : f \in Bijection(1..m, F)
  BY <1>3 DEF ExistsBijection
<1>5. f \in [1..m -> F] /\ \A i, j \in 1..m : f[i] = f[j] => i = j
  BY <1>4 DEF Bijection, Injection, Surjection, IsInjective
<1>6. PICK h : h = [i \in 1..n |-> f[i]]
  OBVIOUS
<1>7. \A i \in 1..n : i \in 1..m
  BY <1>3
<1>8. h \in [1..n -> F] /\ \A i, j \in 1..n : h[i] = h[j] => i = j
  BY <1>5, <1>6, <1>7
<1>9. IsInjective(h)
  BY <1>8 DEF IsInjective
<1> QED
  BY <1>1, <1>8, <1>9 DEF Given

LEMMA ConcatNodes ==
  ASSUME NEW s \in Seq(AnyNode), NEW t \in Seq(AnyNode), Distinct(s), Distinct(t), \A e \in ToSet(t) : e.id \notin IdsOf(s)
  PROVE  /\ s \o t \in Seq(AnyNode) /\ Distinct(s \o t) /\ Grows(s, s \o t)
         /\ ToSet(s \o t) \subseteq ToSet(s) \cup ToSet(t)
<1>1. PICK c, n, m : c = s \o t /\ n = Len(s) /\ m = Len(t)
  OBVIOUS
<1>2. n \in Nat /\ m \in Nat /\ DOMAIN s = 1..n /\ DOMAIN t = 1..m
  BY <1>1
<1>3. c \in Seq(AnyNode) /\ Len(c) = n + m /\ \A i \in 1..n + m : c[i] = IF i <= n THEN s[i] ELSE t[i - n]
  BY <1>1, ConcatProperties
<1>4. DOMAIN c = 1..n + m
  BY <1>3
<1>5. ASSUME NEW i \in 1..n + m
      PROVE  (i \in 1..n /\ c[i] = s[i]) \/ (i - n \in 1..m /\ c[i] = t[i - n])
  BY <1>2, <1>3
<1>6. ASSUME NEW i \in 1..n + m, NEW j \in 1..n + m, c[i].id = c[j].id PROVE i = j
  <2>1. \A k \in 1..n : s[k].id \in IdsOf(s)
    BY <1>2, IdsAre
  <2>2. \A k \in 1..m : t[k].id \notin IdsOf(s)
    BY <1>2 DEF ToSet
  <2>3. (i \in 1..n /\ j \in 1..n) \/ (i - n \in 1..m /\ j - n \in 1..m)
    BY <1>5, <1>6, <2>1, <2>2
  <2>4. CASE i \in 1..n /\ j \in 1..n
    <3>1. c[i] = s[i] /\ c[j] = s[j]
      BY <1>2, <1>3, <2>4
    <3> QED
      BY <1>2, <1>6, <2>4, <3>1 DEF Distinct
  <2>5. CASE i - n \in 1..m /\ j - n \in 1..m
    <3>1. c[i] = t[i - n] /\ c[j] = t[j - n]
      BY <1>2, <1>3, <2>5
    <3>2. i - n = j - n
      BY <1>2, <1>6, <2>5, <3>1 DEF Distinct
    <3> QED
      BY <1>2, <3>2
  <2> QED
    BY <2>3, <2>4, <2>5
<1>7. Distinct(c)
  BY <1>4, <1>6 DEF Distinct
<1>8. \A i \in 1..n : i \in 1..n + m /\ i <= n
  BY <1>2
<1>9. \A i \in 1..n : c[i] = s[i]
  BY <1>3, <1>8
<1>10. n <= n + m
  BY <1>2
<1>11. Grows(s, c)
  BY <1>1, <1>2, <1>3, <1>9, <1>10 DEF Grows
<1>12. ToSet(c) \subseteq ToSet(s) \cup ToSet(t)
  BY <1>2, <1>4, <1>5 DEF ToSet
<1> QED
  BY <1>1, <1>3, <1>7, <1>11, <1>12

LEMMA CopyIs ==
  ASSUME NEW kept \in Seq(AnyNode), Distinct(kept), NEW new \in Seq(AnyNode), Len(new) <= Cardinality(Fresh(kept)),
         \A e \in ToSet(new) : e.d # Unbound
  PROVE  LET t == Clones(new, Given(new, kept))
         IN  /\ kept \o t \in Seq(AnyNode) /\ Distinct(kept \o t) /\ Grows(kept, kept \o t)
             /\ \A e \in ToSet(kept \o t) : e \in ToSet(kept) \/ e.d # Unbound
<1>1. PICK h, n, t : h = Given(new, kept) /\ n = Len(new) /\ t = Clones(new, h)
  OBVIOUS
<1>2. h \in [1..n -> Fresh(kept)] /\ (\A i, j \in 1..n : h[i] = h[j] => i = j) /\ n \in Nat /\ DOMAIN new = 1..n
  BY <1>1, GivenIs DEF IsInjective
<1>3. ASSUME NEW i \in 1..n
      PROVE  /\ t[i] \in AnyNode /\ t[i].id = h[i] /\ t[i].id \notin IdsOf(kept) /\ t[i].d # Unbound
  <2>1. t[i] = [id |-> h[i], d |-> Clone(new[i].d)]
    BY <1>1 DEF Clones
  <2>2. h[i] \in 1..MaxNodes /\ h[i] \notin IdsOf(kept)
    BY <1>2 DEF Fresh
  <2>3. new[i].d \in AnyDelegate /\ new[i].d # Unbound
    BY <1>2, IdsAre DEF ToSet
  <2>4. PICK c : c = Clone(new[i].d)
    OBVIOUS
  <2>5. c \in AnyDelegate /\ c # Unbound
    BY <2>3, <2>4, CloneIs
  <2> QED
    BY <2>1, <2>2, <2>4, <2>5 DEF AnyNode
<1>4. t \in [1..n -> AnyNode]
  BY <1>1, <1>3 DEF Clones
<1>5. t \in Seq(AnyNode) /\ DOMAIN t = 1..n
  BY <1>2, <1>4
<1>6. Distinct(t)
  BY <1>2, <1>3, <1>5 DEF Distinct
<1>7. \A e \in ToSet(t) : e.id \notin IdsOf(kept) /\ e.d # Unbound
  BY <1>3, <1>5 DEF ToSet
<1>8. /\ kept \o t \in Seq(AnyNode) /\ Distinct(kept \o t) /\ Grows(kept, kept \o t)
      /\ ToSet(kept \o t) \subseteq ToSet(kept) \cup ToSet(t)
  BY <1>5, <1>6, <1>7, ConcatNodes
<1> QED
  BY <1>1, <1>7, <1>8

LEMMA GrowsOn ==
  ASSUME NEW s \in Seq(AnyNode), NEW t \in Seq(AnyNode), NEW u \in Seq(AnyNode), Grows(s, t), Grows(t, u)
  PROVE  Grows(s, u)
<1>1. PICK n, m, k : n = Len(s) /\ m = Len(t) /\ k = Len(u)
  OBVIOUS
<1>2. /\ n \in Nat /\ m \in Nat /\ k \in Nat /\ n <= m /\ m <= k
      /\ DOMAIN s = 1..n /\ DOMAIN t = 1..m
  BY <1>1 DEF Grows
<1>3. \A i \in 1..n : i \in 1..m
  BY <1>2
<1>4. \A i \in 1..n : t[i].id = s[i].id /\ (t[i].d # Unbound => s[i].d # Unbound)
  BY <1>2 DEF Grows
<1>5. \A i \in 1..m : u[i].id = t[i].id /\ (u[i].d # Unbound => t[i].d # Unbound)
  BY <1>2 DEF Grows
<1>6. \A i \in DOMAIN s : u[i].id = s[i].id /\ (u[i].d # Unbound => s[i].d # Unbound)
  BY <1>2, <1>3, <1>4, <1>5
<1> QED
  BY <1>1, <1>2, <1>6 DEF Grows
-----------------------------------------------------------------------------
(* The operations of the containers keep the invariant.                    *)

(* Nothing that frames or messages depend on changes.                      *)
LEMMA FramesUntouched ==
  ASSUME DelegatesInv, UNCHANGED <<list, casting, cleanup, stack>>
  PROVE  NodesKept' /\ FramesKept'
<1>1. NodesKept'
  BY DEF DelegatesInv, NodesKept
<1>2. FramesKept'
  BY DEF DelegatesInv, FramesKept
<1> QED
  BY <1>1, <1>2

LEMMA ResultsUntouched ==
  ASSUME DelegatesInv, UNCHANGED <<inbox, worker, calls>>,
         UNCHANGED stack \/ (stack' # <<>> => stack'[1].phase \notin {"wait", "late"})
  PROVE  ResultsOwn' /\ Pinned'
<1>1. Pinned'
  BY DEF DelegatesInv, Pinned
<1>2. CASE UNCHANGED stack
  BY <1>1, <1>2 DEF DelegatesInv, ResultsOwn
<1>3. CASE stack' # <<>> => stack'[1].phase \notin {"wait", "late"}
  BY <1>1, <1>3 DEF DelegatesInv, ResultsOwn
<1> QED
  BY <1>2, <1>3

LEMMA SlotKept ==
  ASSUME DelegatesInv, NEW t \in Slots, NEW d \in AnyDelegate, Op, slot' = [slot EXCEPT ![t] = d],
         UNCHANGED <<list, casting, cleanup, stack, inbox, worker, owned, calls>>
  PROVE  DelegatesInv'
<1>1. slot' \in [Slots -> AnyDelegate]
  BY DEF DelegatesInv, ContainersTyped
<1>2. ops' \in Nat
  BY DEF DelegatesInv, ContainersTyped, Op
<1>3. ContainersTyped'
  BY <1>1, <1>2 DEF DelegatesInv, ContainersTyped
<1>4. NodesKept' /\ FramesKept'
  BY FramesUntouched
<1>5. ResultsOwn' /\ Pinned'
  BY ResultsUntouched
<1> QED
  BY <1>3, <1>4, <1>5 DEF DelegatesInv

LEMMA UnicastAssignKept ==
  ASSUME DelegatesInv, NEW t \in Slots, NEW d \in AnyDelegate, UnicastAssign(t, d)
  PROVE  DelegatesInv'
<1>1. Clone(d) \in AnyDelegate
  BY CloneIs
<1> QED
  BY <1>1, SlotKept DEF UnicastAssign

LEMMA UnicastClearKept ==
  ASSUME DelegatesInv, NEW t \in Slots, UnicastClear(t)
  PROVE  DelegatesInv'
<1>1. Unbound \in AnyDelegate
  BY UnboundIsNone
<1> QED
  BY <1>1, SlotKept DEF UnicastClear

(* A list changes under application code: the rest of the invariant.       *)
LEMMA ListKept ==
  ASSUME DelegatesInv, Op, UNCHANGED <<slot, casting, stack, inbox, worker, owned, calls>>,
         NEW l \in Lists, NEW t \in Seq(AnyNode), list' = [list EXCEPT ![l] = t], Distinct(t),
         casting[l] > 0 => Grows(list[l], t),
         NEW c \in BOOLEAN, cleanup' = [cleanup EXCEPT ![l] = c],
         casting[l] = 0 => ~c, ~c => \A e \in ToSet(t) : e.d # Unbound
  PROVE  DelegatesInv'
<1>1. InControl
  BY DEF Op
<1>2. /\ NodesKept' /\ FramesKept' /\ ResultsOwn' /\ Pinned'
      /\ list' \in [Lists -> Seq(AnyNode)] /\ cleanup' \in [Lists -> BOOLEAN]
  BY <1>1, OpKept
<1>3. ops' \in Nat
  BY DEF DelegatesInv, ContainersTyped, Op
<1>4. ContainersTyped'
  BY <1>2, <1>3 DEF DelegatesInv, ContainersTyped
<1> QED
  BY <1>2, <1>4 DEF DelegatesInv

LEMMA ListIs ==
  ASSUME DelegatesInv, NEW l \in Lists
  PROVE  /\ list[l] \in Seq(AnyNode) /\ Distinct(list[l]) /\ cleanup[l] \in BOOLEAN /\ casting[l] \in Nat
         /\ casting[l] = 0 => ~cleanup[l]
         /\ ~cleanup[l] => \A e \in ToSet(list[l]) : e.d # Unbound
         /\ cleanup = [cleanup EXCEPT ![l] = cleanup[l]]
  BY DEF DelegatesInv, ContainersTyped, NodesKept

LEMMA PushBackKept ==
  ASSUME DelegatesInv, NEW l \in Lists, NEW d \in AnyDelegate, d # Unbound, PushBack(l, d)
  PROVE  DelegatesInv'
<1>1. PICK s, e, t : s = list[l] /\ e = [id |-> FreshId(l), d |-> Clone(d)] /\ t = Append(s, e)
  OBVIOUS
<1>2. s \in Seq(AnyNode) /\ Distinct(s)
  BY <1>1, ListIs
<1>3. FreshId(l) \in 1..MaxNodes /\ FreshId(l) \notin IdsOf(s)
  BY <1>1, <1>2, FreshIsNew DEF PushBack
<1>4. Clone(d) \in AnyDelegate /\ Clone(d) # Unbound
  BY CloneIs
<1>5. e \in AnyNode /\ e.id \notin IdsOf(s) /\ e.d # Unbound
  BY <1>1, <1>3, <1>4 DEF AnyNode
<1>6. \A x \in ToSet(s) : x.id # e.id
  BY <1>5 DEF IdsOf
<1>7. /\ t \in Seq(AnyNode) /\ ToSet(t) = ToSet(s) \cup {e} /\ Distinct(t)
      /\ Len(t) = Len(s) + 1 /\ Len(s) \in Nat /\ \A i \in DOMAIN s : t[i] = s[i]
  BY <1>1, <1>2, <1>5, <1>6, AppendNode
<1>8. Grows(s, t)
  BY <1>7 DEF Grows
<1>9. list' = [list EXCEPT ![l] = t] /\ Op /\ UNCHANGED <<slot, casting, cleanup, stack, inbox, worker, owned, calls>>
  BY <1>1 DEF PushBack
<1>10. cleanup' = [cleanup EXCEPT ![l] = cleanup[l]] /\ cleanup[l] \in BOOLEAN /\ (casting[l] = 0 => ~cleanup[l])
  BY <1>9, ListIs
<1>11. ~cleanup[l] => \A x \in ToSet(t) : x.d # Unbound
  BY <1>1, <1>5, <1>7, ListIs
<1> QED
  BY <1>1, <1>7, <1>8, <1>9, <1>10, <1>11, ListKept

LEMMA RemoveDelegateKept ==
  ASSUME DelegatesInv, NEW l \in Lists, NEW d, RemoveDelegate(l, d)
  PROVE  DelegatesInv'
<1>1. PICK k \in DOMAIN list[l] : Erase(l, k)
  BY DEF RemoveDelegate
<1>2. PICK s : s = list[l]
  OBVIOUS
<1>3. s \in Seq(AnyNode) /\ Distinct(s) /\ k \in DOMAIN s
  BY <1>1, <1>2, ListIs
<1>4. Op /\ UNCHANGED <<slot, casting, stack, inbox, worker, owned, calls>>
  BY DEF RemoveDelegate
<1>5. CASE casting[l] > 0
  <2>1. PICK t : t = [s EXCEPT ![k].d = Unbound]
    OBVIOUS
  <2>2. t \in Seq(AnyNode) /\ Grows(s, t) /\ Distinct(t)
    BY <1>3, <2>1, EmptyOneIs, EmptiedGrows
  <2>3. list' = [list EXCEPT ![l] = t] /\ cleanup' = [cleanup EXCEPT ![l] = TRUE]
    BY <1>1, <1>2, <1>5, <2>1 DEF Erase
  <2>4. ~(casting[l] = 0)
    BY <1>5, ListIs
  <2> QED
    BY <1>2, <1>4, <2>2, <2>3, <2>4, ListKept
<1>6. CASE ~(casting[l] > 0)
  <2>1. PICK t : t = RemoveAt(s, k)
    OBVIOUS
  <2>2. t \in Seq(AnyNode) /\ Distinct(t) /\ ToSet(t) \subseteq ToSet(s)
    BY <1>3, <2>1, RemoveAtIs
  <2>3. list' = [list EXCEPT ![l] = t] /\ cleanup' = cleanup
    BY <1>1, <1>2, <1>6, <2>1 DEF Erase
  <2>4. cleanup' = [cleanup EXCEPT ![l] = cleanup[l]] /\ cleanup[l] \in BOOLEAN /\ (casting[l] = 0 => ~cleanup[l])
    BY <2>3, ListIs
  <2>5. ~cleanup[l] => \A x \in ToSet(t) : x.d # Unbound
    BY <1>2, <2>2, ListIs
  <2> QED
    BY <1>4, <1>6, <2>2, <2>3, <2>4, <2>5, ListKept
<1> QED
  BY <1>5, <1>6

(* What is left of a list that is cleared.                                 *)
LEMMA ClearNodesAre ==
  ASSUME DelegatesInv, NEW l \in Lists
  PROVE  /\ ClearNodes(l) \in Seq(AnyNode) /\ Distinct(ClearNodes(l))
         /\ casting[l] > 0 => Grows(list[l], ClearNodes(l))
         /\ ~(casting[l] > 0) => ClearNodes(l) = <<>>
<1>1. PICK s : s = list[l]
  OBVIOUS
<1>2. s \in Seq(AnyNode) /\ Distinct(s)
  BY <1>1, ListIs
<1>3. CASE casting[l] > 0
  <2>1. PICK t : t = [i \in DOMAIN s |-> [s[i] EXCEPT !.d = Unbound]]
    OBVIOUS
  <2>2. t \in Seq(AnyNode) /\ Emptied(s, t)
    BY <1>2, <2>1, EmptyAllIs
  <2>3. Grows(s, t) /\ Distinct(t)
    BY <1>2, <2>2, EmptiedGrows
  <2>4. ClearNodes(l) = t
    BY <1>1, <1>3, <2>1 DEF ClearNodes
  <2> QED
    BY <1>1, <1>3, <2>2, <2>3, <2>4
<1>4. CASE ~(casting[l] > 0)
  <2>1. ClearNodes(l) = <<>>
    BY <1>4 DEF ClearNodes
  <2> QED
    BY <1>4, <2>1 DEF Distinct
<1> QED
  BY <1>3, <1>4

LEMMA ClearListKept ==
  ASSUME DelegatesInv, NEW l \in Lists, ClearList(l)
  PROVE  DelegatesInv'
<1>1. PICK t, c : t = ClearNodes(l) /\ c = (cleanup[l] \/ casting[l] > 0)
  OBVIOUS
<1>2. t \in Seq(AnyNode) /\ Distinct(t) /\ (casting[l] > 0 => Grows(list[l], t)) /\ (~(casting[l] > 0) => t = <<>>)
  BY <1>1, ClearNodesAre
<1>3. /\ c \in BOOLEAN /\ (casting[l] = 0 => ~c) /\ (~c => ~(casting[l] > 0))
  <2>1. casting[l] \in Nat /\ cleanup[l] \in BOOLEAN /\ (casting[l] = 0 => ~cleanup[l])
    BY ListIs
  <2>2. casting[l] = 0 => ~(casting[l] > 0)
    BY <2>1
  <2>3. c \in BOOLEAN
    BY <1>1, Zenon
  <2>4. casting[l] = 0 => ~c
    BY <1>1, <2>1, <2>2, Zenon
  <2>5. ~c => ~(casting[l] > 0)
    BY <1>1, Zenon
  <2> QED
    BY <2>3, <2>4, <2>5
<1>4. /\ list' = [list EXCEPT ![l] = t] /\ cleanup' = [cleanup EXCEPT ![l] = c]
      /\ Op /\ UNCHANGED <<slot, casting, stack, inbox, worker, owned, calls>>
  BY <1>1 DEF ClearList
<1>5. ~c => \A e \in ToSet(t) : e.d # Unbound
  BY <1>2, <1>3 DEF ToSet
<1> QED
  BY <1>2, <1>3, <1>4, <1>5, ListKept

LEMMA CopyListKept ==
  ASSUME DelegatesInv, NEW l \in Lists, NEW k \in Lists, CopyList(l, k)
  PROVE  DelegatesInv'
<1>1. PICK kept, new, c : kept = ClearNodes(l) /\ new = Bound(list[k]) /\ c = (cleanup[l] \/ casting[l] > 0)
  OBVIOUS
<1>2. PICK t : t = kept \o Clones(new, Given(new, kept))
  OBVIOUS
<1>3. /\ kept \in Seq(AnyNode) /\ Distinct(kept) /\ (casting[l] > 0 => Grows(list[l], kept))
      /\ ~(casting[l] > 0) => kept = <<>>
  BY <1>1, ClearNodesAre
<1>4. new \in Seq(AnyNode) /\ \A e \in ToSet(new) : e.d # Unbound
  BY <1>1, ListIs, BoundFacts DEF BoundNodes
<1>5. /\ Op /\ Len(new) <= Cardinality(Fresh(kept))
      /\ list' = [list EXCEPT ![l] = t] /\ cleanup' = [cleanup EXCEPT ![l] = c]
      /\ UNCHANGED <<slot, casting, stack, inbox, worker, owned, calls>>
  BY <1>1, <1>2 DEF CopyList, Fresh, IdsOf, Given, Clones
<1>6. /\ t \in Seq(AnyNode) /\ Distinct(t) /\ Grows(kept, t)
      /\ \A e \in ToSet(t) : e \in ToSet(kept) \/ e.d # Unbound
  BY <1>2, <1>3, <1>4, <1>5, CopyIs
<1>7. casting[l] > 0 => Grows(list[l], t)
  BY <1>3, <1>6, ListIs, GrowsOn
<1>8. /\ c \in BOOLEAN /\ (casting[l] = 0 => ~c) /\ (~c => ~(casting[l] > 0))
  <2>1. casting[l] \in Nat /\ cleanup[l] \in BOOLEAN /\ (casting[l] = 0 => ~cleanup[l])
    BY ListIs
  <2>2. casting[l] = 0 => ~(casting[l] > 0)
    BY <2>1
  <2>3. c \in BOOLEAN
    BY <1>1, Zenon
  <2>4. casting[l] = 0 => ~c
    BY <1>1, <2>1, <2>2, Zenon
  <2>5. ~c => ~(casting[l] > 0)
    BY <1>1, Zenon
  <2> QED
    BY <2>3, <2>4, <2>5
<1>9. ~c => \A e \in ToSet(t) : e.d # Unbound
  BY <1>3, <1>6, <1>8 DEF ToSet
<1> QED
  BY <1>5, <1>6, <1>7, <1>8, <1>9, ListKept

LEMMA CallUnicastKept ==
  ASSUME DelegatesInv, NEW t \in Slots, CallUnicast(t)
  PROVE  DelegatesInv'
<1>1. PICK g : g = Frame(t, Nil, 0, "enter", slot[t])
  OBVIOUS
<1>2. slot[t] \in AnyDelegate /\ slot[t] # Unbound
  BY DEF DelegatesInv, ContainersTyped, CallUnicast
<1>3. g \in AnyFrame /\ g.list = Nil /\ g.slot = t /\ g.phase = "enter" /\ g.d = slot[t] /\ g.n = 0 /\ g.got = Nil
  <2>1. 0 \in 0..MaxNodes /\ <<>> \in Seq(1..MaxNodes)
    BY DelegatesConstants
  <2> QED
    BY <1>1, <1>2, <2>1 DEF Frame, AnyFrame, Phases
<1>4. FrameIs(g, list)
  BY <1>2, <1>3 DEF FrameIs, FrameShape
<1>5. /\ InControl /\ ops' \in Nat /\ Len(stack) < MaxDepth /\ stack' = <<g>> \o stack
      /\ UNCHANGED <<slot, list, casting, cleanup, inbox, worker, owned, calls>>
  BY <1>1 DEF CallUnicast, Op, conts, DelegatesInv, ContainersTyped
<1>6. /\ NodesKept' /\ FramesKept' /\ stack' \in Seq(AnyFrame) /\ Len(stack') <= MaxDepth
      /\ stack' # <<>> /\ stack'[1] = g
  BY <1>3, <1>4, <1>5, TopComes DEF DelegatesInv
<1>7. ContainersTyped'
  BY <1>5, <1>6 DEF DelegatesInv, ContainersTyped
<1>8. ResultsOwn' /\ Pinned'
  BY <1>3, <1>5, <1>6, ResultsUntouched
<1> QED
  BY <1>6, <1>7, <1>8 DEF DelegatesInv

LEMMA BroadcastKept ==
  ASSUME DelegatesInv, NEW l \in Lists, Broadcast(l)
  PROVE  DelegatesInv'
<1>1. PICK g, s : g = Frame(Nil, l, First(l), "next", Unbound) /\ s = list[l]
  OBVIOUS
<1>2. s \in Seq(AnyNode) /\ Distinct(s) /\ s # <<>> /\ 1 \in DOMAIN s
  BY <1>1, ListIs DEF Broadcast
<1>3. First(l) = s[1].id /\ s[1].id \in 1..MaxNodes
  BY <1>1, <1>2, IdsAre DEF First
<1>4. /\ g \in AnyFrame /\ g.list = l /\ g.phase = "next" /\ g.d = Unbound /\ g.n = 0 /\ g.got = Nil
      /\ g.node = s[1].id /\ g.called = <<>>
  <2>1. First(l) \in 0..MaxNodes /\ <<>> \in Seq(1..MaxNodes)
    BY <1>3, DelegatesConstants
  <2> QED
    BY <1>1, <1>3, <2>1, UnboundIsNone DEF Frame, AnyFrame, Phases
<1>5. FrameIs(g, list)
  BY <1>1, <1>2, <1>4, BeginsCalls, NilIsSpecial DEF FrameIs, FrameShape
<1>6. /\ InControl /\ ops' \in Nat /\ Len(stack) < MaxDepth /\ stack' = <<g>> \o stack
      /\ casting' = [casting EXCEPT ![l] = @ + 1]
      /\ UNCHANGED <<slot, list, cleanup, inbox, worker, owned, calls>>
  BY <1>1 DEF Broadcast, Op, DelegatesInv, ContainersTyped
<1>7. g.phase \notin Busy /\ g.list # Nil
  BY <1>4, NilIsSpecial DEF Busy
<1>8. /\ NodesKept' /\ FramesKept' /\ stack' \in Seq(AnyFrame) /\ Len(stack') <= MaxDepth
      /\ stack' # <<>> /\ stack'[1] = g /\ casting' \in [Lists -> Nat]
  BY <1>4, <1>5, <1>6, <1>7, TopComes DEF DelegatesInv
<1>9. ContainersTyped'
  BY <1>6, <1>8 DEF DelegatesInv, ContainersTyped
<1>10. ResultsOwn' /\ Pinned'
  BY <1>4, <1>6, <1>8, ResultsUntouched
<1> QED
  BY <1>8, <1>9, <1>10 DEF DelegatesInv
-----------------------------------------------------------------------------
(* The steps of a broadcast and of the calls keep the invariant.           *)

LEMMA TopIs ==
  ASSUME DelegatesInv, stack # <<>>
  PROVE  /\ Top = stack[1] /\ 1 \in DOMAIN stack /\ stack \in Seq(AnyFrame)
         /\ stack[1] \in AnyFrame /\ FrameIs(stack[1], list)
  BY DEF DelegatesInv, ContainersTyped, FramesKept, Top

(* What is left to show when the innermost frame changed or went.          *)
LEMMA CallKept ==
  ASSUME DelegatesInv, UNCHANGED <<slot, inbox, worker, owned, ops, calls>>,
         NodesKept' /\ FramesKept' /\ stack' \in Seq(AnyFrame) /\ Len(stack') <= MaxDepth,
         stack' # <<>> => stack'[1].phase \notin {"wait", "late"},
         list' \in [Lists -> Seq(AnyNode)], casting' \in [Lists -> Nat], cleanup' \in [Lists -> BOOLEAN]
  PROVE  DelegatesInv'
<1>1. ContainersTyped'
  BY DEF DelegatesInv, ContainersTyped
<1>2. ResultsOwn' /\ Pinned'
  BY ResultsUntouched
<1> QED
  BY <1>1, <1>2 DEF DelegatesInv

LEMMA ListsTyped ==
  ASSUME DelegatesInv, NodesStay
  PROVE  list' \in [Lists -> Seq(AnyNode)] /\ casting' \in [Lists -> Nat] /\ cleanup' \in [Lists -> BOOLEAN]
  BY DEF DelegatesInv, ContainersTyped, NodesStay

LEMMA CastNodeKept ==
  ASSUME DelegatesInv, CastNode
  PROVE  DelegatesInv'
<1>1. stack # <<>> /\ Top.phase = "next" /\ Top.node # 0 /\ UNCHANGED <<slot, list, casting, cleanup, inbox, worker, owned, ops, calls>>
  BY DEF CastNode, Iterating, conts
<1>2. PICK fr : fr = stack[1]
  OBVIOUS
<1>3. fr \in AnyFrame /\ FrameIs(fr, list) /\ fr.phase = "next" /\ fr.node # 0 /\ Top = fr
  BY <1>1, <1>2, TopIs
<1>4. fr.list # Nil /\ fr.list \in Lists
  BY <1>3 DEF FrameIs, FrameShape, AnyFrame
<1>5. PICK s : s = list[fr.list]
  OBVIOUS
<1>6. s \in Seq(AnyNode) /\ Distinct(s) /\ CalledSoFar(fr, s)
  BY <1>3, <1>4, <1>5, ListIs DEF FrameIs
<1>7. fr.node \in IdsOf(s)
  BY <1>3, <1>6 DEF CalledSoFar
<1>8. PICK p : p = PlaceIn(s, fr.node)
  OBVIOUS
<1>9. p \in DOMAIN s /\ s[p].id = fr.node /\ \A i \in DOMAIN s : s[i].id = fr.node => i = p
  BY <1>6, <1>7, <1>8, PlaceIs
<1>10. At(fr.list, fr.node) = s[p].d
  BY <1>5, <1>7, <1>8, ListOperators
<1>11. NodesStay
  BY <1>1, UnchangedNodesStay DEF DelegatesInv
<1>12. CASE s[p].d = Unbound
  <2>1. PICK g : g = [fr EXCEPT !.node = After(fr.list, fr.node)]
    OBVIOUS
  <2>2. stack' = [stack EXCEPT ![1] = g]
    BY <1>2, <1>3, <1>10, <1>12, <2>1 DEF CastNode
  <2>3. AfterIn(s, fr.node) = After(fr.list, fr.node) /\ AfterIn(s, fr.node) \in 0..MaxNodes
    BY <1>5, <1>6, <1>7, AfterIs, ListOperators
  <2>4. /\ g \in AnyFrame /\ g.list = fr.list /\ g.phase = "next" /\ g.d = fr.d /\ g.n = fr.n /\ g.got = fr.got
        /\ g.node = AfterIn(s, fr.node) /\ g.called = fr.called
    BY <1>3, <2>1, <2>3 DEF AnyFrame
  <2>5. ~NodeBound(s, fr.node)
    BY <1>9, <1>12 DEF NodeBound
  <2>6. CalledSoFar(g, s)
    BY <1>3, <1>6, <2>4, <2>5, GoesOn
  <2>7. FrameIs(g, list)
    BY <1>3, <1>4, <1>5, <2>4, <2>6 DEF FrameIs, FrameShape
  <2>8. FrameIs(g, list')
    BY <1>1, <2>7
  <2>9. g.phase \notin Busy
    BY <2>4 DEF Busy
  <2>10. /\ NodesKept' /\ FramesKept' /\ stack' \in Seq(AnyFrame) /\ Len(stack') <= MaxDepth /\ stack'[1] = g
    BY <1>1, <1>2, <1>11, <2>2, <2>4, <2>8, <2>9, TopStays DEF DelegatesInv
  <2> QED
    BY <1>1, <1>11, <2>4, <2>10, CallKept, ListsTyped
<1>13. CASE s[p].d # Unbound
  <2>1. PICK g : g = [fr EXCEPT !.phase = "enter", !.d = s[p].d, !.called = Append(fr.called, fr.node)]
    OBVIOUS
  <2>2. stack' = [stack EXCEPT ![1] = g]
    BY <1>2, <1>3, <1>10, <1>13, <2>1 DEF CastNode
  <2>3. s[p].d \in AnyDelegate /\ fr.node \in 1..MaxNodes
    BY <1>6, <1>9, IdsAre
  <2>4. Append(fr.called, fr.node) \in Seq(1..MaxNodes)
    <3>1. fr.called \in Seq(1..MaxNodes)
      BY <1>3 DEF AnyFrame
    <3> QED
      BY <2>3, <3>1
  <2>5. /\ g \in AnyFrame /\ g.list = fr.list /\ g.phase = "enter" /\ g.d = s[p].d /\ g.n = fr.n /\ g.got = fr.got
        /\ g.node = fr.node /\ g.called = Append(fr.called, fr.node)
    BY <1>3, <2>1, <2>3, <2>4 DEF AnyFrame, Phases
  <2>6. CalledSoFar(g, s)
    BY <1>3, <1>6, <2>5, CallsNode
  <2>7. FrameIs(g, list)
    BY <1>3, <1>4, <1>5, <1>13, <2>5, <2>6 DEF FrameIs, FrameShape
  <2>8. FrameIs(g, list')
    BY <1>1, <2>7
  <2>9. NodeBound(s, fr.node)
    BY <1>9, <1>13 DEF NodeBound
  <2>10. NodeBound(list'[g.list], g.node)
    BY <1>1, <1>5, <2>5, <2>9
  <2>11. /\ NodesKept' /\ FramesKept' /\ stack' \in Seq(AnyFrame) /\ Len(stack') <= MaxDepth /\ stack'[1] = g
    BY <1>1, <1>2, <1>11, <2>2, <2>5, <2>8, <2>10, TopStays DEF DelegatesInv
  <2> QED
    BY <1>1, <1>11, <2>5, <2>11, CallKept, ListsTyped
<1> QED
  BY <1>12, <1>13

LEMMA CastEndKept ==
  ASSUME DelegatesInv, CastEnd
  PROVE  DelegatesInv'
<1>1. /\ stack # <<>> /\ Top.phase = "next" /\ stack' = Tail(stack) /\ LeaveGuard(Top.list)
      /\ UNCHANGED <<slot, inbox, worker, owned, ops, calls>>
  BY DEF CastEnd, Iterating
<1>2. Top = stack[1] /\ stack[1].list # Nil
  BY <1>1, TopIs DEF FrameIs, FrameShape
<1>3. /\ NodesKept' /\ FramesKept' /\ stack' \in Seq(AnyFrame) /\ Len(stack') <= MaxDepth
      /\ stack' # <<>> => stack'[1].phase = "run"
      /\ list' \in [Lists -> Seq(AnyNode)] /\ casting' \in [Lists -> Nat] /\ cleanup' \in [Lists -> BOOLEAN]
  BY <1>1, <1>2, BroadcastLeaves DEF DelegatesInv
<1> QED
  BY <1>1, <1>3, CallKept

(* operator() has returned and left the lists alone.                       *)
LEMMA ReturnedAlone ==
  ASSUME DelegatesInv, stack # <<>>, Top.phase # "next", stack' = Returned(stack),
         UNCHANGED <<slot, list, casting, cleanup, inbox, worker, owned, ops, calls>>
  PROVE  DelegatesInv'
<1>1. NodesStay /\ stack[1].phase # "next"
  BY TopIs, UnchangedNodesStay DEF DelegatesInv
<1>2. /\ NodesKept' /\ FramesKept' /\ stack' \in Seq(AnyFrame) /\ Len(stack') <= MaxDepth
      /\ stack' # <<>> => stack'[1].phase \notin {"wait", "late"}
  BY <1>1, ReturnedKept DEF DelegatesInv
<1> QED
  BY <1>1, <1>2, CallKept, ListsTyped

LEMMA LateReturnsKept == ASSUME DelegatesInv, LateReturns PROVE DelegatesInv'
  BY ReturnedAlone DEF LateReturns, conts

LEMMA TargetReturnsKept == ASSUME DelegatesInv, TargetReturns PROVE DelegatesInv'
  BY ReturnedAlone DEF TargetReturns, conts

LEMMA TargetThrowsKept ==
  ASSUME DelegatesInv, TargetThrows
  PROVE  DelegatesInv'
<1>1. /\ stack # <<>> /\ stack' = Tail(stack) /\ UNCHANGED <<slot, inbox, worker, owned, ops, calls>>
      /\ IF Top.list = Nil THEN UNCHANGED <<list, casting, cleanup>> ELSE LeaveGuard(Top.list)
  BY DEF TargetThrows
<1>2. Top = stack[1]
  BY <1>1, TopIs
<1>3. CASE Top.list = Nil
  <2>1. NodesStay
    BY <1>1, <1>3, UnchangedNodesStay DEF DelegatesInv
  <2>2. /\ NodesKept' /\ FramesKept' /\ stack' \in Seq(AnyFrame) /\ Len(stack') <= MaxDepth
        /\ stack' # <<>> => stack'[1].phase = "run"
    BY <1>1, <1>2, <1>3, <2>1, UnicastLeaves DEF DelegatesInv
  <2> QED
    BY <1>1, <2>1, <2>2, CallKept, ListsTyped
<1>4. CASE Top.list # Nil
  <2>1. /\ NodesKept' /\ FramesKept' /\ stack' \in Seq(AnyFrame) /\ Len(stack') <= MaxDepth
        /\ stack' # <<>> => stack'[1].phase = "run"
        /\ list' \in [Lists -> Seq(AnyNode)] /\ casting' \in [Lists -> Nat] /\ cleanup' \in [Lists -> BOOLEAN]
    BY <1>1, <1>2, <1>4, BroadcastLeaves DEF DelegatesInv
  <2> QED
    BY <1>1, <2>1, CallKept
<1> QED
  BY <1>3, <1>4

(* The innermost frame goes on with its call.                              *)
LEMMA GoingOnKept ==
  ASSUME DelegatesInv, NodesStay, stack # <<>>, stack[1].phase \in Busy,
         NEW g \in AnyFrame, stack' = [stack EXCEPT ![1] = g],
         g.slot = stack[1].slot, g.list = stack[1].list, g.node = stack[1].node, g.called = stack[1].called,
         g.phase # "next", FrameShape(g)
  PROVE  NodesKept' /\ FramesKept' /\ stack' \in Seq(AnyFrame) /\ Len(stack') <= MaxDepth /\ stack' # <<>> /\ stack'[1] = g
<1>1. PICK fr : fr = stack[1]
  OBVIOUS
<1>2. fr \in AnyFrame /\ FrameIs(fr, list) /\ fr.phase # "next"
  BY <1>1, TopIs DEF Busy
<1>3. ASSUME fr.list # Nil PROVE CalledSoFar(g, list[fr.list])
  <2>1. CalledSoFar(fr, list[fr.list])
    BY <1>2, <1>3 DEF FrameIs
  <2> QED
    BY <1>1, <1>2, <2>1 DEF CalledSoFar
<1>4. FrameIs(g, list)
  BY <1>1, <1>3 DEF FrameIs
<1>5. ContainersTyped /\ NodesKept /\ FramesKept
  BY DEF DelegatesInv
<1>6. FrameIs(g, list')
  BY <1>4, <1>5, FrameStays
<1>7. ASSUME g.list # Nil PROVE NodeBound(list'[g.list], g.node)
  <2>1. PICK s, t, x : s = list[g.list] /\ t = list'[g.list] /\ x = g.node
    OBVIOUS
  <2>2. g.list \in Lists
    BY <1>7 DEF AnyFrame
  <2>3. s \in Seq(AnyNode) /\ t \in Seq(AnyNode) /\ SameNodes(s, t)
    BY <1>5, <2>1, <2>2 DEF ContainersTyped, NodesStay
  <2>4. NodeBound(s, x)
    BY <1>1, <1>5, <1>7, <2>1 DEF FramesKept
  <2> QED
    BY <2>1, <2>3, <2>4, SameNodesAre
<1> QED
  BY <1>5, <1>6, <1>7, TopStays
(* The delegate of a frame changes in its container.                       *)
LEMMA RewriteStays ==
  ASSUME DelegatesInv, stack # <<>>, stack[1].phase \in Busy, NEW d \in AnyDelegate, d # Unbound,
         Rewrite(stack[1], d), UNCHANGED <<casting, cleanup>>
  PROVE  NodesStay /\ slot' \in [Slots -> AnyDelegate]
<1>1. PICK fr : fr = stack[1]
  OBVIOUS
<1>2. fr \in AnyFrame /\ FrameIs(fr, list)
  BY <1>1, TopIs
<1>3. slot \in [Slots -> AnyDelegate] /\ list \in [Lists -> Seq(AnyNode)]
  BY DEF DelegatesInv, ContainersTyped
<1>4. CASE fr.list = Nil
  <2>1. slot' = [slot EXCEPT ![fr.slot] = d] /\ UNCHANGED list /\ fr.slot \in Slots
    BY <1>1, <1>2, <1>4 DEF Rewrite, FrameIs, FrameShape
  <2>2. NodesStay
    BY <2>1, UnchangedNodesStay DEF DelegatesInv
  <2> QED
    BY <1>3, <2>1, <2>2
<1>5. CASE fr.list # Nil
  <2>1. PICK l, s : l = fr.list /\ s = list[l]
    OBVIOUS
  <2>2. l \in Lists /\ s \in Seq(AnyNode) /\ Distinct(s) /\ l # Nil
    BY <1>2, <1>5, <2>1, ListIs DEF AnyFrame
  <2>3. NodeBound(s, fr.node)
    BY <1>1, <1>5, <2>1 DEF DelegatesInv, FramesKept
  <2>4. PICK t : t = [i \in DOMAIN s |-> IF s[i].id = fr.node THEN [s[i] EXCEPT !.d = d] ELSE s[i]]
    OBVIOUS
  <2>5. list' = [list EXCEPT ![l] = t] /\ slot' = slot
    BY <1>1, <1>3, <2>1, <2>2, <2>4 DEF Rewrite
  <2>6. PICK n : n = Len(s)
    OBVIOUS
  <2>7. n \in Nat /\ DOMAIN s = 1..n /\ \A i \in 1..n : s[i] \in AnyNode
    BY <2>2, <2>6
  <2>8. ASSUME NEW i \in 1..n PROVE t[i] \in AnyNode /\ t[i].id = s[i].id /\ (t[i].d # Unbound <=> s[i].d # Unbound)
    <3>1. PICK e : e = [s[i] EXCEPT !.d = d]
      OBVIOUS
    <3>2. e \in AnyNode /\ e.id = s[i].id /\ e.d = d
      BY <2>7, <3>1 DEF AnyNode
    <3>3. t[i] = IF s[i].id = fr.node THEN e ELSE s[i]
      BY <2>4, <2>7, <3>1
    <3>4. s[i].id = fr.node => s[i].d # Unbound
      BY <2>2, <2>3, <2>7 DEF NodeBound, Distinct
    <3> QED
      BY <2>7, <3>2, <3>3, <3>4
  <2>9. t \in [1..n -> AnyNode]
    BY <2>4, <2>7, <2>8
  <2>10. t \in Seq(AnyNode) /\ Len(t) = n
    BY <2>7, <2>9
  <2>11. SameNodes(s, t)
    BY <2>6, <2>7, <2>8, <2>10 DEF SameNodes
  <2>12. list' \in [Lists -> Seq(AnyNode)] /\ list'[l] = t /\ \A x \in Lists : x # l => list'[x] = list[x]
    BY <1>3, <2>2, <2>5, <2>10
  <2>13. \A x \in Lists : SameNodes(list[x], list'[x])
    BY <1>3, <2>1, <2>11, <2>12, SameNodesItself
  <2> QED
    BY <1>3, <2>5, <2>12, <2>13 DEF NodesStay
<1> QED
  BY <1>4, <1>5

LEMMA BusyTop ==
  ASSUME DelegatesInv, stack # <<>>, Top.phase \in Busy
  PROVE  /\ Top = stack[1] /\ stack[1] \in AnyFrame /\ stack[1].phase \in Busy /\ stack[1].phase # "next"
         /\ stack[1].d \in AnyDelegate /\ stack[1].d # Unbound /\ FrameShape(stack[1])
<1>1. Top = stack[1] /\ stack[1] \in AnyFrame /\ FrameIs(stack[1], list)
  BY TopIs
<1>2. stack[1].phase # "next" /\ stack[1].phase \in Busy
  BY <1>1 DEF Busy
<1>3. FrameShape(stack[1]) /\ stack[1].d \in AnyDelegate
  BY <1>1 DEF FrameIs, AnyFrame
<1>4. stack[1].d # Unbound
  BY <1>2, <1>3 DEF FrameShape
<1> QED
  BY <1>1, <1>2, <1>3, <1>4

LEMMA RunHereKept ==
  ASSUME DelegatesInv, stack # <<>>, Top.phase = "enter", NEW empty \in BOOLEAN, NEW pin \in Objs \cup {Nil},
         RunHere(empty, pin), ~empty /\ Top.d.own = "weak" => pin = Top.d.obj
  PROVE  DelegatesInv'
<1>1. /\ UNCHANGED <<slot, list, casting, cleanup, inbox, worker, owned, ops, calls>>
      /\ stack' = IF empty THEN Returned(stack) ELSE [stack EXCEPT ![1].phase = "run", ![1].pin = pin]
  BY DEF RunHere, conts
<1>2. CASE empty
  BY <1>1, <1>2, ReturnedAlone
<1>3. CASE ~empty
  <2>1. PICK fr, g : fr = stack[1] /\ g = [fr EXCEPT !.phase = "run", !.pin = pin]
    OBVIOUS
  <2>2. fr \in AnyFrame /\ fr.d # Unbound /\ FrameShape(fr) /\ fr.phase = "enter" /\ Top = fr /\ fr.phase \in Busy
    BY <2>1, BusyTop DEF Busy
  <2>3. stack' = [stack EXCEPT ![1] = g]
    BY <1>1, <1>3, <2>1
  <2>4. /\ g \in AnyFrame /\ g.phase = "run" /\ g.pin = pin /\ g.slot = fr.slot /\ g.list = fr.list /\ g.node = fr.node
        /\ g.called = fr.called /\ g.d = fr.d /\ g.n = fr.n /\ g.got = fr.got
    BY <2>1, <2>2 DEF AnyFrame, Phases
  <2>5. FrameShape(g)
    BY <1>3, <2>2, <2>4 DEF FrameShape
  <2>6. NodesStay
    BY <1>1, UnchangedNodesStay DEF DelegatesInv
  <2>7. NodesKept' /\ FramesKept' /\ stack' \in Seq(AnyFrame) /\ Len(stack') <= MaxDepth /\ stack'[1] = g
    BY <2>1, <2>2, <2>3, <2>4, <2>5, <2>6, GoingOnKept
  <2> QED
    BY <1>1, <2>4, <2>6, <2>7, CallKept, ListsTyped
<1> QED
  BY <1>2, <1>3

(* A weak delegate that is not empty has locked its object; the others     *)
(* have none to lock.                                                      *)
LEMMA LockIs ==
  ASSUME NEW d \in AnyDelegate, NEW A
  PROVE  /\ Lock(d, A) \in Objs \cup {Nil} /\ (~MemberSpEmpty(d, A) => Lock(d, A) = d.obj)
         /\ MemberSpEmpty(d, A) \in BOOLEAN /\ FreeEmpty(d) \in BOOLEAN /\ MemberEmpty(d) \in BOOLEAN /\ FunctionEmpty(d) \in BOOLEAN
<1>1. d.obj \in Objs \cup {Nil}
  BY DEF AnyDelegate, Records
<1> QED
  BY <1>1 DEF Lock, MemberSpEmpty, FreeEmpty, MemberEmpty, FunctionEmpty

LEMMA FullIs ==
  ASSUME NEW d \in AnyDelegate, d # Unbound
  PROVE  /\ d.cls = "Free" => d.own # "weak" /\ ~FreeEmpty(d)
         /\ d.cls = "Function" => d.own # "weak" /\ ~FunctionEmpty(d)
         /\ d.cls = "Member" => d.own # "weak" /\ ~MemberEmpty(d)
         /\ d.cls = "MemberSp" => d.own = "weak"
  BY BoundIsMade, NilIsSpecial DEF MadeOfClass, FreeEmpty, FunctionEmpty, MemberEmpty

LEMMA SyncCallKept ==
  ASSUME DelegatesInv, FreeCall \/ MemberCall \/ MemberSpCall \/ FunctionCall
  PROVE  DelegatesInv'
<1>1. stack # <<>> /\ Top.phase = "enter"
  BY DEF FreeCall, MemberCall, MemberSpCall, FunctionCall, Entered
<1>2. Top.d \in AnyDelegate /\ Top.d # Unbound
  BY <1>1, BusyTop DEF Busy
<1>3. Nil \in Objs \cup {Nil}
  OBVIOUS
<1>4. CASE FreeCall
  <2>1. RunHere(FreeEmpty(Top.d), Nil) /\ Top.d.cls = "Free"
    BY <1>4 DEF FreeCall, Entered
  <2>2. FreeEmpty(Top.d) \in BOOLEAN /\ Top.d.own # "weak"
    BY <1>2, <2>1, LockIs, FullIs
  <2> QED
    BY <1>1, <1>3, <2>1, <2>2, RunHereKept
<1>5. CASE MemberCall
  <2>1. RunHere(MemberEmpty(Top.d), Nil) /\ Top.d.cls = "Member"
    BY <1>5 DEF MemberCall, Entered
  <2>2. MemberEmpty(Top.d) \in BOOLEAN /\ Top.d.own # "weak"
    BY <1>2, <2>1, LockIs, FullIs
  <2> QED
    BY <1>1, <1>3, <2>1, <2>2, RunHereKept
<1>6. CASE MemberSpCall
  <2>1. RunHere(MemberSpEmpty(Top.d, Alive), Lock(Top.d, Alive))
    BY <1>6 DEF MemberSpCall
  <2>2. /\ MemberSpEmpty(Top.d, Alive) \in BOOLEAN /\ Lock(Top.d, Alive) \in Objs \cup {Nil}
        /\ ~MemberSpEmpty(Top.d, Alive) => Lock(Top.d, Alive) = Top.d.obj
    BY <1>2, LockIs
  <2> QED
    BY <1>1, <2>1, <2>2, RunHereKept
<1>7. CASE FunctionCall
  <2>1. RunHere(FunctionEmpty(Top.d), Nil) /\ Top.d.cls = "Function"
    BY <1>7 DEF FunctionCall, Entered
  <2>2. FunctionEmpty(Top.d) \in BOOLEAN /\ Top.d.own # "weak"
    BY <1>2, <2>1, LockIs, FullIs
  <2> QED
    BY <1>1, <1>3, <2>1, <2>2, RunHereKept
<1> QED
  BY <1>4, <1>5, <1>6, <1>7

(* A message to the worker.                                                *)
LEMMA DispatchIs ==
  ASSUME DelegatesInv, NEW m \in AnyMessage, DispatchDelegate(m)
  PROVE  inbox' \in Seq(AnyMessage) /\ Len(inbox') <= Cap /\ \A x \in ToSet(inbox') : x \in ToSet(inbox) \/ x = m
<1>1. PICK q, n : q = inbox /\ n = Len(q)
  OBVIOUS
<1>2. q \in Seq(AnyMessage) /\ n <= Cap /\ n \in Nat /\ Cap \in Nat /\ DOMAIN q = 1..n
  BY <1>1, DelegatesConstants DEF DelegatesInv, ContainersTyped
<1>3. CASE n < Cap
  <2>1. inbox' = Append(q, m)
    BY <1>1, <1>3 DEF DispatchDelegate
  <2>2. PICK r : r = Append(q, m)
    OBVIOUS
  <2>3. /\ r \in Seq(AnyMessage) /\ Len(r) = n + 1 /\ DOMAIN r = 1..n + 1 /\ r[n + 1] = m
        /\ \A i \in 1..n : r[i] = q[i]
    BY <1>1, <1>2, <2>2
  <2>4. \A i \in 1..n + 1 : i \in 1..n \/ i = n + 1
    BY <1>2
  <2>5. \A x \in ToSet(r) : x \in ToSet(q) \/ x = m
    BY <1>2, <2>3, <2>4 DEF ToSet
  <2> QED
    BY <1>1, <1>2, <1>3, <2>1, <2>2, <2>3, <2>5
<1>4. CASE ~(n < Cap)
  BY <1>1, <1>2, <1>4 DEF DispatchDelegate
<1> QED
  BY <1>3, <1>4

LEMMA SendCloneKept ==
  ASSUME DelegatesInv, stack # <<>>, Top.phase = "enter", NEW empty, SendClone(empty)
  PROVE  DelegatesInv'
<1>1. /\ stack' = Returned(stack) /\ UNCHANGED <<slot, list, casting, cleanup, worker, owned, ops, calls>>
      /\ IF empty THEN UNCHANGED inbox ELSE DispatchDelegate([d |-> Clone(Top.d), n |-> 0])
  BY DEF SendClone, conts
<1>2. Top = stack[1] /\ Top.d \in AnyDelegate /\ Top.d # Unbound /\ stack[1].phase # "next"
  BY BusyTop DEF Busy
<1>3. NodesStay
  BY <1>1, UnchangedNodesStay DEF DelegatesInv
<1>4. /\ NodesKept' /\ FramesKept' /\ stack' \in Seq(AnyFrame) /\ Len(stack') <= MaxDepth
      /\ stack' # <<>> => stack'[1].phase \notin {"wait", "late"}
  BY <1>1, <1>2, <1>3, ReturnedKept DEF DelegatesInv
<1>5. PICK m : m = [d |-> Clone(Top.d), n |-> 0]
  OBVIOUS
<1>6. m \in AnyMessage /\ m.n = 0
  <2>1. PICK c : c = Clone(Top.d)
    OBVIOUS
  <2>2. c \in AnyDelegate /\ c # Unbound
    BY <1>2, <2>1, CloneIs
  <2> QED
    BY <1>5, <2>1, <2>2 DEF AnyMessage
<1>7. inbox' \in Seq(AnyMessage) /\ Len(inbox') <= Cap /\ \A x \in ToSet(inbox') : x \in ToSet(inbox) \/ x.n = 0
  <2>1. CASE empty
    BY <1>1, <2>1 DEF DelegatesInv, ContainersTyped
  <2>2. CASE ~empty
    BY <1>1, <1>5, <1>6, <2>2, DispatchIs
  <2> QED
    BY <2>1, <2>2
<1>8. ContainersTyped'
  BY <1>1, <1>4, <1>7 DEF DelegatesInv, ContainersTyped
<1>9. Pinned'
  BY <1>1 DEF DelegatesInv, Pinned
<1>10. ResultsOwn'
  <2>1. \A x \in ToSet(inbox) : x.n <= calls
    BY DEF DelegatesInv, ResultsOwn
  <2>2. calls \in Nat /\ calls' = calls /\ worker' = worker /\ worker.n <= calls
    BY <1>1 DEF DelegatesInv, ContainersTyped, ResultsOwn
  <2>3. \A x \in ToSet(inbox') : x.n <= calls
    BY <1>7, <2>1, <2>2
  <2> QED
    BY <1>4, <2>2, <2>3 DEF ResultsOwn
<1> QED
  BY <1>4, <1>8, <1>9, <1>10 DEF DelegatesInv

LEMMA AsyncCallKept ==
  ASSUME DelegatesInv, FreeAsyncCall \/ MemberAsyncCall \/ MemberSpAsyncCall \/ FunctionAsyncCall
  PROVE  DelegatesInv'
<1>1. stack # <<>> /\ Top.phase = "enter" /\ \E empty : SendClone(empty)
  BY DEF FreeAsyncCall, MemberAsyncCall, MemberSpAsyncCall, FunctionAsyncCall, Entered
<1> QED
  BY <1>1, SendCloneKept
(* A blocking call.                                                        *)
LEMMA SendCloneAndWaitKept ==
  ASSUME DelegatesInv, stack # <<>>, Top.phase = "enter", NEW empty, SendCloneAndWait(empty)
  PROVE  DelegatesInv'
<1>1. PICK c, d, fr : c = calls + 1 /\ fr = stack[1] /\ d = [fr.d EXCEPT !.ok = FALSE, !.val = Nil, !.n = c]
  OBVIOUS
<1>2. /\ Top = fr /\ fr \in AnyFrame /\ fr.phase = "enter" /\ fr.phase \in Busy /\ fr.phase # "next"
      /\ fr.d \in AnyDelegate /\ fr.d # Unbound /\ FrameShape(fr)
  BY <1>1, BusyTop DEF Busy
<1>3. c \in Nat /\ c = calls + 1 /\ calls \in Nat
  BY <1>1 DEF DelegatesInv, ContainersTyped
<1>4. d \in AnyDelegate /\ d # Unbound /\ d.n = c /\ d.own = fr.d.own
  BY <1>1, <1>2, <1>3, ForgetsIs
<1>5. /\ Rewrite(fr, d) /\ calls' = c /\ UNCHANGED <<casting, cleanup, worker, owned, ops>>
      /\ IF empty \/ Len(inbox) >= Cap
         THEN UNCHANGED inbox /\ stack' = Returned(stack)
         ELSE /\ DispatchDelegate([d |-> Clone(d), n |-> c])
              /\ stack' = [stack EXCEPT ![1].phase = "wait", ![1].n = c, ![1].d = d]
  BY <1>1, <1>2 DEF SendCloneAndWait
<1>6. NodesStay /\ slot' \in [Slots -> AnyDelegate]
  BY <1>1, <1>2, <1>4, <1>5, RewriteStays
<1>7. list' \in [Lists -> Seq(AnyNode)] /\ casting' \in [Lists -> Nat] /\ cleanup' \in [Lists -> BOOLEAN]
  BY <1>6, ListsTyped
<1>8. /\ worker.n \in Nat /\ worker.n <= c /\ \A x \in ToSet(inbox) : x.n \in Nat /\ x.n <= calls /\ x.n <= c /\ x.n # c
  <2>1. worker.n \in Nat /\ worker.n <= calls
    BY DEF DelegatesInv, ContainersTyped, ResultsOwn, AnyWork
  <2>2. ASSUME NEW x \in ToSet(inbox) PROVE x.n \in Nat /\ x.n <= calls
    <3>1. x \in AnyMessage
      BY DEF DelegatesInv, ContainersTyped, ToSet
    <3> QED
      BY <3>1 DEF AnyMessage, DelegatesInv, ResultsOwn
  <2>3. \A n \in Nat : n <= calls => n <= c /\ n # c
    BY <1>3
  <2> QED
    BY <2>1, <2>2, <2>3
<1>9. Pinned'
  BY <1>5 DEF DelegatesInv, Pinned
<1>10. CASE empty \/ Len(inbox) >= Cap
  <2>1. UNCHANGED inbox /\ stack' = Returned(stack)
    BY <1>5, <1>10
  <2>2. /\ NodesKept' /\ FramesKept' /\ stack' \in Seq(AnyFrame) /\ Len(stack') <= MaxDepth
        /\ stack' # <<>> => stack'[1].phase \notin {"wait", "late"}
    BY <1>1, <1>2, <1>6, <2>1, ReturnedKept DEF DelegatesInv
  <2>3. ContainersTyped'
    BY <1>3, <1>5, <1>6, <1>7, <2>1, <2>2 DEF DelegatesInv, ContainersTyped
  <2>4. ResultsOwn'
    BY <1>5, <1>8, <2>1, <2>2 DEF ResultsOwn
  <2> QED
    BY <1>9, <2>2, <2>3, <2>4 DEF DelegatesInv
<1>11. CASE ~(empty \/ Len(inbox) >= Cap)
  <2>1. PICK m, g : m = [d |-> Clone(d), n |-> c] /\ g = [fr EXCEPT !.phase = "wait", !.n = c, !.d = d]
    OBVIOUS
  <2>2. DispatchDelegate(m) /\ stack' = [stack EXCEPT ![1] = g]
    BY <1>1, <1>5, <1>11, <2>1
  <2>3. m \in AnyMessage /\ m.n = c /\ m.d.own = fr.d.own
    <3>1. PICK e : e = Clone(d)
      OBVIOUS
    <3>2. e \in AnyDelegate /\ e # Unbound /\ e.own = d.own
      BY <1>4, <3>1, CloneIs
    <3> QED
      BY <1>3, <1>4, <2>1, <3>1, <3>2 DEF AnyMessage
  <2>4. inbox' \in Seq(AnyMessage) /\ Len(inbox') <= Cap /\ \A x \in ToSet(inbox') : x \in ToSet(inbox) \/ x = m
    BY <2>2, <2>3, DispatchIs
  <2>5. /\ g \in AnyFrame /\ g.phase = "wait" /\ g.n = c /\ g.d = d /\ g.slot = fr.slot /\ g.list = fr.list
        /\ g.node = fr.node /\ g.called = fr.called /\ g.pin = fr.pin /\ g.got = fr.got
    BY <1>2, <1>3, <1>4, <2>1 DEF AnyFrame, Phases
  <2>6. g.got = Nil
    BY <1>2, <2>5 DEF FrameShape
  <2>7. FrameShape(g)
    BY <1>2, <1>4, <2>5 DEF FrameShape
  <2>8. g.phase # "next" /\ stack[1].phase \in Busy
    BY <1>1, <1>2, <2>5
  <2>9. NodesKept' /\ FramesKept' /\ stack' \in Seq(AnyFrame) /\ Len(stack') <= MaxDepth /\ stack' # <<>> /\ stack'[1] = g
    BY <1>1, <1>6, <2>2, <2>5, <2>7, <2>8, GoingOnKept
  <2>10. ContainersTyped'
    BY <1>3, <1>5, <1>6, <1>7, <2>4, <2>9 DEF DelegatesInv, ContainersTyped
  <2>11. ResultsOwn'
    <3>1. \A x \in ToSet(inbox') : x.n <= c /\ (x.n = c => x.d.own = d.own)
      BY <1>3, <1>4, <1>8, <2>3, <2>4
    <3>2. c \in 1..c
      BY <1>3
    <3> QED
      BY <1>4, <1>5, <1>8, <2>5, <2>6, <2>9, <3>1, <3>2 DEF ResultsOwn
  <2> QED
    BY <1>9, <2>9, <2>10, <2>11 DEF DelegatesInv
<1> QED
  BY <1>10, <1>11

LEMMA WaitCallKept ==
  ASSUME DelegatesInv, FreeAsyncWaitCall \/ MemberAsyncWaitCall \/ MemberSpAsyncWaitCall \/ FunctionAsyncWaitCall
  PROVE  DelegatesInv'
<1>1. stack # <<>> /\ Top.phase = "enter" /\ \E empty : SendCloneAndWait(empty)
  BY DEF FreeAsyncWaitCall, MemberAsyncWaitCall, MemberSpAsyncWaitCall, FunctionAsyncWaitCall, Entered
<1> QED
  BY <1>1, SendCloneAndWaitKept

LEMMA WaitReturnsKept ==
  ASSUME DelegatesInv, WaitReturns
  PROVE  DelegatesInv'
<1>1. PICK fr, d : fr = stack[1] /\ d = [fr.d EXCEPT !.ok = TRUE, !.val = fr.got]
  OBVIOUS
<1>2. stack # <<>> /\ Top.phase = "wait" /\ Top.got # Nil
  BY DEF WaitReturns
<1>3. /\ Top = fr /\ fr \in AnyFrame /\ fr.phase = "wait" /\ fr.phase \in Busy /\ fr.phase # "next" /\ fr.got # Nil
      /\ fr.d \in AnyDelegate /\ fr.d # Unbound
  BY <1>1, <1>2, BusyTop DEF Busy
<1>4. fr.got \in Nat /\ (fr.got = fr.d.n \/ (fr.d.own = "weak" /\ fr.got = 0))
  <2>1. fr.n \in 1..calls /\ fr.d.n = fr.n /\ (fr.got \in {Nil, fr.n} \/ (fr.got = 0 /\ fr.d.own = "weak"))
    BY <1>1, <1>2, <1>3 DEF DelegatesInv, ResultsOwn
  <2>2. fr.got \in Nat
    BY <1>3 DEF AnyFrame
  <2> QED
    BY <1>3, <2>1, <2>2
<1>5. d \in AnyDelegate /\ d # Unbound
  BY <1>1, <1>3, <1>4, KeepsIs
<1>6. Rewrite(fr, d) /\ stack' = Returned(stack) /\ UNCHANGED <<casting, cleanup, inbox, worker, owned, ops, calls>>
  BY <1>1, <1>3 DEF WaitReturns
<1>7. NodesStay /\ slot' \in [Slots -> AnyDelegate]
  BY <1>1, <1>2, <1>3, <1>5, <1>6, RewriteStays
<1>8. /\ NodesKept' /\ FramesKept' /\ stack' \in Seq(AnyFrame) /\ Len(stack') <= MaxDepth
      /\ stack' # <<>> => stack'[1].phase \notin {"wait", "late"}
  BY <1>1, <1>2, <1>3, <1>6, <1>7, ReturnedKept DEF DelegatesInv
<1>9. list' \in [Lists -> Seq(AnyNode)] /\ casting' \in [Lists -> Nat] /\ cleanup' \in [Lists -> BOOLEAN]
  BY <1>7, ListsTyped
<1>10. ContainersTyped'
  BY <1>6, <1>7, <1>8, <1>9 DEF DelegatesInv, ContainersTyped
<1>11. ResultsOwn' /\ Pinned'
  BY <1>6, <1>8, ResultsUntouched
<1> QED
  BY <1>8, <1>10, <1>11 DEF DelegatesInv

(* The frame that waits gets late or gets its result.                      *)
LEMMA WaitingKept ==
  ASSUME DelegatesInv, stack # <<>>, stack[1].phase \in {"wait", "late"}, NEW g \in AnyFrame,
         stack' = [stack EXCEPT ![1] = g], UNCHANGED <<slot, list, casting, cleanup, owned, ops, calls>>,
         g.slot = stack[1].slot, g.list = stack[1].list, g.node = stack[1].node, g.called = stack[1].called,
         g.d = stack[1].d, g.n = stack[1].n, g.phase \in {"wait", "late"},
         g.got \in {Nil, g.n} \/ (g.got = 0 /\ g.d.own = "weak"),
         inbox' \in Seq(AnyMessage), Len(inbox') <= Cap, ToSet(inbox') \subseteq ToSet(inbox),
         worker' \in AnyWork, worker'.n <= calls, worker'.d.own = "weak" => worker'.pin = worker'.d.obj
  PROVE  DelegatesInv'
<1>1. stack[1].phase \in Busy /\ stack[1].d # Unbound /\ FrameShape(stack[1])
  BY TopIs, BusyTop DEF Busy
<1>2. FrameShape(g) /\ g.phase # "next"
  BY <1>1 DEF FrameShape
<1>3. NodesStay
  BY UnchangedNodesStay DEF DelegatesInv
<1>4. NodesKept' /\ FramesKept' /\ stack' \in Seq(AnyFrame) /\ Len(stack') <= MaxDepth /\ stack' # <<>> /\ stack'[1] = g
  BY <1>1, <1>2, <1>3, GoingOnKept
<1>5. ContainersTyped'
  BY <1>4 DEF DelegatesInv, ContainersTyped
<1>6. Pinned'
  BY DEF Pinned
<1>7. ResultsOwn'
  <2>1. \A m \in ToSet(inbox') : m \in ToSet(inbox)
    OBVIOUS
  <2>2. \A m \in ToSet(inbox) : m.n <= calls /\ (m.n = stack[1].n => m.d.own = stack[1].d.own)
    BY DEF DelegatesInv, ResultsOwn
  <2>3. stack[1].n \in 1..calls /\ stack[1].d.n = stack[1].n
    BY DEF DelegatesInv, ResultsOwn
  <2> QED
    BY <1>4, <2>1, <2>2, <2>3 DEF ResultsOwn
<1> QED
  BY <1>4, <1>5, <1>6, <1>7 DEF DelegatesInv

LEMMA MessagesAre ==
  ASSUME DelegatesInv
  PROVE  /\ inbox \in Seq(AnyMessage) /\ Len(inbox) <= Cap /\ worker \in AnyWork /\ worker.n <= calls
         /\ worker.d.own = "weak" => worker.pin = worker.d.obj
  BY DEF DelegatesInv, ContainersTyped, ResultsOwn, Pinned

LEMMA WaitTimesOutKept ==
  ASSUME DelegatesInv, WaitTimesOut
  PROVE  DelegatesInv'
<1>1. /\ stack # <<>> /\ Top.phase = "wait" /\ Top.got = Nil /\ stack' = [stack EXCEPT ![1].phase = "late"]
      /\ UNCHANGED <<slot, list, casting, cleanup, inbox, worker, owned, ops, calls>>
  BY DEF WaitTimesOut, conts
<1>2. PICK fr, g : fr = stack[1] /\ g = [fr EXCEPT !.phase = "late"]
  OBVIOUS
<1>3. fr \in AnyFrame /\ Top = fr /\ fr.phase = "wait" /\ fr.got = Nil
  BY <1>1, <1>2, TopIs
<1>4. /\ g \in AnyFrame /\ g.phase = "late" /\ g.slot = fr.slot /\ g.list = fr.list /\ g.node = fr.node
      /\ g.called = fr.called /\ g.d = fr.d /\ g.n = fr.n /\ g.got = Nil
  BY <1>2, <1>3 DEF AnyFrame, Phases
<1>5. stack' = [stack EXCEPT ![1] = g]
  BY <1>1, <1>2
<1>6. /\ inbox' \in Seq(AnyMessage) /\ Len(inbox') <= Cap /\ ToSet(inbox') \subseteq ToSet(inbox)
      /\ worker' \in AnyWork /\ worker'.n <= calls /\ (worker'.d.own = "weak" => worker'.pin = worker'.d.obj)
  BY <1>1, MessagesAre
<1>7. /\ stack[1].phase \in {"wait", "late"} /\ g.phase \in {"wait", "late"} /\ g.got \in {Nil, g.n}
      /\ g.slot = stack[1].slot /\ g.list = stack[1].list /\ g.node = stack[1].node
      /\ g.called = stack[1].called /\ g.d = stack[1].d /\ g.n = stack[1].n
  BY <1>2, <1>3, <1>4
<1>8. UNCHANGED <<slot, list, casting, cleanup, owned, ops, calls>>
  BY <1>1
<1> QED
  BY <1>1, <1>4, <1>5, <1>6, <1>7, <1>8, WaitingKept

-----------------------------------------------------------------------------
(* The steps of the worker keep the invariant.                             *)

(* Only the innermost frame can wait for a message.                        *)
LEMMA SignalIs ==
  ASSUME DelegatesInv, NEW n \in Nat, NEW v \in Nat, SignalCaller(n, v)
  PROVE  \/ stack' = stack
         \/ /\ stack # <<>> /\ stack[1].phase \in {"wait", "late"} /\ stack[1].n = n
            /\ stack' = [stack EXCEPT ![1] = [stack[1] EXCEPT !.got = v]]
<1>1. stack \in Seq(AnyFrame) /\ DOMAIN stack = 1..Len(stack) /\ Len(stack) \in Nat
  BY DEF DelegatesInv, ContainersTyped
<1>2. stack' = [i \in DOMAIN stack |-> IF stack[i].n = n /\ n > 0 THEN [stack[i] EXCEPT !.got = v] ELSE stack[i]]
  BY DEF SignalCaller
<1>3. ASSUME NEW i \in DOMAIN stack, i # 1 PROVE stack[i].n = 0
  BY <1>3 DEF DelegatesInv, FramesKept, FrameIs, FrameShape
<1>4. stack = [i \in DOMAIN stack |-> stack[i]]
  BY <1>1
<1>5. CASE n > 0 /\ 1 \in DOMAIN stack /\ stack[1].n = n
  <2>1. stack[1].n # 0
    BY <1>5
  <2>2. stack[1].phase \in {"wait", "late"}
    BY <1>5, <2>1 DEF DelegatesInv, FramesKept, FrameIs, FrameShape
  <2>3. PICK t : t = [stack EXCEPT ![1] = [stack[1] EXCEPT !.got = v]]
    OBVIOUS
  <2>4. \A i \in DOMAIN stack : t[i] = IF i = 1 THEN [stack[1] EXCEPT !.got = v] ELSE stack[i]
    BY <2>3
  <2>5. \A i \in DOMAIN stack : i # 1 => stack[i].n # n
    BY <1>3, <1>5
  <2>6. \A i \in DOMAIN stack : t[i] = IF stack[i].n = n /\ n > 0 THEN [stack[i] EXCEPT !.got = v] ELSE stack[i]
    BY <1>5, <2>4, <2>5
  <2>7. t = [i \in DOMAIN stack |-> t[i]]
    BY <1>1, <2>3
  <2>8. stack' = t
    BY <1>2, <2>6, <2>7
  <2>9. stack # <<>>
    BY <1>5
  <2> QED
    BY <1>5, <2>2, <2>3, <2>8, <2>9
<1>6. CASE ~(n > 0 /\ 1 \in DOMAIN stack /\ stack[1].n = n)
  <2>1. \A i \in DOMAIN stack : ~(stack[i].n = n /\ n > 0)
    BY <1>3, <1>6
  <2>2. stack' = [i \in DOMAIN stack |-> stack[i]]
    BY <1>2, <2>1
  <2> QED
    BY <1>4, <2>2
<1> QED
  BY <1>5, <1>6

(* Messages go, and a caller may be told.                                  *)
LEMMA SignalKept ==
  ASSUME DelegatesInv, NEW n \in Nat, NEW v \in Nat, SignalCaller(n, v) \/ UNCHANGED stack,
         stack # <<>> /\ stack[1].phase \in {"wait", "late"} /\ stack[1].n = n => v = n \/ (v = 0 /\ stack[1].d.own = "weak"),
         UNCHANGED <<slot, list, casting, cleanup, owned, ops, calls>>,
         inbox' \in Seq(AnyMessage), Len(inbox') <= Cap, ToSet(inbox') \subseteq ToSet(inbox),
         worker' \in AnyWork, worker'.n <= calls, worker'.d.own = "weak" => worker'.pin = worker'.d.obj
  PROVE  DelegatesInv'
<1>1. CASE stack' = stack
  <2>1. ContainersTyped'
    BY <1>1 DEF DelegatesInv, ContainersTyped
  <2>2. NodesKept' /\ FramesKept'
    BY <1>1, FramesUntouched
  <2>3. Pinned'
    BY DEF Pinned
  <2>4. ResultsOwn'
    BY <1>1 DEF DelegatesInv, ResultsOwn
  <2> QED
    BY <2>1, <2>2, <2>3, <2>4 DEF DelegatesInv
<1>2. CASE /\ stack # <<>> /\ stack[1].phase \in {"wait", "late"} /\ stack[1].n = n
           /\ stack' = [stack EXCEPT ![1] = [stack[1] EXCEPT !.got = v]]
  <2>1. PICK fr, g : fr = stack[1] /\ g = [fr EXCEPT !.got = v]
    OBVIOUS
  <2>2. fr \in AnyFrame
    BY <1>2, <2>1, TopIs
  <2>3. /\ g \in AnyFrame /\ g.phase = fr.phase /\ g.slot = fr.slot /\ g.list = fr.list /\ g.node = fr.node
        /\ g.called = fr.called /\ g.d = fr.d /\ g.n = fr.n /\ g.got = v
    BY <2>1, <2>2 DEF AnyFrame
  <2>4. g.got \in {Nil, g.n} \/ (g.got = 0 /\ g.d.own = "weak")
    BY <1>2, <2>1, <2>3
  <2>5. stack' = [stack EXCEPT ![1] = g]
    BY <1>2, <2>1
  <2>6. /\ stack[1].phase \in {"wait", "late"} /\ g.phase \in {"wait", "late"}
        /\ g.slot = stack[1].slot /\ g.list = stack[1].list /\ g.node = stack[1].node
        /\ g.called = stack[1].called /\ g.d = stack[1].d /\ g.n = stack[1].n
    BY <1>2, <2>1, <2>3
  <2>7. stack # <<>>
    BY <1>2
  <2> QED
    BY <2>3, <2>4, <2>5, <2>6, <2>7, WaitingKept
<1> QED
  BY <1>1, <1>2, SignalIs

LEMMA IdleIs == Idle \in AnyWork /\ Idle.n = 0 /\ Idle.d.own # "weak"
<1>1. Unbound.own = Nil
  BY DEF Unbound
<1> QED
  BY <1>1, UnboundIsNone, NilIsSpecial DEF Idle, AnyWork
(* A message comes to the worker.                                          *)
LEMMA FirstIs ==
  ASSUME DelegatesInv, inbox # <<>>
  PROVE  /\ inbox[1] \in ToSet(inbox) /\ inbox[1].d \in AnyDelegate /\ inbox[1].d # Unbound /\ inbox[1].n \in Nat /\ inbox[1].n <= calls
         /\ Tail(inbox) \in Seq(AnyMessage) /\ Len(Tail(inbox)) <= Cap /\ ToSet(Tail(inbox)) \subseteq ToSet(inbox)
<1>1. PICK q, n, t : q = inbox /\ n = Len(q) /\ t = Tail(q)
  OBVIOUS
<1>2. q \in Seq(AnyMessage) /\ n <= Cap /\ n \in Nat /\ Cap \in Nat /\ DOMAIN q = 1..n /\ q # <<>>
  BY <1>1, DelegatesConstants DEF DelegatesInv, ContainersTyped
<1>3. 1 \in DOMAIN q /\ q[1] \in AnyMessage
  BY <1>2
<1>4. /\ t \in Seq(AnyMessage) /\ Len(t) = n - 1 /\ DOMAIN t = 1..n - 1 /\ \A i \in 1..n - 1 : t[i] = q[i + 1]
  BY <1>1, <1>2, HeadTailProperties
<1>5. \A i \in 1..n - 1 : i + 1 \in 1..n
  BY <1>2
<1>6. ToSet(t) \subseteq ToSet(q)
  BY <1>2, <1>4, <1>5 DEF ToSet
<1>7. Len(t) <= Cap
  BY <1>2, <1>4
<1>8. q[1] \in ToSet(q)
  BY <1>3 DEF ToSet
<1>9. q[1].n <= calls
  BY <1>1, <1>8 DEF DelegatesInv, ResultsOwn
<1> QED
  BY <1>1, <1>3, <1>4, <1>6, <1>7, <1>8, <1>9 DEF AnyMessage

LEMMA RunThereKept ==
  ASSUME DelegatesInv, inbox # <<>>, NEW runs, NEW empty, NEW pin \in Objs \cup {Nil}, RunThere(runs, empty, pin),
         empty => inbox[1].d.own = "weak", ~empty /\ inbox[1].d.own = "weak" => pin = inbox[1].d.obj
  PROVE  DelegatesInv'
<1>1. PICK m : m = inbox[1]
  OBVIOUS
<1>2. /\ m \in ToSet(inbox) /\ m.d \in AnyDelegate /\ m.d # Unbound /\ m.n \in Nat /\ m.n <= calls
      /\ Tail(inbox) \in Seq(AnyMessage) /\ Len(Tail(inbox)) <= Cap /\ ToSet(Tail(inbox)) \subseteq ToSet(inbox)
  BY <1>1, FirstIs
<1>3. /\ inbox' = Tail(inbox) /\ UNCHANGED <<slot, list, casting, cleanup, owned, ops, calls>>
      /\ IF runs /\ ~empty
         THEN worker' = [d |-> [m.d EXCEPT !.sync = TRUE], n |-> m.n, pin |-> pin] /\ UNCHANGED stack
         ELSE /\ UNCHANGED worker
              /\ IF runs THEN SignalCaller(m.n, 0) ELSE UNCHANGED stack
  BY <1>1 DEF RunThere, conts
<1>4. inbox' \in Seq(AnyMessage) /\ Len(inbox') <= Cap /\ ToSet(inbox') \subseteq ToSet(inbox)
  BY <1>2, <1>3
<1>5. CASE runs /\ ~empty
  <2>1. PICK e, w : e = [m.d EXCEPT !.sync = TRUE] /\ w = [d |-> e, n |-> m.n, pin |-> pin]
    OBVIOUS
  <2>2. e \in AnyDelegate /\ e.own = m.d.own /\ e.obj = m.d.obj
    BY <1>2, <2>1, SyncIs
  <2>3. w \in AnyWork /\ w.n = m.n /\ w.d = e /\ w.pin = pin
    BY <1>2, <2>1, <2>2 DEF AnyWork
  <2>4. w.d.own = "weak" => w.pin = w.d.obj
    BY <1>1, <1>5, <2>2, <2>3
  <2>5. worker' = w /\ stack' = stack
    BY <1>3, <1>5, <2>1
  <2>6. worker' \in AnyWork /\ worker'.n <= calls /\ (worker'.d.own = "weak" => worker'.pin = worker'.d.obj)
    BY <1>2, <2>3, <2>4, <2>5
  <2>7. 0 \in Nat
    OBVIOUS
  <2> QED
    BY <1>3, <1>4, <2>5, <2>6, <2>7, SignalKept
<1>6. CASE ~(runs /\ ~empty)
  <2>1. worker' = worker /\ (IF runs THEN SignalCaller(m.n, 0) ELSE UNCHANGED stack)
    BY <1>3, <1>6
  <2>2. worker' \in AnyWork /\ worker'.n <= calls /\ (worker'.d.own = "weak" => worker'.pin = worker'.d.obj)
    BY <2>1, MessagesAre
  <2>3. CASE runs
    <3>1. m.d.own = "weak"
      BY <1>1, <1>6, <2>3
    <3>2. stack # <<>> /\ stack[1].phase \in {"wait", "late"} /\ stack[1].n = m.n => stack[1].d.own = "weak"
      BY <1>2, <3>1 DEF DelegatesInv, ResultsOwn
    <3>3. SignalCaller(m.n, 0) /\ 0 \in Nat
      BY <2>1, <2>3
    <3> QED
      BY <1>2, <1>3, <1>4, <2>2, <3>2, <3>3, SignalKept
  <2>4. CASE ~runs
    <3>1. stack' = stack /\ 0 \in Nat
      BY <2>1, <2>4
    <3> QED
      BY <1>3, <1>4, <2>2, <3>1, SignalKept
  <2> QED
    BY <2>3, <2>4
<1> QED
  BY <1>5, <1>6

LEMMA InvokeKept ==
  ASSUME DelegatesInv, \/ FreeAsyncInvoke \/ MemberAsyncInvoke \/ MemberSpAsyncInvoke \/ FunctionAsyncInvoke
                       \/ FreeAsyncWaitInvoke \/ MemberAsyncWaitInvoke \/ MemberSpAsyncWaitInvoke \/ FunctionAsyncWaitInvoke
  PROVE  DelegatesInv'
<1>1. inbox # <<>>
  BY DEF FreeAsyncInvoke, MemberAsyncInvoke, MemberSpAsyncInvoke, FunctionAsyncInvoke,
         FreeAsyncWaitInvoke, MemberAsyncWaitInvoke, MemberSpAsyncWaitInvoke, FunctionAsyncWaitInvoke, Received
<1>2. PICK d : d = inbox[1].d
  OBVIOUS
<1>3. d \in AnyDelegate /\ d # Unbound
  BY <1>1, <1>2, FirstIs
<1>4. Nil \in Objs \cup {Nil}
  OBVIOUS
<1>5. CASE FreeAsyncInvoke \/ FreeAsyncWaitInvoke
  <2>1. d.cls = "Free" /\ \E runs : RunThere(runs, FreeEmpty(inbox[1].d), Nil)
    BY <1>2, <1>5 DEF FreeAsyncInvoke, FreeAsyncWaitInvoke, Received
  <2>2. d.own # "weak" /\ ~FreeEmpty(d)
    BY <1>3, <2>1, FullIs
  <2> QED
    BY <1>1, <1>2, <1>4, <2>1, <2>2, RunThereKept
<1>6. CASE MemberAsyncInvoke \/ MemberAsyncWaitInvoke
  <2>1. d.cls = "Member" /\ \E runs : RunThere(runs, MemberEmpty(inbox[1].d), Nil)
    BY <1>2, <1>6 DEF MemberAsyncInvoke, MemberAsyncWaitInvoke, Received
  <2>2. d.own # "weak" /\ ~MemberEmpty(d)
    BY <1>3, <2>1, FullIs
  <2> QED
    BY <1>1, <1>2, <1>4, <2>1, <2>2, RunThereKept
<1>7. CASE MemberSpAsyncInvoke \/ MemberSpAsyncWaitInvoke
  <2>1. d.cls = "MemberSp" /\ \E runs : RunThere(runs, MemberSpEmpty(inbox[1].d, Alive), Lock(inbox[1].d, Alive))
    BY <1>2, <1>7 DEF MemberSpAsyncInvoke, MemberSpAsyncWaitInvoke, Received
  <2>2. d.own = "weak"
    BY <1>3, <2>1, FullIs
  <2>3. Lock(d, Alive) \in Objs \cup {Nil} /\ (~MemberSpEmpty(d, Alive) => Lock(d, Alive) = d.obj)
    BY <1>3, LockIs
  <2> QED
    BY <1>1, <1>2, <2>1, <2>2, <2>3, RunThereKept
<1>8. CASE FunctionAsyncInvoke \/ FunctionAsyncWaitInvoke
  <2>1. d.cls = "Function" /\ \E runs : RunThere(runs, FunctionEmpty(inbox[1].d), Nil)
    BY <1>2, <1>8 DEF FunctionAsyncInvoke, FunctionAsyncWaitInvoke, Received
  <2>2. d.own # "weak" /\ ~FunctionEmpty(d)
    BY <1>3, <2>1, FullIs
  <2> QED
    BY <1>1, <1>2, <1>4, <2>1, <2>2, RunThereKept
<1> QED
  BY <1>5, <1>6, <1>7, <1>8

LEMMA WorkerReturnsKept ==
  ASSUME DelegatesInv, WorkerReturns \/ WorkerThrows
  PROVE  DelegatesInv'
<1>1. worker' = Idle /\ UNCHANGED <<slot, list, casting, cleanup, inbox, owned, ops, calls>>
  BY DEF WorkerReturns, WorkerThrows, conts
<1>2. SignalCaller(worker.n, worker.n) \/ UNCHANGED stack
  BY DEF WorkerReturns, WorkerThrows
<1>3. inbox' \in Seq(AnyMessage) /\ Len(inbox') <= Cap /\ ToSet(inbox') \subseteq ToSet(inbox)
  BY <1>1, MessagesAre
<1>4. worker' \in AnyWork /\ worker'.n <= calls /\ (worker'.d.own = "weak" => worker'.pin = worker'.d.obj)
  <2>1. 0 <= calls
    BY DEF DelegatesInv, ContainersTyped
  <2> QED
    BY <1>1, <2>1, IdleIs
<1>5. worker.n \in Nat
  BY MessagesAre DEF AnyWork
<1> QED
  BY <1>1, <1>2, <1>3, <1>4, <1>5, SignalKept

LEMMA DropKept ==
  ASSUME DelegatesInv, NEW o \in Objs, Drop(o)
  PROVE  DelegatesInv'
<1>1. UNCHANGED <<slot, list, casting, cleanup, stack, inbox, worker, ops, calls>> /\ owned' \subseteq Objs
  BY DEF Drop, conts, DelegatesInv, ContainersTyped
<1>2. ContainersTyped'
  BY <1>1 DEF DelegatesInv, ContainersTyped
<1>3. NodesKept' /\ FramesKept'
  BY <1>1, FramesUntouched
<1>4. ResultsOwn' /\ Pinned'
  BY <1>1, ResultsUntouched
<1> QED
  BY <1>2, <1>3, <1>4 DEF DelegatesInv

-----------------------------------------------------------------------------
LEMMA DelegatesBegin == DelegatesInit => DelegatesInv
<1> SUFFICES ASSUME DelegatesInit PROVE DelegatesInv
  OBVIOUS
<1>1. /\ slot = [s \in Slots |-> Unbound] /\ list = [l \in Lists |-> <<>>] /\ casting = [l \in Lists |-> 0]
      /\ cleanup = [l \in Lists |-> FALSE] /\ stack = <<>> /\ inbox = <<>> /\ worker = Idle
      /\ owned = Objs /\ ops = 0 /\ calls = 0
  BY DEF DelegatesInit
<1>2. ContainersTyped
  <2>1. slot \in [Slots -> AnyDelegate]
    BY <1>1, UnboundIsNone
  <2>2. list \in [Lists -> Seq(AnyNode)] /\ casting \in [Lists -> Nat] /\ cleanup \in [Lists -> BOOLEAN]
    BY <1>1
  <2>3. /\ stack \in Seq(AnyFrame) /\ Len(stack) <= MaxDepth /\ inbox \in Seq(AnyMessage) /\ Len(inbox) <= Cap
        /\ worker \in AnyWork
    BY <1>1, DelegatesConstants, IdleIs
  <2> QED
    BY <1>1, <2>1, <2>2, <2>3 DEF ContainersTyped
<1>3. NodesKept
  <2>1. \A x \in Lists : CastsOf(stack, x) = {}
    BY <1>1 DEF CastsOf
  <2>2. \A x \in Lists : list[x] = <<>> /\ casting[x] = 0 /\ ~cleanup[x]
    BY <1>1
  <2>3. Distinct(<<>>) /\ \A e \in ToSet(<<>>) : e.d # Unbound
    BY DEF Distinct, ToSet
  <2> QED
    BY <2>1, <2>2, <2>3, FS_EmptySet DEF NodesKept
<1>4. FramesKept
  BY <1>1 DEF FramesKept
<1>5. ResultsOwn /\ Pinned
  <2>1. worker.n = 0 /\ worker.d.own # "weak" /\ \A m \in ToSet(inbox) : m.n <= calls
    BY <1>1, IdleIs DEF ToSet
  <2> QED
    BY <1>1, <2>1 DEF ResultsOwn, Pinned
<1> QED
  BY <1>2, <1>3, <1>4, <1>5 DEF DelegatesInv

LEMMA DelegatesStay ==
  ASSUME DelegatesInv, [DelegatesNext]_delegatesVars
  PROVE  DelegatesInv'
<1>1. CASE UNCHANGED delegatesVars
  <2>1. UNCHANGED <<slot, list, casting, cleanup, stack, inbox, worker, owned, ops, calls>>
    BY <1>1 DEF delegatesVars
  <2>2. ContainersTyped'
    BY <2>1 DEF DelegatesInv, ContainersTyped
  <2>3. NodesKept' /\ FramesKept' /\ ResultsOwn' /\ Pinned'
    BY <2>1, FramesUntouched, ResultsUntouched
  <2> QED
    BY <2>2, <2>3 DEF DelegatesInv
<1>2. CASE ContainerStep
  <2>1. \A t \in Slots : slot[t] \in AnyDelegate
    BY DEF DelegatesInv, ContainersTyped
  <2>2. ASSUME NEW t \in Slots, UnicastClear(t) \/ CallUnicast(t) \/ \E d \in Made : UnicastAssign(t, d) PROVE DelegatesInv'
    BY <2>2, MadeIs, UnicastClearKept, CallUnicastKept, UnicastAssignKept
  <2>3. ASSUME NEW x \in Lists, NEW d \in AnyDelegate, d # Unbound, PushBack(x, d) \/ RemoveDelegate(x, d) PROVE DelegatesInv'
    BY <2>3, PushBackKept, RemoveDelegateKept
  <2>4. ASSUME NEW x \in Lists, ClearList(x) \/ Broadcast(x) \/ \E y \in Lists : CopyList(x, y) PROVE DelegatesInv'
    BY <2>4, ClearListKept, BroadcastKept, CopyListKept
  <2> QED
    BY <1>2, <2>1, <2>2, <2>3, <2>4, MadeIs DEF ContainerStep
<1>3. CASE CallStep
  BY <1>3, SyncCallKept, AsyncCallKept, WaitCallKept, CastNodeKept, CastEndKept, WaitReturnsKept,
     WaitTimesOutKept, LateReturnsKept, TargetReturnsKept, TargetThrowsKept DEF CallStep
<1>4. CASE WorkerStep
  BY <1>4, InvokeKept, WorkerReturnsKept DEF WorkerStep
<1>5. CASE \E o \in Objs : Drop(o)
  BY <1>5, DropKept
<1> QED
  BY <1>1, <1>2, <1>3, <1>4, <1>5 DEF DelegatesNext

LEMMA DelegatesInvAlways == DelegatesSpec => []DelegatesInv
<1>1. DelegatesInv /\ [DelegatesNext]_delegatesVars => DelegatesInv'
  BY DelegatesStay
<1> QED
  BY <1>1, DelegatesBegin, PTL DEF DelegatesSpec

-----------------------------------------------------------------------------
(* What the invariant says of the broadcasts.                              *)
LEMMA BroadcastsHold == DelegatesInv => BroadcastsExact
<1> SUFFICES ASSUME DelegatesInv PROVE BroadcastsExact
  OBVIOUS
<1>1. \A x \in Lists : list[x] \in Seq(AnyNode) /\ Distinct(list[x]) /\ cleanup[x] \in BOOLEAN
  BY ListIs
<1>2. stack \in Seq(AnyFrame) /\ Len(stack) <= MaxDepth /\ \A i \in DOMAIN stack : stack[i] \in AnyFrame /\ FrameIs(stack[i], list)
  BY DEF DelegatesInv, ContainersTyped, FramesKept
<1>3. \A fr \in ToSet(stack) : fr \in AnyFrame /\ FrameIs(fr, list)
  BY <1>2 DEF ToSet
<1>4. DelegatesTypeOK
  <2>1. ASSUME NEW l \in Lists
        PROVE  /\ Len(list[l]) <= MaxNodes /\ Ids(l) \subseteq 1..MaxNodes
               /\ \A i, j \in DOMAIN list[l] : list[l][i].id = list[l][j].id => i = j
    <3>1. PICK s : s = list[l]
      OBVIOUS
    <3>2. s \in Seq(AnyNode) /\ Distinct(s) /\ Ids(l) = IdsOf(s)
      BY <1>1, <3>1, ListOperators
    <3>3. Len(s) <= MaxNodes /\ IdsOf(s) \subseteq 1..MaxNodes
      BY <3>2, IdsCounted
    <3> QED
      BY <3>1, <3>2, <3>3 DEF Distinct
  <2>2. \A fr \in ToSet(stack) : FrameOK(fr)
    BY <1>3 DEF FrameOK, FrameIs, FrameShape, AnyFrame, Phases
  <2>3. ASSUME NEW l \in Lists PROVE casting[l] \in 0..MaxDepth /\ cleanup[l] \in BOOLEAN
    <3>1. casting[l] = Cardinality(CastsOf(stack, l))
      BY DEF DelegatesInv, NodesKept
    <3>2. Cardinality(CastsOf(stack, l)) \in Nat /\ Cardinality(CastsOf(stack, l)) <= Len(stack)
      BY <1>2, CastsFinite
    <3>3. Len(stack) \in Nat /\ MaxDepth \in Nat
      BY <1>2, DelegatesConstants
    <3> QED
      BY <1>1, <1>2, <3>1, <3>2, <3>3
  <2>4. Len(stack) <= MaxDepth /\ Len(inbox) <= Cap /\ owned \subseteq Objs
    BY DEF DelegatesInv, ContainersTyped
  <2> QED
    BY <2>1, <2>2, <2>3, <2>4 DEF DelegatesTypeOK
<1>5. IteratorsValid
  <2> SUFFICES ASSUME NEW fr \in ToSet(stack), fr.list # Nil, fr.node # 0 PROVE fr.node \in Ids(fr.list)
    BY DEF IteratorsValid
  <2>1. CalledSoFar(fr, list[fr.list])
    BY <1>3 DEF FrameIs
  <2>2. fr.node \in IdsOf(list[fr.list])
    BY <2>1 DEF CalledSoFar
  <2> QED
    BY <2>2, ListOperators
<1>6. CleanedUp
  <2> SUFFICES ASSUME NEW l \in Lists
               PROVE  /\ casting[l] = Cardinality({i \in DOMAIN stack : stack[i].list = l})
                      /\ casting[l] = 0 => ~cleanup[l] /\ \A e \in ToSet(list[l]) : e.d # Unbound
    BY DEF CleanedUp
  <2>1. casting[l] = Cardinality(CastsOf(stack, l))
    BY DEF DelegatesInv, NodesKept
  <2> QED
    BY <2>1, ListIs DEF CastsOf
<1>7. RemainingCalledOnce
  <2> SUFFICES ASSUME Iterating, Top.node = 0
               PROVE  /\ BoundIds(Top.list) \subseteq ToSet(Top.called)
                      /\ \A i, j \in DOMAIN Top.called :
                           i < j => Place(Top.list, Top.called[i]) < Place(Top.list, Top.called[j])
    BY DEF RemainingCalledOnce
  <2>1. PICK fr : fr = Top
    OBVIOUS
  <2>2. FrameIs(fr, list) /\ fr.phase = "next" /\ fr.node = 0
    BY <2>1, TopIs DEF Iterating
  <2>3. CalledSoFar(fr, list[fr.list])
    BY <2>2 DEF FrameIs, FrameShape
  <2>4. BoundIds(fr.list) \subseteq ToSet(fr.called)
    <3> SUFFICES ASSUME NEW x \in BoundIds(fr.list) PROVE x \in ToSet(fr.called)
      OBVIOUS
    <3>1. PICK i \in DOMAIN list[fr.list] : list[fr.list][i].d # Unbound /\ x = list[fr.list][i].id
      BY DEF BoundIds, ToSet
    <3> QED
      BY <2>2, <2>3, <3>1 DEF CalledSoFar
  <2>5. \A i, j \in DOMAIN fr.called : i < j => Place(fr.list, fr.called[i]) < Place(fr.list, fr.called[j])
    BY <2>3, ListOperators DEF CalledSoFar
  <2> QED
    BY <2>1, <2>4, <2>5
<1> QED
  BY <1>4, <1>5, <1>6, <1>7 DEF BroadcastsExact

LEMMA EqualCallsSame ==
  ASSUME NEW a \in AnyDelegate, NEW b \in AnyDelegate, a # Unbound, Equal(a, b, Alive)
  PROVE  SameTarget(a, b)
<1>1. MadeOfClass(a) /\ a.cls = b.cls /\ a.mode \in {"sync", b.mode} /\ a.mode \in {"sync", "async", "wait"}
  BY BoundIsMade DEF Equal, AnyDelegate, Records
<1>2. MadeOfClass(b)
  BY <1>1, BoundIsMade, NilIsSpecial DEF MadeOfClass, Unbound
<1>3. CASE a.cls = "Function"
  BY <1>1, <1>3 DEF SameTarget
<1>4. CASE a.cls = "Free"
  <2>1. FreeEqual(a, b) /\ (a.mode # "sync" => SameRoute(a, b))
    BY <1>1, <1>4 DEF Equal, FreeAsyncEqual, FreeAsyncWaitEqual
  <2>2. a.obj = Nil /\ b.obj = Nil
    BY <1>1, <1>2, <1>4 DEF MadeOfClass
  <2> QED
    BY <2>1, <2>2 DEF SameTarget, FreeEqual, SameRoute
<1>5. CASE a.cls = "Member"
  <2>1. MemberEqual(a, b) /\ (a.mode # "sync" => SameRoute(a, b))
    BY <1>1, <1>5 DEF Equal, MemberAsyncEqual, MemberAsyncWaitEqual
  <2> QED
    BY <2>1 DEF SameTarget, MemberEqual, SameRoute
<1>6. CASE a.cls = "MemberSp"
  <2>1. MemberSpEqual(a, b, Alive) /\ (a.mode # "sync" => SameRoute(a, b))
    BY <1>1, <1>6 DEF Equal, MemberAsyncSpEqual, MemberAsyncWaitSpEqual
  <2>2. a.obj # Nil /\ b.obj # Nil /\ a.own = "weak"
    BY <1>1, <1>2, <1>6, NilIsSpecial DEF MadeOfClass
  <2>3. CASE a.obj \in Alive
    <3>1. a.obj = b.obj
      BY <2>1, <2>2, <2>3 DEF MemberSpEqual, Lock
    <3> QED
      BY <2>1, <3>1 DEF SameTarget, MemberSpEqual, SameRoute
  <2>4. CASE a.obj \notin Alive
    <3>1. b.obj \notin Alive
      BY <2>1, <2>2, <2>4 DEF MemberSpEqual, Lock
    <3> QED
      BY <2>2, <2>4, <3>1 DEF SameTarget
  <2> QED
    BY <2>3, <2>4
<1> QED
  BY <1>1, <1>3, <1>4, <1>5, <1>6 DEF MadeOfClass, Classes

(* Remove() takes no node but the one it has found.                        *)
LEMMA RemovesOne ==
  ASSUME DelegatesInv, NEW l \in Lists, NEW d \in AnyDelegate, RemoveDelegate(l, d),
         NEW e \in ToSet(list[l]), e.id \in BoundIds(l), e.id \notin BoundIds(l)'
  PROVE  SameTarget(e.d, d)
<1>1. PICK k \in DOMAIN list[l] : Erase(l, k) /\ Matches(l, d, k)
  BY DEF RemoveDelegate
<1>2. PICK s, t : s = list[l] /\ t = list'[l]
  OBVIOUS
<1>3. s \in Seq(AnyNode) /\ Distinct(s) /\ k \in DOMAIN s /\ list \in [Lists -> Seq(AnyNode)]
  BY <1>1, <1>2, ListIs DEF DelegatesInv, ContainersTyped
<1>4. \A j \in DOMAIN s : j # k => s[j] \in ToSet(t)
  <2>1. CASE casting[l] > 0
    <3>1. list' = [list EXCEPT ![l] = [list[l] EXCEPT ![k].d = Unbound]]
      BY <1>1, <2>1 DEF Erase
    <3>2. t = [s EXCEPT ![k].d = Unbound]
      BY <1>2, <1>3, <3>1
    <3> QED
      BY <1>3, <3>2, EmptyOneIs
  <2>2. CASE ~(casting[l] > 0)
    <3>1. list' = [list EXCEPT ![l] = RemoveAt(list[l], k)]
      BY <1>1, <2>2 DEF Erase
    <3>2. t = RemoveAt(s, k)
      BY <1>2, <1>3, <3>1
    <3> QED
      BY <1>3, <3>2, RemoveAtIs
  <2> QED
    BY <2>1, <2>2
<1>5. PICK i \in DOMAIN s : s[i] = e
  BY <1>2 DEF ToSet
<1>6. s[i].d # Unbound
  <2>1. PICK j \in DOMAIN s : s[j].d # Unbound /\ s[j].id = e.id
    BY <1>2 DEF BoundIds, ToSet
  <2> QED
    BY <1>3, <1>5, <2>1 DEF Distinct
<1>7. i = k
  <2>1. s[i] \notin ToSet(t)
    BY <1>2, <1>5, <1>6 DEF BoundIds
  <2> QED
    BY <1>4, <1>5, <2>1
<1>8. e.d \in AnyDelegate /\ e.d # Unbound /\ Equal(e.d, d, Alive)
  BY <1>1, <1>2, <1>3, <1>5, <1>6, <1>7, IdsAre DEF Matches
<1> QED
  BY <1>8, EqualCallsSame

-----------------------------------------------------------------------------
(* However the targets of a broadcast add, remove, clear, copy and         *)
(* broadcast again, return or throw: the iterator of every broadcast       *)
(* stands on a node of its list, the broadcasts are counted, no null node  *)
(* outlives the last of them, and a broadcast that comes to its end has    *)
(* called every delegate that is there, each node once and in order.       *)
THEOREM BroadcastsAlwaysExact == DelegatesSpec => []BroadcastsExact
  BY DelegatesInvAlways, BroadcastsHold, PTL

(* A target bound to a shared or a weak pointer runs on an object that     *)
(* lives, whichever other owners drop it and whenever they do.             *)
THEOREM TargetsStayAlive == DelegatesSpec => []TargetAlive
<1>1. DelegatesInv => TargetAlive
  <2> SUFFICES ASSUME DelegatesInv PROVE TargetAlive
    OBVIOUS
  <2>1. worker.d \in AnyDelegate /\ worker.d \in Delegates /\ worker.pin \in Pins
    <3>1. worker.d \in AnyDelegate
      BY MessagesAre DEF AnyWork
    <3>2. worker.d \in Delegates
      BY DEF Delegates
    <3> QED
      BY <3>1, <3>2 DEF Pins
  <2>2. ASSUME worker.d.own = "shared" PROVE worker.d.obj \in Alive
    BY <2>1, <2>2 DEF Alive
  <2>3. ASSUME worker.d.own = "weak" PROVE worker.d.obj \in Alive
    <3>1. worker.d # Unbound
      BY <2>3, NilIsSpecial DEF Unbound
    <3>2. worker.d.obj \in Objs
      BY <2>1, <2>3, <3>1, BoundIsMade, NilIsSpecial DEF MadeOfClass, Classes
    <3>3. worker.pin = worker.d.obj
      BY <2>3, MessagesAre
    <3> QED
      BY <2>1, <3>2, <3>3, NilIsSpecial DEF Alive
  <2>4. ASSUME NEW fr \in ToSet(stack), fr.phase = "run", fr.d.own = "weak" PROVE fr.d.obj \in Alive
    <3>1. PICK i \in DOMAIN stack : fr = stack[i]
      BY DEF ToSet
    <3>2. fr \in AnyFrame /\ FrameShape(fr)
      BY <3>1 DEF DelegatesInv, ContainersTyped, FramesKept, FrameIs
    <3>3. fr.d \in AnyDelegate /\ fr.d # Unbound /\ fr.pin = fr.d.obj
      BY <2>4, <3>2 DEF AnyFrame, FrameShape
    <3>4. fr.d.obj \in Objs
      BY <2>4, <3>3, BoundIsMade, NilIsSpecial DEF MadeOfClass, Classes
    <3>5. fr.pin \in Pins
      BY DEF Pins
    <3> QED
      BY <3>3, <3>4, <3>5, NilIsSpecial DEF Alive
  <2> QED
    BY <2>2, <2>3, <2>4 DEF TargetAlive
<1> QED
  BY <1>1, DelegatesInvAlways, PTL

(* Wherever a delegate is, in a container, in a message or at work, the    *)
(* result it has is that of its own last call: never of an earlier call    *)
(* that timed out, nor of the delegate it was copied from.                 *)
THEOREM ResultsAlwaysOwn == DelegatesSpec => []ReturnsOwnResult
<1>1. DelegatesInv => ReturnsOwnResult
  <2> SUFFICES ASSUME DelegatesInv, NEW d \in Delegates PROVE d.ok => d.val = d.n \/ (d.own = "weak" /\ d.val = 0)
    BY DEF ReturnsOwnResult
  <2>1. CASE d \in Range(slot)
    BY <2>1 DEF DelegatesInv, ContainersTyped, Range, AnyDelegate, ResultIsOwn
  <2>2. ASSUME NEW l \in Lists, d \in {e.d : e \in ToSet(list[l])} PROVE d \in AnyDelegate
    <3>1. PICK i \in DOMAIN list[l] : d = list[l][i].d
      BY <2>2 DEF ToSet
    <3> QED
      BY <3>1, ListIs, IdsAre
  <2>3. CASE d \in {m.d : m \in ToSet(inbox)}
    <3>1. PICK i \in DOMAIN inbox : d = inbox[i].d
      BY <2>3 DEF ToSet
    <3>2. inbox[i] \in AnyMessage
      BY MessagesAre
    <3> QED
      BY <3>1, <3>2 DEF AnyMessage, AnyDelegate, ResultIsOwn
  <2>4. CASE d = worker.d
    BY <2>4, MessagesAre DEF AnyWork, AnyDelegate, ResultIsOwn
  <2> QED
    <3>1. \/ d \in Range(slot) \/ d = worker.d \/ d \in {m.d : m \in ToSet(inbox)}
          \/ d \in UNION {{e.d : e \in ToSet(list[l])} : l \in Lists}
      BY DEF Delegates
    <3>2. d \in UNION {{e.d : e \in ToSet(list[l])} : l \in Lists} => d \in AnyDelegate
      BY <2>2
    <3> QED
      BY <2>1, <2>3, <2>4, <3>1, <3>2 DEF AnyDelegate, ResultIsOwn
<1> QED
  BY <1>1, DelegatesInvAlways, PTL

(* Remove() takes a delegate that calls the same target as its argument,   *)
(* for every class and mode of the two.                                    *)
THEOREM RemovesTheSame == DelegatesSpec => RemovesSameTarget
<1> DEFINE A == \A l \in {k \in Lists : list'[k] # list[k]} :
                  \A d \in Made \cup Range(slot) : RemoveDelegate(l, d) =>
                    \A e \in ToSet(list[l]) :
                      e.id \in BoundIds(l) /\ e.id \notin BoundIds(l)' => SameTarget(e.d, d)
<1>1. DelegatesInv => A
  <2>1. DelegatesInv => \A d \in Made \cup Range(slot) : d \in AnyDelegate
    BY MadeIs DEF DelegatesInv, ContainersTyped, Range
  <2> QED
    BY <2>1, RemovesOne
<1>2. DelegatesInv /\ [DelegatesNext]_delegatesVars => [A]_delegatesVars
  BY <1>1
<1> HIDE DEF A
<1>3. DelegatesSpec => [][A]_delegatesVars
  BY <1>2, DelegatesInvAlways, PTL DEF DelegatesSpec
<1> QED
  BY <1>3, PTL DEF RemovesSameTarget, A
=============================================================================
