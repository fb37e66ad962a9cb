-------------------------------- MODULE Timer -------------------------------
(***************************************************************************)
(* Timers (extras/util/Timer.cpp) and the paced delegates that carry their *)
(* ticks to a worker thread (extras/util/TimerDelegate.h), on top of the   *)
(* signals they emit.                                                      *)
(*                                                                         *)
(* A timer's signal is the signal of the same name.  Time is relative:     *)
(* left[t] is m_expireTime minus now.  One thread, the Ticker, calls       *)
(* ProcessTimers(); all threads start, stop and destroy timers, also from  *)
(* within callbacks.                                                       *)
(***************************************************************************)
EXTENDS Signal, Integers

CONSTANTS
    Ticker,         \* the thread that calls ProcessTimers()
    Paced,          \* copies that are TimerDelegates; the others run at once
    Timeout,        \* Timeout[t]: the period, in ticks, a timer is started with
    MaxExpired,     \* MAX_TIMER_EXPIRED: with more timers the process may end on an assertion
    Cap,            \* limit of the worker's queue
    MaxLag          \* bound: ticks an expired timer waits at most for ProcessTimers()

ASSUME TimerConstants ==
    /\ Ticker \in Threads /\ Paced \subseteq Copies
    /\ Timeout \in [Sigs -> Nat \ {0}] /\ Cardinality(Sigs) <= MaxExpired
    /\ Cap \in Nat /\ MaxLag \in Nat

VARIABLES
    timers,         \* the linked list, from its head
    enabled,        \* m_enabled
    once,           \* m_once
    left,           \* m_expireTime - now
    stopped,        \* m_timerStopped
    since,          \* since[t]: ticks since the last firing, or since Start(), and
                    \*           since the firing before that; at most the period
    queue,          \* paced messages sent to the worker, by copy
    serving,        \* the paced message the worker runs, or Nil
    pending         \* copies with m_pending

timerVars == <<timers, enabled, once, left, stopped, since>>
pacedVars == <<queue, serving, pending>>
vars == <<sigVars, timerVars, pacedVars>>

Init ==
    /\ SigInit
    /\ timers = <<>> /\ enabled = [t \in Sigs |-> FALSE] /\ once = [t \in Sigs |-> FALSE]
    /\ left = [t \in Sigs |-> 0] /\ stopped = FALSE
    /\ since = [t \in Sigs |-> <<0, 0>>]
    /\ queue = <<>> /\ serving = Nil /\ pending = {}

-----------------------------------------------------------------------------
Link(t) == IF t \in ToSet(timers) THEN UNCHANGED timers ELSE timers' = <<t>> \o timers

Start(p, t, single) ==
    /\ Calls(p) /\ t \in up
    /\ once' = [once EXCEPT ![t] = single]
    /\ left' = [left EXCEPT ![t] = Timeout[t]]
    /\ enabled' = [enabled EXCEPT ![t] = TRUE]
    /\ Link(t)
    /\ since' = [since EXCEPT ![t] = <<Timeout[t], 0>>]
    /\ UNCHANGED <<subscribers, stopped, pacedVars>>

(* The timer leaves the list when ProcessTimers() sees it.                 *)
Stop(p, t) ==
    /\ Calls(p) /\ t \in up /\ enabled[t]
    /\ enabled' = [enabled EXCEPT ![t] = FALSE] /\ stopped' = TRUE
    /\ UNCHANGED <<subscribers, timers, once, left, since, pacedVars>>

(* Mutant: the timer stays in the list.                                    *)
UnlinkLater(t) == stopped' = TRUE /\ UNCHANGED timers

Unlink(t) == timers' = Select(timers, Sigs \ {t}) /\ UNCHANGED stopped

(* ~Timer(), then the destructor of its signal.                            *)
DestroyTimer(p, t) ==
    /\ Destroy(p, t) /\ Unlink(t)
    /\ enabled' = [enabled EXCEPT ![t] = FALSE]
    /\ left' = [left EXCEPT ![t] = 0] /\ since' = [since EXCEPT ![t] = <<0, 0>>]
    /\ UNCHANGED <<once, pacedVars>>

Older(n, t) == IF n < Timeout[t] THEN n + 1 ELSE n

(* Time passes; the lag of an enabled timer has a bound.                   *)
Tick ==
    /\ \A t \in Sigs : enabled[t] => left[t] > -MaxLag
    /\ left' = [t \in Sigs |-> IF enabled[t] THEN left[t] - 1 ELSE left[t]]
    /\ since' = [t \in Sigs |-> IF enabled[t] THEN <<Older(since[t][1], t), Older(since[t][2], t)>> ELSE since[t]]
    /\ UNCHANGED <<sigVars, timers, enabled, once, stopped, pacedVars>>

-----------------------------------------------------------------------------
(* ProcessTimers().                                                        *)

Sweep == IF stopped THEN Select(timers, {t \in Sigs : enabled[t]}) ELSE timers

Expired(t) == enabled[t] /\ left[t] <= 0

(* Mutant: the backlog is worked off.                                      *)
RearmBurst(t) == left[t] + Timeout[t]

(* The next expiration of a periodic timer; one that has fallen behind by  *)
(* more than a period expires now.                                         *)
Rearm(t) == IF left[t] + Timeout[t] < 0 THEN 0 ELSE left[t] + Timeout[t]

CheckExpired(S) ==
    /\ enabled' = [t \in Sigs |-> enabled[t] /\ ~(t \in S /\ once[t])]
    /\ stopped' = (\E t \in S : once[t])
    /\ left' = [t \in Sigs |-> IF t \in S /\ ~once[t] THEN Rearm(t) ELSE left[t]]

(* Under the lock stopped timers leave the list and the subscribers of the *)
(* expired ones are collected; they are called after the lock is released. *)
ProcessTimers ==
    LET listed == Sweep
        due    == Select(listed, {t \in Sigs : Expired(t)})
    IN  /\ InControl(Ticker) /\ ~emit[Ticker].on
        /\ timers' = listed /\ CheckExpired(ToSet(due))
        /\ since' = [t \in Sigs |-> IF t \in ToSet(due) THEN <<0, since[t][1]>> ELSE since[t]]
        /\ Begin(Ticker, FlattenSeq([i \in DOMAIN due |-> GetSnapshot(due[i])]))
        /\ UNCHANGED <<up, block, alive, delegates, conn, temp, old, copies, gone, ops, once, pacedVars>>

-----------------------------------------------------------------------------
(* PacedDispatch: the token of a message lives as long as the message.     *)

InFlight(x) == x \in ToSet(queue) \/ serving = x

(* A message the worker has no room for is dropped, and its token with it. *)
TryFire(x) ==
    IF InFlight(x)
    THEN pending' = pending \cup {x} /\ UNCHANGED queue
    ELSE /\ pending' = pending \ {x}
         /\ queue' = IF Len(queue) < Cap THEN Append(queue, x) ELSE queue

(* The next subscriber is called; a TimerDelegate sends and returns.       *)
CallSubscriber(p) ==
    /\ InvokeSnapshot(p)
    /\ IF emit[p].todo # <<>> /\ Head(emit[p].todo) \in Paced
       THEN TryFire(Head(emit[p].todo)) ELSE UNCHANGED <<queue, pending>>
    /\ UNCHANGED <<timerVars, serving>>

(* The worker runs InvokeTarget() of the TimerDelegate the message names.  *)
InvokeTarget ==
    /\ serving = Nil /\ queue # <<>>
    /\ serving' = Head(queue) /\ queue' = Tail(queue)
    /\ UNCHANGED <<sigVars, timerVars, pending>>

TargetReturns ==
    /\ serving # Nil /\ serving' = Nil
    /\ UNCHANGED <<sigVars, timerVars, queue, pending>>

-----------------------------------------------------------------------------
(* What goes on by itself: an operation of two steps, an emission, and the *)
(* worker.                                                                 *)
Finish(p) == (ClearOld(p) \/ \E c \in Conns : MoveAssign(p, c)) /\ UNCHANGED <<timerVars, pacedVars>>
Emission(p) == (SigEmitting(p) /\ UNCHANGED <<timerVars, pacedVars>>) \/ CallSubscriber(p)
Worker == InvokeTarget \/ TargetReturns

Next ==
    \/ \E p \in Threads :
         \/ SigUse(p) /\ UNCHANGED <<timerVars, pacedVars>>
         \/ \E g \in Sigs : p # Ticker /\ ToSet(Now(g)) \cap Paced = {} /\ Emit(p, g) /\ UNCHANGED <<timerVars, pacedVars>>
         \/ Emission(p)
         \/ \E t \in Sigs : Stop(p, t) \/ DestroyTimer(p, t) \/ \E single \in BOOLEAN : Start(p, t, single)
    \/ Tick \/ ProcessTimers \/ Worker

(* Time passes, the ticker's loop goes on, subscribers return, and the     *)
(* worker serves.                                                          *)
Fairness ==
    /\ WF_left(Tick) /\ WF_emit(ProcessTimers) /\ WF_serving(Worker)
    /\ \A p \in Threads : WF_<<temp, old>>(Finish(p)) /\ WF_emit(Emission(p))

Spec == Init /\ [][Next]_vars /\ Fairness

-----------------------------------------------------------------------------
(* What must hold.                                                         *)

(* The variables have their types, and the list is one: each timer is in   *)
(* it at most once (a second time would close the linked list to a ring).  *)
TypeOK ==
    /\ SigTypeOK
    /\ IsInjective(timers) /\ ToSet(timers) \subseteq Sigs
    /\ \A t \in Sigs : left[t] \in -MaxLag..Timeout[t] /\ since[t] \in (0..Timeout[t]) \X (0..Timeout[t])
    /\ Len(queue) <= Cap /\ serving \in Paced \cup {Nil} /\ pending \subseteq Paced

(* A timer that is enabled is in the list, a destroyed one is not, and one *)
(* that is not enabled will leave it: through every order of Start, Stop,  *)
(* one-shot expiry and destruction (Timer.cpp:90, 161).                    *)
ListedWhileNeeded ==
    \A t \in Sigs :
      /\ enabled[t] => t \in ToSet(timers)
      /\ t \in ToSet(timers) => t \in up /\ (enabled[t] \/ stopped)

(* Both kinds of lists hold what they should.                              *)
ListsKept == TypeOK /\ ListedWhileNeeded /\ ListedIffConnected

(* However late ProcessTimers() comes, a timer never fires before its      *)
(* first period is over, nor three times within one period.                *)
NoBurst ==
    [][ProcessTimers => \A t \in ToSet(Sweep) : Expired(t) => since[t][2] >= Timeout[t]]_vars

(* At most one message of a TimerDelegate is with the worker.              *)
OneInFlight ==
    \A x \in Paced : Cardinality({i \in DOMAIN queue : queue[i] = x}) + (IF serving = x THEN 1 ELSE 0) <= 1

(* However late the ticks come and however slow the worker is, neither     *)
(* gets more of them than it should.                                       *)
PacingHolds == NoBurst /\ []OneInFlight

(* An enabled timer fires, or is stopped, started anew or destroyed.       *)
EnabledFires == \A t \in Sigs : enabled[t] ~> (~enabled[t] \/ since[t][1] = 0)
=============================================================================
