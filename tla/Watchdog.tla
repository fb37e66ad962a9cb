------------------------------- MODULE Watchdog -----------------------------
(***************************************************************************)
(* The watchdog of the worker threads (port/os/*/Thread.cpp).  A thread    *)
(* notes when it was last alive; the thread that calls ProcessTimers()     *)
(* calls WatchdogCheckAll() too, which ends the program when a registered  *)
(* thread has not been alive for longer than its timeout.                  *)
(*                                                                         *)
(* Timers and watchdog share that thread and nothing else, so that an      *)
(* application is looked at that uses one or the other.  Time is relative: *)
(* age[w] is the present minus m_lastAliveTime.  Messages are left out: a  *)
(* waiting loop may get one at any time.                                   *)
(***************************************************************************)
EXTENDS Timer

CONSTANTS
    Workers,        \* Thread objects
    WatchPorts,     \* the ports to look at
    WatchTimeout,   \* the watchdog timeout, in ticks
    MaxWatched,     \* MAX_WATCHDOG_THREADS
    Late            \* bound: ticks a thread that can go on is kept waiting

Rtos == {"freertos", "threadx", "zephyr", "cmsis"}

ASSUME WatchConstants ==
    /\ WatchPorts \subseteq Rtos \cup {"stdlib", "win32", "qt"}
    /\ WatchTimeout \in Nat \ {0} /\ MaxWatched \in Nat /\ Late \in Nat

VARIABLES
    watching,           \* this application uses the watchdog
    wport,              \* its port
    exists,             \* objects that are not destroyed
    task,               \* where the loop of every thread is
    spent,              \* ticks a loop has been waiting or running the handler; what they were
                        \*   when the handler has returned
    age,                \* ticks since m_lastAliveTime
    m_watchdogTimeout,  \* "none", "set", or "raw": not initialized
    m_exit,             \* objects with m_exit
    registry,           \* the linked list, from its head
    starting,           \* the CreateThread() that has started its thread: [thread, dog], or Nil
    unset,              \* threads whose CreateThread() had not stored the timeout when the
                        \*   loop looked at it
    check,              \* WatchdogCheckAll(): the snapshot, and the ticks since WatchdogCheck()
                        \*   has read the time, or Nil
    alarm               \* the thread WatchdogHandler() was called for: [thread, delta], or Nil

loopVars  == <<exists, task, spent, age, m_watchdogTimeout, m_exit, registry, starting, unset>>
watchVars == <<watching, wport, loopVars, check, alarm>>
allVars   == <<vars, watchVars>>

NoCheck == [todo |-> <<>>, behind |-> Nil]

WatchInit ==
    /\ Init
    /\ watching \in BOOLEAN /\ wport \in WatchPorts
    /\ ~watching => wport = CHOOSE p \in WatchPorts : TRUE
    /\ exists = Workers /\ task = [w \in Workers |-> "none"]
    /\ spent = [w \in Workers |-> 0] /\ age = [w \in Workers |-> 0]
    /\ m_watchdogTimeout = [w \in Workers |-> IF wport = "freertos" THEN "none" ELSE "raw"]
    /\ m_exit = {} /\ registry = <<>> /\ starting = Nil /\ unset = {}
    /\ check = NoCheck /\ alarm = Nil

(* Both are counted as far as they matter, and for registered threads.     *)
AgeCap == WatchTimeout + Late + 1
OneMore(n, cap) == IF n < cap THEN n + 1 ELSE n

Goto(w, place) == task' = [task EXCEPT ![w] = place] /\ spent' = [spent EXCEPT ![w] = 0]
AliveNow(w) == age' = [age EXCEPT ![w] = 0]

-----------------------------------------------------------------------------
(* The loop.                                                               *)

(* Mutant: an idle thread wakes up once in a whole period.                 *)
WholePeriod == WatchTimeout

(* How long a watched thread waits for a message: a part of the timeout,   *)
(* and a tick at least.                                                    *)
WaitTicks ==
    LET part == WatchTimeout \div (IF wport = "stdlib" THEN 10 ELSE 4)
    IN  IF part = 0 THEN 1 ELSE part

Waits(w) ==
    CASE m_watchdogTimeout[w] = "set" -> {"timed"}
      [] m_watchdogTimeout[w] = "none" -> {"forever"}
      [] OTHER -> {"timed", "forever"}

(* The top of the loop; on an RTOS m_exit, which nothing resets, ends it.  *)
LoopTop(w) ==
    /\ task[w] \in {"top", "done"}
    /\ IF wport \in Rtos /\ w \in m_exit
       THEN Goto(w, "ended") /\ UNCHANGED <<age, unset>>
       ELSE /\ \E place \in Waits(w) : Goto(w, place)
            /\ AliveNow(w)
            /\ unset' = IF starting # Nil /\ starting.thread = w THEN unset \cup {w} ELSE unset \ {w}
    /\ UNCHANGED <<exists, m_watchdogTimeout, m_exit, registry, starting>>

(* A wait of a length nobody has set may end at any time.                 *)
WaitEnds(w) ==
    /\ task[w] = "timed" /\ (m_watchdogTimeout[w] = "set" => spent[w] >= WaitTicks)
    /\ Goto(w, "top")
    /\ UNCHANGED <<exists, age, m_watchdogTimeout, m_exit, registry, starting, unset>>

(* A message comes; only the standard-library port notes the time then.    *)
Receive(w) ==
    /\ task[w] \in {"timed", "forever"}
    /\ Goto(w, "busy")
    /\ IF wport = "stdlib" THEN AliveNow(w) ELSE UNCHANGED age
    /\ UNCHANGED <<exists, m_watchdogTimeout, m_exit, registry, starting, unset>>

(* The handler returns; the event loop of Qt knows nothing of the watchdog.*)
HandlerReturns(w) ==
    /\ task[w] = "busy"
    /\ IF wport = "qt" THEN Goto(w, "forever")
       ELSE task' = [task EXCEPT ![w] = "done"] /\ UNCHANGED spent
    /\ UNCHANGED <<exists, age, m_watchdogTimeout, m_exit, registry, starting, unset>>

(* A handler that takes long says that it is alive.                        *)
ThreadCheck(w) ==
    /\ task[w] = "busy"
    /\ AliveNow(w) /\ Goto(w, "busy")
    /\ UNCHANGED <<exists, m_watchdogTimeout, m_exit, registry, starting, unset>>

-----------------------------------------------------------------------------
(* The application creates, ends and destroys threads, one at a time.      *)

Operation(p) == p # Ticker /\ starting = Nil /\ Calls(p)

Register(w) == registry' = IF w \in ToSet(registry) THEN registry ELSE <<w>> \o registry

Watch(w, dog) ==
    IF dog THEN m_watchdogTimeout' = [m_watchdogTimeout EXCEPT ![w] = "set"] /\ Register(w)
           ELSE UNCHANGED <<m_watchdogTimeout, registry>>

(* FreeRTOS: everything is stored before there is a task.                  *)
FreeRTOSCreateThread(w, dog) ==
    /\ AliveNow(w) /\ Watch(w, dog) /\ Goto(w, "top")
    /\ UNCHANGED <<starting, unset>>

(* The others start the thread first, *)
StartThread(w, dog) ==
    /\ Goto(w, IF wport = "qt" THEN "forever" ELSE "top")
    /\ starting' = [thread |-> w, dog |-> dog] /\ unset' = unset \cup {w}
    /\ UNCHANGED <<age, m_watchdogTimeout, registry>>

CreateThread(p, w, dog) ==
    /\ Operation(p) /\ w \in exists /\ task[w] = "none"
    /\ IF wport = "freertos" THEN FreeRTOSCreateThread(w, dog) ELSE StartThread(w, dog)
    /\ m_exit' = IF wport \in Rtos THEN m_exit ELSE m_exit \ {w}
    /\ UNCHANGED exists

(* and then store the time and the timeout.                                *)
StoreTimeout ==
    /\ starting # Nil /\ starting' = Nil
    /\ AliveNow(starting.thread) /\ Watch(starting.thread, starting.dog)
    /\ UNCHANGED <<exists, task, spent, m_exit, unset>>

(* ExitThread() waits for the handler; the thread stays registered.        *)
ExitThread(p, w) ==
    /\ Operation(p) /\ w \in exists /\ task[w] \notin {"none", "busy"}
    /\ Goto(w, "none") /\ m_exit' = m_exit \cup {w} /\ unset' = unset \ {w}
    /\ UNCHANGED <<exists, age, m_watchdogTimeout, registry, starting>>

(* The first element of the list that is the thread is unlinked.           *)
Unregister(w) ==
    \/ w \notin ToSet(registry) /\ UNCHANGED registry
    \/ \E i \in DOMAIN registry :
         /\ registry[i] = w /\ \A j \in 1..i - 1 : registry[j] # w
         /\ registry' = RemoveAt(registry, i)

(* ~Thread(): ExitThread(), then the thread leaves the list.               *)
DestroyThread(p, w) ==
    /\ Operation(p) /\ w \in exists /\ task[w] # "busy"
    /\ Goto(w, "none") /\ exists' = exists \ {w} /\ unset' = unset \ {w}
    /\ Unregister(w)
    /\ UNCHANGED <<age, m_watchdogTimeout, m_exit, starting>>

-----------------------------------------------------------------------------
(* The thread that calls ProcessTimers().                                  *)

(* Mutant: the count is compared before the head is taken.                 *)
SnapshotShort == SubSeq(registry, 1, MaxWatched - 1)

Snapshot == SubSeq(registry, 1, IF Len(registry) < MaxWatched THEN Len(registry) ELSE MaxWatched)

(* The list is copied under its lock, the threads are looked at without.   *)
WatchdogCheckAll ==
    /\ check = NoCheck /\ registry # <<>>
    /\ check' = [check EXCEPT !.todo = Snapshot]
    /\ UNCHANGED alarm

ReadNow ==
    /\ check.todo # <<>> /\ check.behind = Nil
    /\ check' = [check EXCEPT !.behind = 0]
    /\ UNCHANGED alarm

(* now - lastAlive: on FreeRTOS without sign, so that a thread that was    *)
(* alive since now was read is a very long time behind.                    *)
TooLong(delta) == delta > WatchTimeout \/ (wport = "freertos" /\ delta < 0)

(* A thread that was destroyed since the snapshot is read all the same.    *)
WatchdogCheck ==
    LET w == Head(check.todo)  delta == age[w] - check.behind
    IN  /\ check.behind # Nil
        /\ check' = [todo |-> Tail(check.todo), behind |-> Nil]
        /\ IF w \notin exists THEN alarm' \in {Nil, [thread |-> w, delta |-> 0]}
           ELSE alarm' = IF m_watchdogTimeout[w] = "set" /\ TooLong(delta)
                         THEN [thread |-> w, delta |-> delta] ELSE Nil

Checks == WatchdogCheckAll \/ ReadNow \/ WatchdogCheck

OnTime(w) == task[w] = "timed" /\ m_watchdogTimeout[w] = "set"

(* Time passes; loops that can go on do so, and the timed waits end, no    *)
(* more than Late ticks late.                                              *)
WatchTick ==
    /\ \A w \in Workers : task[w] \notin {"top", "done"} /\ (OnTime(w) => spent[w] < WaitTicks + Late)
    /\ check.behind # Nil => check.behind < Late
    /\ age' = [w \in Workers |-> IF w \in ToSet(registry) THEN OneMore(age[w], AgeCap) ELSE age[w]]
    /\ spent' = [w \in Workers |-> IF OnTime(w) \/ (task[w] = "busy" /\ w \in ToSet(registry))
                                   THEN OneMore(spent[w], WatchTimeout + 1) ELSE spent[w]]
    /\ check' = IF check.behind = Nil THEN check ELSE [check EXCEPT !.behind = @ + 1]
    /\ UNCHANGED <<exists, task, m_watchdogTimeout, m_exit, registry, starting, unset, alarm>>

-----------------------------------------------------------------------------
Loop(w) == LoopTop(w) \/ WaitEnds(w)
Handles(w) == Receive(w) \/ HandlerReturns(w) \/ ThreadCheck(w)

(* A thread that was never given a timeout is of no interest here.         *)
Uses(p, w) ==
    \/ ExitThread(p, w) \/ DestroyThread(p, w)
    \/ CreateThread(p, w, TRUE)
    \/ m_watchdogTimeout[w] = "set" /\ CreateThread(p, w, FALSE)

WatchNext ==
    \/ /\ \E w \in Workers : Loop(w) \/ Handles(w)
       /\ UNCHANGED <<ops, check, alarm>>
    \/ (\E p \in Threads, w \in Workers : Uses(p, w)) /\ UNCHANGED <<check, alarm>>
    \/ StoreTimeout /\ UNCHANGED <<ops, check, alarm>>
    \/ Checks /\ UNCHANGED <<ops, loopVars>>
    \/ WatchTick /\ UNCHANGED ops

(* WatchdogHandler() does not return.                                      *)
ClockNext ==
    \/ /\ watching /\ alarm = Nil /\ WatchNext
       /\ UNCHANGED <<subscribers, timerVars, pacedVars, watching, wport>>
    \/ ~watching /\ Next /\ UNCHANGED watchVars

(* The fairness of Timer, for an application that uses timers.             *)
TimerFairness ==
    /\ WF_left(~watching /\ Tick) /\ WF_emit(~watching /\ ProcessTimers) /\ WF_serving(~watching /\ Worker)
    /\ \A p \in Threads : WF_<<temp, old>>(~watching /\ Finish(p)) /\ WF_emit(~watching /\ Emission(p))

(* Time passes, the ticker's loop goes on, and so do loops that can;       *)
(* handlers need not return.                                               *)
WatchFairness ==
    /\ WF_<<age, spent, check>>(watching /\ alarm = Nil /\ WatchTick)
    /\ WF_<<check, alarm>>(watching /\ alarm = Nil /\ Checks)
    /\ \A w \in Workers : WF_<<task, spent, age>>(watching /\ alarm = Nil /\ Loop(w))

ClockSpec == WatchInit /\ [][ClockNext]_allVars /\ TimerFairness /\ WatchFairness

-----------------------------------------------------------------------------
(* What must hold.                                                         *)

WatchTypeOK ==
    /\ exists \subseteq Workers /\ m_exit \subseteq Workers /\ unset \subseteq Workers
    /\ task \in [Workers -> {"none", "top", "timed", "forever", "busy", "done", "ended"}]
    /\ spent \in [Workers -> 0..AgeCap] /\ age \in [Workers -> 0..AgeCap]
    /\ ToSet(check.todo) \subseteq Workers

(* The list holds each watched thread once, and no destroyed one.          *)
RegistryKept ==
    /\ IsInjective(registry) /\ ToSet(registry) \subseteq exists
    /\ \A w \in ToSet(registry) : m_watchdogTimeout[w] = "set"

(* An alarm is raised for a thread whose handler has been running for      *)
(* about its timeout without ThreadCheck(), and never for one that is idle *)
(* (Thread.cpp:401), unless                                                *)
(*   - the thread has ended, which does not unregister it,                 *)
(*   - its loop began to wait before CreateThread() had stored the timeout,*)
(*   - it is a Qt thread, whose idle time nobody notes,                    *)
(*   - FreeRTOS: it was alive while WatchdogCheck() was reading,           *)
(*   - it was destroyed while WatchdogCheckAll() was under way.            *)
AlarmsJustified ==
    alarm # Nil /\ alarm.thread \in exists =>
      \/ task[alarm.thread] \in {"busy", "done"} /\ spent[alarm.thread] > WatchTimeout
                - (IF wport = "stdlib" THEN 0 ELSE WaitTicks + Late)
      \/ task[alarm.thread] \in {"none", "ended"}
      \/ alarm.thread \in unset
      \/ wport = "qt"
      \/ wport = "freertos" /\ alarm.delta < 0

(* The watchdog watches the threads it should and tells no lies.           *)
WatchdogHolds == WatchTypeOK /\ RegistryKept /\ AlarmsJustified

(* A watched thread that hangs in a handler is reported, unless the list   *)
(* has more threads before it than are looked at.                          *)
StallIsReported ==
    \A w \in Workers :
      LET hangs  == task[w] = "busy" /\ spent[w] > WatchTimeout
          places == {i \in DOMAIN registry : registry[i] = w /\ i <= MaxWatched}
      IN  hangs /\ places # {} ~> alarm # Nil \/ ~hangs \/ places = {}

(* What time should bring about it does, timers and alarms.               *)
NothingOverdue == EnabledFires /\ StallIsReported
=============================================================================
