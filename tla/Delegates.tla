----------------------------- MODULE Delegates -----------------------------
(***************************************************************************)
(* Delegates at work: the containers UnicastDelegate and MulticastDelegate *)
(* (delegate/UnicastDelegate.h, delegate/MulticastDelegate.h) of one       *)
(* application thread, and the calls of every delegate class, which run on *)
(* that thread or are sent to a worker thread (DelegateAsync.h,            *)
(* DelegateAsyncWait.h).                                                   *)
(*                                                                         *)
(* The application thread has a stack of frames, one per operator() that   *)
(* is active.  A target function that runs on it may use the same          *)
(* containers again.  Other owners of the target objects drop them at any  *)
(* time.  The worker's queue is the Mailbox of module Mailbox, of which    *)
(* only order and capacity matter here.                                    *)
(***************************************************************************)
EXTENDS DelegateTypes, Naturals, Sequences, SequencesExt, FiniteSets

CONSTANTS
    Slots,      \* UnicastDelegate variables
    Lists,      \* MulticastDelegate variables
    Made,       \* the delegates MakeDelegate() is used for
    Cap,        \* limit of the worker's queue
    MaxNodes,   \* bound: nodes of a list
    MaxDepth,   \* bound: nested calls
    MaxOps      \* bound: operations of the application thread

ASSUME DelegatesConstants ==
    /\ Made \subseteq SyncDelegates \cup AsyncDelegates
    /\ Cap \in Nat /\ MaxNodes \in Nat /\ MaxDepth \in Nat /\ MaxOps \in Nat
    /\ Nil \notin Slots \cup Lists \cup {"Free", "Member", "MemberSp", "Function", "raw", "shared", "weak"}

VARIABLES
    slot,       \* slot[s]: the delegate s holds, Unbound for none
    list,       \* list[l]: its nodes; the delegate of a node may be Unbound (null)
    casting,    \* casting[l]: m_broadcastCount
    cleanup,    \* cleanup[l]: m_cleanup
    stack,      \* frames of the application thread, the innermost first
    inbox,      \* messages to the worker
    worker,     \* the message whose target runs on the worker
    owned,      \* objects that have an owner outside the delegates
    ops,        \* operations so far
    calls       \* blocking calls so far

delegatesVars == <<slot, list, casting, cleanup, stack, inbox, worker, owned, ops, calls>>
conts == <<slot, list, casting, cleanup>>

Idle == [d |-> Unbound, n |-> 0, pin |-> Nil]

DelegatesInit ==
    /\ slot = [s \in Slots |-> Unbound]
    /\ list = [l \in Lists |-> <<>>]
    /\ casting = [l \in Lists |-> 0]
    /\ cleanup = [l \in Lists |-> FALSE]
    /\ stack = <<>> /\ inbox = <<>> /\ worker = Idle
    /\ owned = Objs /\ ops = 0 /\ calls = 0

-----------------------------------------------------------------------------
(* Objects live as long as somebody owns them: an owner outside, a         *)
(* delegate bound to a shared pointer, or a call that has locked a weak    *)
(* one.                                                                    *)

Delegates ==
    Range(slot) \cup (UNION {{e.d : e \in ToSet(list[l])} : l \in Lists})
    \cup {m.d : m \in ToSet(inbox)} \cup {worker.d}

Pins == {worker.pin} \cup {f.pin : f \in ToSet(stack)}

Alive == owned \cup {d.obj : d \in {e \in Delegates : e.own = "shared"}} \cup (Pins \ {Nil})

Top == Head(stack)

(* Application code is in control: at the outermost level or in a target.  *)
InControl == stack # <<>> => Top.phase = "run"

Op == InControl /\ ops < MaxOps /\ ops' = ops + 1

-----------------------------------------------------------------------------
(* The nodes of a list.                                                    *)

Ids(l) == {e.id : e \in ToSet(list[l])}
FreshId(l) == CHOOSE i \in 1..MaxNodes : i \notin Ids(l)
Place(l, id) == CHOOSE i \in DOMAIN list[l] : list[l][i].id = id
After(l, id) ==
    LET next == {i \in DOMAIN list[l] : i > 1 /\ list[l][i - 1].id = id}
    IN  IF next = {} THEN 0 ELSE list[l][CHOOSE i \in next : TRUE].id
First(l) == IF list[l] = <<>> THEN 0 ELSE list[l][1].id
At(l, id) == IF id \in Ids(l) THEN list[l][Place(l, id)].d ELSE Unbound

(* The nodes that are not null.                                            *)
Bound(seq) ==
    LET picked[n \in 0..Len(seq)] ==
          IF n = 0 THEN <<>> ELSE IF seq[n].d # Unbound THEN Append(picked[n - 1], seq[n]) ELSE picked[n - 1]
    IN  picked[Len(seq)]

(* The delegate object a frame has called is changed in its container.     *)
Rewrite(f, d) ==
    IF f.list = Nil
    THEN slot' = [slot EXCEPT ![f.slot] = d] /\ UNCHANGED list
    ELSE /\ list' = [list EXCEPT ![f.list] =
                       [i \in DOMAIN @ |-> IF @[i].id = f.node THEN [@[i] EXCEPT !.d = d] ELSE @[i]]]
         /\ UNCHANGED slot

-----------------------------------------------------------------------------
(* Containers.                                                             *)

(* UnicastDelegate: a delegate is cloned in; null, copied or moved.        *)
UnicastAssign(s, d) ==
    /\ Op
    /\ slot' = [slot EXCEPT ![s] = Clone(d)]
    /\ UNCHANGED <<list, casting, cleanup, stack, inbox, worker, owned, calls>>

UnicastClear(s) ==
    /\ Op /\ slot[s] # Unbound
    /\ slot' = [slot EXCEPT ![s] = Unbound]
    /\ UNCHANGED <<list, casting, cleanup, stack, inbox, worker, owned, calls>>

PushBack(l, d) ==
    /\ Op /\ Len(list[l]) < MaxNodes
    /\ list' = [list EXCEPT ![l] = Append(@, [id |-> FreshId(l), d |-> Clone(d)])]
    /\ UNCHANGED <<slot, casting, cleanup, stack, inbox, worker, owned, calls>>

(* Mutant: the node goes at once.                                          *)
EraseAtOnce(l, i) == list' = [list EXCEPT ![l] = RemoveAt(@, i)] /\ UNCHANGED cleanup

(* During a broadcast a node is only emptied: an iterator may stand on it. *)
Erase(l, i) ==
    IF casting[l] > 0
    THEN /\ list' = [list EXCEPT ![l][i].d = Unbound]
         /\ cleanup' = [cleanup EXCEPT ![l] = TRUE]
    ELSE list' = [list EXCEPT ![l] = RemoveAt(@, i)] /\ UNCHANGED cleanup

(* The first node whose delegate equals d goes.                            *)
Matches(l, d, i) == list[l][i].d # Unbound /\ Equal(list[l][i].d, d, Alive)

RemoveDelegate(l, d) ==
    /\ Op
    /\ \E i \in DOMAIN list[l] :
         Matches(l, d, i) /\ (\A j \in 1..i - 1 : ~Matches(l, d, j)) /\ Erase(l, i)
    /\ UNCHANGED <<slot, casting, stack, inbox, worker, owned, calls>>

ClearNodes(l) ==
    IF casting[l] > 0 THEN [i \in DOMAIN list[l] |-> [list[l][i] EXCEPT !.d = Unbound]] ELSE <<>>

ClearList(l) ==
    /\ Op /\ list[l] # <<>>
    /\ list' = [list EXCEPT ![l] = ClearNodes(l)]
    /\ cleanup' = [cleanup EXCEPT ![l] = @ \/ casting[l] > 0]
    /\ UNCHANGED <<slot, casting, stack, inbox, worker, owned, calls>>

(* l = k: l is cleared and gets clones of the delegates of k.              *)
CopyList(l, k) ==
    LET kept == ClearNodes(l)
        new  == Bound(list[k])
        free == (1..MaxNodes) \ {e.id : e \in ToSet(kept)}
        ids  == CHOOSE h \in [1..Len(new) -> free] : IsInjective(h)
    IN  /\ Op /\ l # k /\ new # <<>> /\ Len(new) <= Cardinality(free)
        /\ list' = [list EXCEPT ![l] = kept \o
                      [i \in 1..Len(new) |-> [id |-> ids[i], d |-> Clone(new[i].d)]]]
        /\ cleanup' = [cleanup EXCEPT ![l] = @ \/ casting[l] > 0]
        /\ UNCHANGED <<slot, casting, stack, inbox, worker, owned, calls>>

(* operator() of the two containers calls a delegate, or goes along the    *)
(* list under a guard that counts the broadcasts.                          *)
Frame(s, l, node, phase, d) ==
    [slot |-> s, list |-> l, node |-> node, phase |-> phase, d |-> d, pin |-> Nil,
     n |-> 0, got |-> Nil, called |-> <<>>]

CallUnicast(s) ==
    /\ Op /\ slot[s] # Unbound /\ Len(stack) < MaxDepth
    /\ stack' = <<Frame(s, Nil, 0, "enter", slot[s])>> \o stack
    /\ UNCHANGED <<conts, inbox, worker, owned, calls>>

Broadcast(l) ==
    /\ Op /\ list[l] # <<>> /\ Len(stack) < MaxDepth
    /\ casting' = [casting EXCEPT ![l] = @ + 1]
    /\ stack' = <<Frame(Nil, l, First(l), "next", Unbound)>> \o stack
    /\ UNCHANGED <<slot, list, cleanup, inbox, worker, owned, calls>>

Iterating == stack # <<>> /\ Top.phase = "next"

(* The node the iterator stands on: called, or skipped when it is null.    *)
(* The list is the live one: nothing takes the snapshot that the comment   *)
(* of the class describes (MulticastDelegate.h:20-22, and MCSnapshot).     *)
CastNode ==
    /\ Iterating /\ Top.node # 0
    /\ LET d == At(Top.list, Top.node)
       IN  stack' = IF d = Unbound
                    THEN [stack EXCEPT ![1].node = After(Top.list, Top.node)]
                    ELSE [stack EXCEPT ![1].phase = "enter", ![1].d = d,
                                       ![1].called = Append(@, Top.node)]
    /\ UNCHANGED <<conts, inbox, worker, owned, ops, calls>>

(* The guard's destructor: the last broadcast sweeps the null nodes.       *)
LeaveGuard(l) ==
    /\ casting' = [casting EXCEPT ![l] = @ - 1]
    /\ IF casting[l] = 1 /\ cleanup[l]
       THEN list' = [list EXCEPT ![l] = Bound(@)] /\ cleanup' = [cleanup EXCEPT ![l] = FALSE]
       ELSE UNCHANGED <<list, cleanup>>

CastEnd ==
    /\ Iterating /\ Top.node = 0
    /\ LeaveGuard(Top.list) /\ stack' = Tail(stack)
    /\ UNCHANGED <<slot, inbox, worker, owned, ops, calls>>

-----------------------------------------------------------------------------
(* operator() of the delegate the innermost frame has entered.             *)

(* It returns: to the caller, or to the loop of the broadcast.             *)
Returned(st) ==
    IF st[1].list = Nil THEN Tail(st)
    ELSE [st EXCEPT ![1].phase = "next", ![1].d = Unbound, ![1].pin = Nil, ![1].n = 0,
                    ![1].got = Nil, ![1].node = After(st[1].list, st[1].node)]

Entered(cls, mode) == stack # <<>> /\ Top.phase = "enter" /\ Top.d.cls = cls /\ Top.d.mode = mode

(* A synchronous call runs its target here, or returns when it is empty.   *)
RunHere(empty, pin) ==
    /\ stack' = IF empty THEN Returned(stack) ELSE [stack EXCEPT ![1].phase = "run", ![1].pin = pin]
    /\ UNCHANGED <<conts, inbox, worker, owned, ops, calls>>

FreeCall     == Entered("Free", "sync")     /\ RunHere(FreeEmpty(Top.d), Nil)
MemberCall   == Entered("Member", "sync")   /\ RunHere(MemberEmpty(Top.d), Nil)
MemberSpCall == Entered("MemberSp", "sync") /\ RunHere(MemberSpEmpty(Top.d, Alive), Lock(Top.d, Alive))
FunctionCall == Entered("Function", "sync") /\ RunHere(FunctionEmpty(Top.d), Nil)

(* The worker accepts a message, or has no room for it.                    *)
DispatchDelegate(m) == IF Len(inbox) < Cap THEN inbox' = Append(inbox, m) ELSE UNCHANGED inbox

(* An asynchronous call sends a clone and returns at once.                 *)
SendClone(empty) ==
    /\ IF empty THEN UNCHANGED inbox ELSE DispatchDelegate([d |-> Clone(Top.d), n |-> 0])
    /\ stack' = Returned(stack)
    /\ UNCHANGED <<conts, worker, owned, ops, calls>>

FreeAsyncCall     == Entered("Free", "async")     /\ SendClone(FreeEmpty(Top.d))
MemberAsyncCall   == Entered("Member", "async")   /\ SendClone(MemberEmpty(Top.d))
MemberSpAsyncCall == Entered("MemberSp", "async") /\ SendClone(MemberSpEmpty(Top.d, Alive))
FunctionAsyncCall == Entered("Function", "async") /\ SendClone(FunctionEmpty(Top.d))

(* Mutant: the last result stays.                                          *)
SendCloneAndWaitStale(empty) ==
    LET d == [Top.d EXCEPT !.n = calls + 1]
    IN  /\ Rewrite(Top, d)
        /\ IF empty \/ Len(inbox) >= Cap
           THEN UNCHANGED inbox /\ stack' = Returned(stack)
           ELSE /\ DispatchDelegate([d |-> Clone(d), n |-> calls + 1])
                /\ stack' = [stack EXCEPT ![1].phase = "wait", ![1].n = calls + 1, ![1].d = d]
        /\ calls' = calls + 1
        /\ UNCHANGED <<casting, cleanup, worker, owned, ops>>

(* A blocking call forgets its last result, sends a clone, and waits if    *)
(* the worker has taken the message.                                       *)
SendCloneAndWait(empty) ==
    LET d == [Top.d EXCEPT !.ok = FALSE, !.val = Nil, !.n = calls + 1]
    IN  /\ Rewrite(Top, d)
        /\ IF empty \/ Len(inbox) >= Cap
           THEN UNCHANGED inbox /\ stack' = Returned(stack)
           ELSE /\ DispatchDelegate([d |-> Clone(d), n |-> calls + 1])
                /\ stack' = [stack EXCEPT ![1].phase = "wait", ![1].n = calls + 1, ![1].d = d]
        /\ calls' = calls + 1
        /\ UNCHANGED <<casting, cleanup, worker, owned, ops>>

FreeAsyncWaitCall     == Entered("Free", "wait")     /\ SendCloneAndWait(FreeEmpty(Top.d))
MemberAsyncWaitCall   == Entered("Member", "wait")   /\ SendCloneAndWait(MemberEmpty(Top.d))
MemberSpAsyncWaitCall == Entered("MemberSp", "wait") /\ SendCloneAndWait(MemberSpEmpty(Top.d, Alive))
FunctionAsyncWaitCall == Entered("Function", "wait") /\ SendCloneAndWait(FunctionEmpty(Top.d))

(* The semaphore was signalled: the result is read from the clone.         *)
WaitReturns ==
    /\ stack # <<>> /\ Top.phase = "wait" /\ Top.got # Nil
    /\ Rewrite(Top, [Top.d EXCEPT !.ok = TRUE, !.val = Top.got])
    /\ stack' = Returned(stack)
    /\ UNCHANGED <<casting, cleanup, inbox, worker, owned, ops, calls>>

(* It was not in time: the caller leaves when it gets the message's lock,  *)
(* which the worker holds while the target runs.                           *)
WaitTimesOut ==
    /\ stack # <<>> /\ Top.phase = "wait" /\ Top.got = Nil
    /\ stack' = [stack EXCEPT ![1].phase = "late"]
    /\ UNCHANGED <<conts, inbox, worker, owned, ops, calls>>

LateReturns ==
    /\ stack # <<>> /\ Top.phase = "late" /\ worker.n # Top.n
    /\ stack' = Returned(stack)
    /\ UNCHANGED <<conts, inbox, worker, owned, ops, calls>>

(* A target on the application thread returns, or throws: an exception     *)
(* unwinds the frame, and the guard of a broadcast with it.                *)
TargetReturns ==
    /\ stack # <<>> /\ Top.phase = "run"
    /\ stack' = Returned(stack)
    /\ UNCHANGED <<conts, inbox, worker, owned, ops, calls>>

TargetThrows ==
    /\ stack # <<>> /\ Top.phase = "run"
    /\ stack' = Tail(stack)
    /\ IF Top.list = Nil THEN UNCHANGED <<list, casting, cleanup>> ELSE LeaveGuard(Top.list)
    /\ UNCHANGED <<slot, inbox, worker, owned, ops, calls>>

-----------------------------------------------------------------------------
(* Invoke() on the worker.  m_sync makes the clone's own operator() run    *)
(* the target; a weak delegate looks for its object once more.             *)

Waits(n) == \E f \in ToSet(stack) : f.n = n /\ f.phase \in {"wait", "late"}

SignalCaller(n, value) ==
    stack' = [i \in DOMAIN stack |->
                IF stack[i].n = n /\ n > 0 THEN [stack[i] EXCEPT !.got = value] ELSE stack[i]]

Received(cls, mode) == worker = Idle /\ inbox # <<>> /\ inbox[1].d.cls = cls /\ inbox[1].d.mode = mode

(* No target: the message ends, and a waiting caller is signalled with a   *)
(* default value.                                                          *)
RunThere(runs, empty, pin) ==
    LET m == inbox[1] IN
    /\ inbox' = Tail(inbox)
    /\ IF runs /\ ~empty
       THEN worker' = [d |-> [m.d EXCEPT !.sync = TRUE], n |-> m.n, pin |-> pin] /\ UNCHANGED stack
       ELSE /\ UNCHANGED worker
            /\ IF runs THEN SignalCaller(m.n, 0) ELSE UNCHANGED stack
    /\ UNCHANGED <<conts, owned, ops, calls>>

(* Mutant: the object is found alive and not kept.                         *)
MemberSpAsyncInvokeUnpinned ==
    Received("MemberSp", "async") /\ RunThere(TRUE, MemberSpEmpty(inbox[1].d, Alive), Nil)

FreeAsyncInvoke     == Received("Free", "async")     /\ RunThere(TRUE, FreeEmpty(inbox[1].d), Nil)
MemberAsyncInvoke   == Received("Member", "async")   /\ RunThere(TRUE, MemberEmpty(inbox[1].d), Nil)
MemberSpAsyncInvoke == Received("MemberSp", "async") /\ RunThere(TRUE, MemberSpEmpty(inbox[1].d, Alive), Lock(inbox[1].d, Alive))
FunctionAsyncInvoke == Received("Function", "async") /\ RunThere(TRUE, FunctionEmpty(inbox[1].d), Nil)

FreeAsyncWaitInvoke     == Received("Free", "wait")     /\ RunThere(Waits(inbox[1].n), FreeEmpty(inbox[1].d), Nil)
MemberAsyncWaitInvoke   == Received("Member", "wait")   /\ RunThere(Waits(inbox[1].n), MemberEmpty(inbox[1].d), Nil)
MemberSpAsyncWaitInvoke == Received("MemberSp", "wait") /\ RunThere(Waits(inbox[1].n), MemberSpEmpty(inbox[1].d, Alive), Lock(inbox[1].d, Alive))
FunctionAsyncWaitInvoke == Received("Function", "wait") /\ RunThere(Waits(inbox[1].n), FunctionEmpty(inbox[1].d), Nil)

(* The target returns, and the clone keeps its value (here the number of   *)
(* the call), or it throws, and nobody is signalled.                       *)
WorkerReturns ==
    /\ worker # Idle /\ worker' = Idle
    /\ SignalCaller(worker.n, worker.n)
    /\ UNCHANGED <<conts, inbox, owned, ops, calls>>

WorkerThrows ==
    /\ worker # Idle /\ worker' = Idle
    /\ UNCHANGED <<conts, stack, inbox, owned, ops, calls>>

(* Another owner of a target object drops it.                              *)
Drop(o) ==
    /\ o \in owned /\ owned' = owned \ {o}
    /\ UNCHANGED <<conts, stack, inbox, worker, ops, calls>>

-----------------------------------------------------------------------------
ContainerStep ==
    \/ \E s \in Slots : UnicastClear(s) \/ CallUnicast(s) \/ \E d \in Made : d.obj \in owned \cup {Nil} /\ UnicastAssign(s, d)
    \/ \E l \in Lists :
         \/ \E d \in Made : d.obj \in owned \cup {Nil} /\ (PushBack(l, d) \/ RemoveDelegate(l, d))
         \/ \E s \in Slots : slot[s] # Unbound /\ (PushBack(l, slot[s]) \/ RemoveDelegate(l, slot[s]))
         \/ ClearList(l) \/ Broadcast(l) \/ \E k \in Lists : CopyList(l, k)

CallStep ==
    \/ FreeCall \/ MemberCall \/ MemberSpCall \/ FunctionCall
    \/ FreeAsyncCall \/ MemberAsyncCall \/ MemberSpAsyncCall \/ FunctionAsyncCall
    \/ FreeAsyncWaitCall \/ MemberAsyncWaitCall \/ MemberSpAsyncWaitCall \/ FunctionAsyncWaitCall
    \/ CastNode \/ CastEnd \/ WaitReturns \/ WaitTimesOut \/ LateReturns
    \/ TargetReturns \/ TargetThrows

WorkerStep ==
    \/ FreeAsyncInvoke \/ MemberAsyncInvoke \/ MemberSpAsyncInvoke \/ FunctionAsyncInvoke
    \/ FreeAsyncWaitInvoke \/ MemberAsyncWaitInvoke \/ MemberSpAsyncWaitInvoke \/ FunctionAsyncWaitInvoke
    \/ WorkerReturns \/ WorkerThrows

DelegatesNext == ContainerStep \/ CallStep \/ WorkerStep \/ \E o \in Objs : Drop(o)

DelegatesSpec == DelegatesInit /\ [][DelegatesNext]_delegatesVars

-----------------------------------------------------------------------------
(* What must hold.                                                         *)

FrameOK(fr) ==
    /\ fr.list \in Lists \cup {Nil} /\ fr.slot \in Slots \cup {Nil}
    /\ fr.phase \in {"next", "enter", "run", "wait", "late"}
    /\ fr.pin \in Objs \cup {Nil} /\ (fr.phase = "next" => fr.d = Unbound)

(* The variables have their types; no bounded container is over its limit. *)
DelegatesTypeOK ==
    /\ \A l \in Lists :
         /\ Len(list[l]) <= MaxNodes /\ Ids(l) \subseteq 1..MaxNodes
         /\ \A i, j \in DOMAIN list[l] : list[l][i].id = list[l][j].id => i = j
    /\ \A fr \in ToSet(stack) : FrameOK(fr)
    /\ Len(stack) <= MaxDepth /\ Len(inbox) <= Cap /\ owned \subseteq Objs
    /\ \A l \in Lists : casting[l] \in 0..MaxDepth /\ cleanup[l] \in BOOLEAN

(* However targets add, remove, clear and broadcast again, the iterator of *)
(* every broadcast stands on a node of its list (MulticastDelegate.h:56).  *)
IteratorsValid ==
    \A fr \in ToSet(stack) : fr.list # Nil /\ fr.node # 0 => fr.node \in Ids(fr.list)

BoundIds(l) == {e.id : e \in {x \in ToSet(list[l]) : x.d # Unbound}}

(* m_broadcastCount counts the broadcasts that are active, also when a     *)
(* target throws; when there is none, no null node is left behind.         *)
CleanedUp ==
    \A l \in Lists :
      /\ casting[l] = Cardinality({i \in DOMAIN stack : stack[i].list = l})
      /\ casting[l] = 0 => ~cleanup[l] /\ \A e \in ToSet(list[l]) : e.d # Unbound

(* When a broadcast comes to the end of its list, it has called every      *)
(* delegate that is there, each node once and in the order of the list:    *)
(* those removed on the way cost nobody else a call, those added on the    *)
(* way are called as well.  This is what the loop does, not what the       *)
(* comment of the class says of a removed delegate (MCSnapshot).           *)
RemainingCalledOnce ==
    Iterating /\ Top.node = 0 =>
      /\ BoundIds(Top.list) \subseteq ToSet(Top.called)
      /\ \A i, j \in DOMAIN Top.called :
           i < j => Place(Top.list, Top.called[i]) < Place(Top.list, Top.called[j])

(* What a broadcast is worth while its targets change its list.            *)
BroadcastsExact == DelegatesTypeOK /\ IteratorsValid /\ CleanedUp /\ RemainingCalledOnce

(* A target bound to a shared or a weak pointer runs on the worker, and a  *)
(* weak one on the caller, on an object that lives until it returns,       *)
(* whoever drops the object meanwhile.                                     *)
TargetAlive ==
    /\ worker.d.own \in {"shared", "weak"} => worker.d.obj \in Alive
    /\ \A fr \in ToSet(stack) : fr.phase = "run" /\ fr.d.own = "weak" => fr.d.obj \in Alive

(* IsSuccess() of a delegate speaks of its last call, and the value is the *)
(* one this call's target returned: never that of an earlier call that     *)
(* timed out, nor of the delegate it was copied from.  (A weak delegate    *)
(* whose object died on the way tells success and has no value.)           *)
ReturnsOwnResult ==
    \A d \in Delegates : d.ok => d.val = d.n \/ (d.own = "weak" /\ d.val = 0)

(* Remove() takes a delegate that calls the same target as its argument,   *)
(* on the same route if both are asynchronous; a std::function stands for  *)
(* every other one, and one dead object for every other.                   *)
SameTarget(d, e) ==
    \/ d.cls = "Function" /\ e.cls = "Function"
    \/ d.own = "weak" /\ {d.obj, e.obj} \cap Alive = {}
    \/ d.fn = e.fn /\ d.obj = e.obj /\ (d.mode # "sync" => d.route = e.route)

RemovesSameTarget ==
    [][\A l \in {k \in Lists : list'[k] # list[k]} :
       \A d \in Made \cup Range(slot) : RemoveDelegate(l, d) =>
         \A e \in ToSet(list[l]) :
           e.id \in BoundIds(l) /\ e.id \notin BoundIds(l)' => SameTarget(e.d, d)]_delegatesVars
=============================================================================
