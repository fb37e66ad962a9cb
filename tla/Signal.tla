------------------------------- MODULE Signal -------------------------------
(***************************************************************************)
(* Signals and their connections (delegate/Signal.h).                      *)
(*                                                                         *)
(* A signal keeps its subscribers in a block on the heap that it shares    *)
(* with the connections; Clear() gives it a new block.  A subscriber is    *)
(* the copy of a delegate that Connect() makes, here a natural number: a   *)
(* copy is told apart from every other copy, also of the same delegate.    *)
(* Each thread emits, and uses its own connections; all threads may        *)
(* connect to, clear and destroy the signals.                              *)
(*                                                                         *)
(* The locks m_mutex and State::mtx are held within single actions; an     *)
(* emission holds neither while subscribers run, and Clear() gives up the  *)
(* first before it takes the second.                                       *)
(***************************************************************************)
EXTENDS Naturals, Sequences, SequencesExt, FiniteSets

CONSTANTS
    Sigs,           \* signals
    Threads,        \* threads that use them
    Conns,          \* ScopedConnection variables
    Owner,          \* Owner[c]: the thread that uses connection c
    MaxCopies,      \* bound: calls of Connect()
    MaxBlocks,      \* bound: blocks of a signal
    MaxOps,         \* bound: operations the application calls
    Nil

ASSUME SignalConstants ==
    /\ Owner \in [Conns -> Threads]
    /\ MaxCopies \in Nat /\ MaxBlocks \in Nat \ {0} /\ MaxOps \in Nat /\ Nil \notin 1..MaxCopies

VARIABLES
    up,             \* signals that are not destroyed
    block,          \* block[g]: number of the block the signal has now
    alive,          \* alive[g][b]: State::alive
    delegates,      \* delegates[g][b]: State::delegates, the copies in order
    conn,           \* conn[c]: [sig, block, copy], or Nil when not connected
    temp,           \* temp[p]: the connection Connect() has returned to thread p
    old,            \* old[p]: the block Clear() on thread p has taken out, or Nil
    emit,           \* emit[p]: the emission on thread p, or Quiet
    copies,         \* copies made so far
    gone,           \* copies that were disconnected, cleared or destroyed
    ops             \* operations called so far

subscribers == <<up, block, alive, delegates, conn, temp, old, emit, copies, gone>>
sigVars == <<subscribers, ops>>

Copies == 1..MaxCopies
Blocks == 1..MaxBlocks

(* had: the subscribers when the snapshot was taken; before: those that    *)
(* were gone by then; called: those called so far.                         *)
Quiet == [todo |-> <<>>, run |-> Nil, had |-> <<>>, before |-> {}, called |-> <<>>, on |-> FALSE]

SigInit ==
    /\ up = Sigs /\ block = [g \in Sigs |-> 1]
    /\ alive = [g \in Sigs |-> [b \in Blocks |-> TRUE]]
    /\ delegates = [g \in Sigs |-> [b \in Blocks |-> <<>>]]
    /\ conn = [c \in Conns |-> Nil] /\ temp = [p \in Threads |-> Nil]
    /\ old = [p \in Threads |-> Nil] /\ emit = [p \in Threads |-> Quiet]
    /\ copies = 0 /\ gone = {} /\ ops = 0

Now(g) == delegates[g][block[g]]

(* SelectSeq() with a set for its test: the elements of s that are in S.   *)
Select(s, S) ==
    LET f[n \in 0..Len(s)] == IF n = 0 THEN <<>> ELSE IF s[n] \in S THEN Append(f[n - 1], s[n]) ELSE f[n - 1]
    IN  f[Len(s)]

(* A thread is in application code: outside every emission, or in a        *)
(* subscriber; and it is not inside an operation of two steps.             *)
InControl(p) == temp[p] = Nil /\ old[p] = Nil /\ (emit[p].on => emit[p].run # Nil)

(* Application code on p calls an operation.                               *)
Calls(p) == InControl(p) /\ ops < MaxOps /\ ops' = ops + 1

-----------------------------------------------------------------------------
(* Connect(): the copy goes to the end of the list.                        *)
Connect(p, g) ==
    /\ Calls(p) /\ g \in up /\ copies < MaxCopies
    /\ copies' = copies + 1
    /\ delegates' = [delegates EXCEPT ![g][block[g]] = Append(@, copies')]
    /\ temp' = [temp EXCEPT ![p] = [sig |-> g, block |-> block[g], copy |-> copies']]
    /\ UNCHANGED <<up, block, alive, conn, old, emit, gone>>

(* The very copy of the connection is removed, from its own block.         *)
DisconnectImpl(k) ==
    IF alive[k.sig][k.block]
    THEN delegates' = [delegates EXCEPT ![k.sig][k.block] = Select(@, Copies \ {k.copy})]
    ELSE UNCHANGED delegates

(* conn = Connect(...): what conn held before is disconnected.             *)
MoveAssign(p, c) ==
    /\ temp[p] # Nil /\ Owner[c] = p
    /\ IF conn[c] = Nil THEN UNCHANGED <<delegates, gone>>
       ELSE DisconnectImpl(conn[c]) /\ gone' = gone \cup {conn[c].copy}
    /\ conn' = [conn EXCEPT ![c] = temp[p]]
    /\ temp' = [temp EXCEPT ![p] = Nil]
    /\ UNCHANGED <<up, block, alive, old, emit, copies, ops>>

(* Disconnect(), also by the destructor of a ScopedConnection.             *)
Disconnect(p, c) ==
    /\ Calls(p) /\ Owner[c] = p /\ conn[c] # Nil
    /\ DisconnectImpl(conn[c]) /\ gone' = gone \cup {conn[c].copy}
    /\ conn' = [conn EXCEPT ![c] = Nil]
    /\ UNCHANGED <<up, block, alive, temp, old, emit, copies>>

(* Clear(): a new block under m_mutex, then the old one is emptied.        *)
ClearSwap(p, g) ==
    /\ Calls(p) /\ g \in up /\ block[g] < MaxBlocks
    /\ old' = [old EXCEPT ![p] = [sig |-> g, block |-> block[g]]]
    /\ block' = [block EXCEPT ![g] = @ + 1]
    /\ UNCHANGED <<up, alive, delegates, conn, temp, emit, copies, gone>>

ClearOld(p) ==
    /\ old[p] # Nil
    /\ LET g == old[p].sig  b == old[p].block
       IN  /\ alive' = [alive EXCEPT ![g][b] = FALSE]
           /\ gone' = gone \cup ToSet(delegates[g][b])
           /\ delegates' = [delegates EXCEPT ![g][b] = <<>>]
    /\ old' = [old EXCEPT ![p] = Nil]
    /\ UNCHANGED <<up, block, conn, temp, emit, copies, ops>>

(* ~Signal().                                                              *)
Destroy(p, g) ==
    /\ Calls(p) /\ g \in up
    /\ up' = up \ {g}
    /\ alive' = [alive EXCEPT ![g][block[g]] = FALSE]
    /\ gone' = gone \cup ToSet(Now(g))
    /\ delegates' = [delegates EXCEPT ![g][block[g]] = <<>>]
    /\ UNCHANGED <<block, conn, temp, old, emit, copies>>

-----------------------------------------------------------------------------
(* Emission: the subscribers at one moment, each kept alive, are called    *)
(* one after another without a lock.                                       *)

GetSnapshot(g) == Now(g)

Begin(p, snapshot) ==
    emit' = [emit EXCEPT ![p] = [todo |-> snapshot, run |-> Nil, had |-> snapshot,
                                 before |-> gone, called |-> <<>>, on |-> TRUE]]

Emit(p, g) ==
    /\ InControl(p) /\ ~emit[p].on /\ g \in up
    /\ Begin(p, GetSnapshot(g))
    /\ UNCHANGED <<up, block, alive, delegates, conn, temp, old, copies, gone, ops>>

(* Mutant: subscribers that are gone by now take their successor's turn.   *)
NextSubscriberLive(p) ==
    LET rest == Tail(emit[p].todo)
    IN  emit' = [emit EXCEPT ![p].run = Head(emit[p].todo), ![p].called = Append(@, Head(emit[p].todo)),
                             ![p].todo = IF Head(emit[p].todo) \in gone /\ rest # <<>> THEN Tail(rest) ELSE rest]

NextSubscriber(p) ==
    emit' = [emit EXCEPT ![p].run = Head(emit[p].todo), ![p].called = Append(@, Head(emit[p].todo)),
                         ![p].todo = Tail(@)]

InvokeSnapshot(p) ==
    /\ emit[p].on /\ emit[p].run = Nil /\ emit[p].todo # <<>>
    /\ NextSubscriber(p)
    /\ UNCHANGED <<up, block, alive, delegates, conn, temp, old, copies, gone, ops>>

SubscriberReturns(p) ==
    /\ emit[p].run # Nil /\ InControl(p)
    /\ emit' = [emit EXCEPT ![p].run = Nil]
    /\ UNCHANGED <<up, block, alive, delegates, conn, temp, old, copies, gone, ops>>

EmitReturns(p) ==
    /\ emit[p].on /\ emit[p].run = Nil /\ emit[p].todo = <<>>
    /\ emit' = [emit EXCEPT ![p] = Quiet]
    /\ UNCHANGED <<up, block, alive, delegates, conn, temp, old, copies, gone, ops>>

SigUse(p) ==
    \/ \E g \in Sigs : Connect(p, g) \/ ClearSwap(p, g)
    \/ \E c \in Conns : MoveAssign(p, c) \/ Disconnect(p, c)
    \/ ClearOld(p)

SigEmitting(p) == SubscriberReturns(p) \/ EmitReturns(p)

-----------------------------------------------------------------------------
(* The variables have their types, and no copy is in two lists.            *)
SigTypeOK ==
    /\ up \subseteq Sigs /\ copies \in 0..MaxCopies /\ gone \subseteq Copies
    /\ \A g \in Sigs : block[g] \in Blocks /\ \A b \in Blocks : alive[g][b] \in BOOLEAN
    /\ \A g \in Sigs, b \in Blocks : IsInjective(delegates[g][b])
    /\ \A p \in Threads : emit[p].run \in Copies \cup {Nil} /\ (emit[p].run # Nil => emit[p].on)

(* A subscriber that was disconnected, cleared or destroyed before an      *)
(* emission began is not called by it (Signal.h:290): whichever thread did *)
(* it, and through whichever block.                                        *)
DisconnectIsFinal == \A p \in Threads : emit[p].run \notin emit[p].before

(* Whatever the threads connect, disconnect and clear meanwhile, and       *)
(* subscribers themselves while they run: a subscriber that stays is       *)
(* called once by each emission, and all in the order of connection.       *)
StayingIsCalledOnce ==
    \A p \in Threads : emit[p].on /\ emit[p].todo = <<>> /\ emit[p].run = Nil =>
      SelectSeq(emit[p].called, LAMBDA x : x \notin gone) = SelectSeq(emit[p].had, LAMBDA x : x \notin gone)

(* The list holds who is connected: a copy whose connection nobody has     *)
(* broken is in the block it was connected to, and when its connection is  *)
(* broken, by either side, it is in none.                                  *)
ListedIffConnected ==
    \A x \in 1..copies :
      (\E g \in Sigs, b \in Blocks : x \in ToSet(delegates[g][b])) <=> x \notin gone

(* What an emission is worth while its subscribers change.                 *)
EmissionsExact == DisconnectIsFinal /\ StayingIsCalledOnce
=============================================================================
