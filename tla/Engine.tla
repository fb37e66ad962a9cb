------------------------------- MODULE Engine -------------------------------
(***************************************************************************)
(* The network engine (extras/util/NetworkEngine.h and .cpp): a network    *)
(* thread with a bounded queue that drops when full, a receive thread, and *)
(* RemoteInvokeWait(), which sends on the network thread and waits for the *)
(* acknowledgment.                                                         *)
(*                                                                         *)
(* The transport is external: it may refuse a message, loses and reorders  *)
(* them, and on reception answers a message with an acknowledgment.  Here  *)
(* it leads back to the engine itself, so the engine is its own peer.      *)
(* Acknowledgments arrive on the receiving transport, as those of ZeroMQ,  *)
(* UART and serial lines do (with UDP they do not, and none is ever seen). *)
(* A call that is marshalled to the network thread waits as AsyncWait      *)
(* says: until its time is up, and then still until the job ends if it has *)
(* begun; a job whose caller has left is skipped.                          *)
(***************************************************************************)
EXTENDS Remote

CONSTANTS
    Net,            \* the network thread; the other Threads are the application's
    Waiters,        \* the threads that use RemoteInvokeWait()
    WaitChan,       \* its channel
    Direct,         \* Direct[u]: what application thread u calls itself
    Cap,            \* limit of the network thread's queue: 25 in the code
    EarlyMax,       \* statuses kept before the number is known: 8 in the code
    Script,         \* what the owner of the engine does, in order
    CallsFrom       \* the application's threads call from this step of Script on

VARIABLES
    queue,          \* of the network thread
    job,            \* what it executes, or Nil
    recv,           \* the receive thread: its place and the message it has read
    m_recvThreadExit,
    m_recvThreadCreated,
    timerOn,        \* the timeout timer runs and is connected
    m_receiveIdMap, \* m_receiveIdMap[id]: the endpoint, or Nil
    recvOpen,       \* the receiving transport is open
    acks,           \* acknowledgments on their way
    wait,           \* wait[u]: RemoteInvokeWait() of thread u and its InvokeWaitState
    owner,          \* the owner: its place, and the next step of Script
    acked,          \* history: calls whose acknowledgment was reported
    stopped         \* history: Stop() has returned

recvVars   == <<recv, m_recvThreadExit, m_recvThreadCreated, recvOpen, acks>>
ownerVars  == <<owner, stopped>>
engineVars == <<queue, job, timerOn, m_receiveIdMap, acked, wait, recvVars, ownerVars>>
vars == <<remoteVars, engineVars>>

Users == Threads \ {Net}

(* An endpoint is registered only of a delegate that has a target.         *)
Endpoints == Chans \cup {d \in Dels : Made[d].base # Unbound}
Operations == {<<"initialize">>, <<"start">>, <<"stop">>} \cup {<<"register", s>> : s \in Endpoints}

Messages == [n : Calls, seq : 0 .. NumMod - 1, id : Ids, parts : Seq(Calls \X {1, 2})]

(* What the network thread is asked to do.                                 *)
Kinds == {"send", "in", "handler", "reply", "timeout", "start", "initialize", "stop", "register"}

ASSUME EngineConstants ==
    /\ Net \in Threads /\ Waiters \subseteq Users /\ WaitChan \in Chans
    /\ Direct \in [Users -> SUBSET (Senders \ {WaitChan})]
    /\ Cap \in Nat \ {0} /\ EarlyMax \in Nat
    /\ Script \in Seq(Operations) /\ CallsFrom \in Nat
    /\ Nil \notin [kind : Kinds, of : Waiters \cup Endpoints \cup Messages \cup {Nil}]

(* What a delegate is wired to, and the delegates a thread may use: the    *)
(* channel of RemoteInvokeWait() is the network thread's.                  *)
WireOf(s) == IF s \in Dels THEN Made[s].wire ELSE s
UsedBy(t) == IF t = Net THEN {WaitChan} ELSE Direct[t]

(* The application's own delegates do not lock the stream they write to:   *)
(* each is called from a single thread (DelegateRemote.h), and no other    *)
(* thread writes to its stream.                                            *)
StreamsAreOwn ==
    \A t1, t2 \in Threads : t1 # t2 =>
        \A s1 \in UsedBy(t1), s2 \in UsedBy(t2) :
            WireOf(s1) = WireOf(s2) /\ WireOf(s1) # Nil => s1 = s2 /\ s1 \in Chans

(* The counter does not come round to a number that was used.              *)
NumbersSuffice == MaxCalls < NumMod

NoWait == [pc |-> "idle", n |-> 0, complete |-> FALSE, success |-> FALSE,
           seqSet |-> FALSE, expectedSeq |-> 0, early |-> <<>>]
Job(kind, of) == [kind |-> kind, of |-> of]
Skipped == Job("skip", Nil)

Init ==
    /\ RemoteInit
    /\ queue = <<>> /\ job = Nil
    /\ recv = [pc |-> "none", m |-> Nil] /\ m_recvThreadExit = FALSE /\ m_recvThreadCreated = FALSE
    /\ recvOpen = FALSE
    /\ timerOn = FALSE /\ m_receiveIdMap = [id \in Ids |-> Nil] /\ acks = {}
    /\ wait = [u \in Waiters |-> NoWait]
    /\ owner = [pc |-> "idle", at |-> 1]
    /\ acked = {} /\ stopped = FALSE

-----------------------------------------------------------------------------
(* The network thread's queue: DispatchDelegate drops when it is full.     *)
Post(j) == Len(queue) < Cap /\ queue' = Append(queue, j)
Full    == Len(queue) >= Cap
PostOrDrop(j) == IF Full THEN UNCHANGED queue ELSE Post(j)

(* A caller that leaves before its job has begun.                          *)
Abandon(j) == queue' = [i \in DOMAIN queue |-> IF queue[i] = j THEN Skipped ELSE queue[i]]

(* A waiting call will still need a number of its own.                     *)
Reserved == Cardinality({u \in Waiters : wait[u].pc # "idle" /\ wait[u].n = 0})
MayCall == owner.at >= CallsFrom /\ calls + Reserved < MaxCalls

-----------------------------------------------------------------------------
(* RemoteInvokeWait() of an application thread.                            *)

(* The status callback is connected and the send lambda posted, to be      *)
(* waited for SEND_TIMEOUT; if it is dropped the call returns false.       *)
RemoteInvokeWait(u) ==
    /\ call[u].pc = "idle" /\ wait[u].pc = "idle"
    /\ MayCall
    /\ Post(Job("send", u))
    /\ wait' = [wait EXCEPT ![u] = [NoWait EXCEPT !.pc = "posted"]]
    /\ UNCHANGED <<remoteVars, job, timerOn, m_receiveIdMap, acked, recvVars, ownerVars>>

SendTimeout(u) ==
    /\ wait[u].pc = "posted"
    /\ IF job = Job("send", u)
       THEN wait' = [wait EXCEPT ![u].pc = "late"] /\ UNCHANGED queue
       ELSE wait' = [wait EXCEPT ![u].pc = "return"] /\ Abandon(Job("send", u))
    /\ UNCHANGED <<remoteVars, job, timerOn, m_receiveIdMap, acked, recvVars, ownerVars>>

(* The status callback.  A status that comes before the number is known is *)
(* kept for the send lambda.                                               *)
StatusCb(w, seq, success) ==
    IF ~w.seqSet
    THEN IF Len(w.early) < EarlyMax THEN [w EXCEPT !.early = Append(@, [seq |-> seq, success |-> success])] ELSE w
    ELSE IF ~w.complete /\ seq = w.expectedSeq THEN [w EXCEPT !.complete = TRUE, !.success = success] ELSE w

(* OnSendStatus reaches the calls that are connected.                      *)
OnSendStatus(p, success) ==
    /\ pending' = pending \ {p}
    /\ wait' = [u \in Waiters |->
                  IF wait[u].pc # "idle" /\ p.id = IdOf[WaitChan] THEN StatusCb(wait[u], p.seq, success)
                  ELSE wait[u]]
    /\ acked' = IF success THEN acked \cup {p.n} ELSE acked

(* Mutant: the lambda does not look at the early statuses.                 *)
ReconcileNothing(w) == w

(* The first early status of the number decides.                           *)
Reconcile(w) ==
    LET mine  == {i \in DOMAIN w.early : w.early[i].seq = w.expectedSeq}
        first == CHOOSE i \in mine : \A j \in mine : i <= j
    IN  IF mine = {} THEN w ELSE [w EXCEPT !.complete = TRUE, !.success = w.early[first].success]

(* The state is complete, or RECV_TIMEOUT is over, or the call was not     *)
(* sent: what success says now is returned.                                *)
WaitReturns(u) ==
    /\ wait[u].pc \in {"wait", "return"}
    /\ wait' = [wait EXCEPT ![u] = NoWait]
    /\ UNCHANGED <<remoteVars, queue, job, timerOn, m_receiveIdMap, acked, recvVars, ownerVars>>

(* The send lambda, on the network thread: the call, then under the lock   *)
(* of the state its number.  Its caller has the value of GetError(), which *)
(* clears the error.                                                       *)
SendBegins(u) ==
    /\ job = Job("send", u) /\ wait[u].n = 0
    /\ Begin(Net, WaitChan)
    /\ wait' = [wait EXCEPT ![u].n = calls + 1]
    /\ UNCHANGED <<queue, job, timerOn, m_receiveIdMap, acked, recvVars, ownerVars>>

SendEnds(u) ==
    /\ job = Job("send", u) /\ wait[u].n # 0 /\ call[Net].pc = "idle"
    /\ LET sent == obj[WaitChan].err = "SUCCESS"
           w == Reconcile([wait[u] EXCEPT !.seqSet = TRUE, !.expectedSeq = obj[WaitChan].seq])
       IN  wait' = [wait EXCEPT ![u] = [w EXCEPT !.pc = IF sent /\ @ = "posted" THEN "wait" ELSE "return"]]
    /\ obj' = [obj EXCEPT ![WaitChan].err = "SUCCESS"]
    /\ job' = Nil
    /\ UNCHANGED <<stream, good, sendMutex, m_seqNum, call, calls, opened, air, pending, sentBy, reported,
                   invoked, queue, timerOn, m_receiveIdMap, acked, recvVars, ownerVars>>

-----------------------------------------------------------------------------
(* An application thread calls a channel or its own remote delegate.       *)
CallDirectly(u) ==
    /\ u \in Waiters => wait[u].pc = "idle"
    /\ MayCall
    /\ \E s \in Direct[u] : Begin(u, s)
    /\ UNCHANGED engineVars

CallProceeds(t) == CallStep(t) /\ UNCHANGED engineVars

-----------------------------------------------------------------------------
(* The receive thread: RecvThread().                                       *)

RecvStays == UNCHANGED <<m_recvThreadExit, m_recvThreadCreated, recvOpen>>

(* The transport answers data with an acknowledgment, and takes an         *)
(* acknowledgment itself: the monitor's Remove().                          *)
ReceiveData(m) ==
    /\ recv.pc = "receive" /\ recvOpen /\ m \in air
    /\ air' = air \ {m}
    /\ acks' = acks \cup {[seq |-> m.seq, id |-> m.id]}
    /\ recv' = [pc |-> "post", m |-> m]
    /\ RecvStays
    /\ UNCHANGED <<obj, stream, good, sendMutex, m_seqNum, call, calls, opened, pending, sentBy, reported,
                   invoked, queue, job, timerOn, m_receiveIdMap, acked, wait, ownerVars>>

ReceiveAck(a) ==
    /\ recv.pc = "receive" /\ recvOpen /\ a \in acks
    /\ acks' = acks \ {a}
    /\ IF \E p \in pending : p.seq = a.seq /\ p.id = a.id
       THEN OnSendStatus(CHOOSE p \in pending : p.seq = a.seq /\ p.id = a.id, TRUE)
       ELSE UNCHANGED <<pending, wait, acked>>
    /\ RecvStays
    /\ UNCHANGED <<obj, stream, good, sendMutex, m_seqNum, call, calls, opened, air, sentBy, reported,
                   invoked, queue, job, recv, timerOn, m_receiveIdMap, ownerVars>>

(* What was read is marshalled to Incoming() with INVOKE_TIMEOUT, unless   *)
(* the engine is being stopped or the queue is full.                       *)
RecvPost ==
    /\ recv.pc = "post"
    /\ IF m_recvThreadExit \/ Full
       THEN recv' = [pc |-> "receive", m |-> Nil] /\ UNCHANGED queue
       ELSE Post(Job("in", recv.m)) /\ recv' = [recv EXCEPT !.pc = "posted"]
    /\ RecvStays
    /\ UNCHANGED <<remoteVars, job, acks, timerOn, m_receiveIdMap, acked, wait, ownerVars>>

RecvTimeout ==
    /\ recv.pc = "posted"
    /\ IF job # Nil /\ job.kind \in {"in", "handler", "reply"}
       THEN recv' = [recv EXCEPT !.pc = "late"] /\ UNCHANGED queue
       ELSE recv' = [pc |-> "receive", m |-> Nil] /\ Abandon(Job("in", recv.m))
    /\ RecvStays
    /\ UNCHANGED <<remoteVars, job, acks, timerOn, m_receiveIdMap, acked, wait, ownerVars>>

RecvLeaves ==
    /\ recv.pc = "receive" /\ m_recvThreadExit
    /\ recv' = [pc |-> "gone", m |-> Nil]
    /\ RecvStays
    /\ UNCHANGED <<remoteVars, queue, job, acks, timerOn, m_receiveIdMap, acked, wait, ownerVars>>

RecvThread == RecvPost \/ RecvTimeout \/ RecvLeaves

-----------------------------------------------------------------------------
(* The network thread.                                                     *)

Take ==
    /\ job = Nil /\ queue # <<>>
    /\ queue' = Tail(queue)
    /\ job' = IF Head(queue) = Skipped THEN Nil ELSE Head(queue)
    /\ UNCHANGED <<remoteVars, timerOn, m_receiveIdMap, acked, wait, recvVars, ownerVars>>

Doing(kind) == job # Nil /\ job.kind = kind

(* The job has ended: the receive thread is signalled, or when an          *)
(* exception has ended it left to its timeout, unless that is over.        *)
Signalled == recv' = [pc |-> "receive", m |-> Nil]
Abandoned == IF recv.pc = "late" THEN Signalled ELSE UNCHANGED recv

(* Incoming(): the endpoint of the identifier is invoked, if there is one. *)
Incoming ==
    /\ Doing("in")
    /\ LET s == m_receiveIdMap[job.of.id]
       IN  IF s = Nil THEN job' = Nil /\ Signalled /\ UNCHANGED <<obj, invoked>>
           ELSE /\ Invoke(s, job.of)
                /\ IF Readable(job.of) THEN job' = Job("handler", job.of) /\ UNCHANGED recv
                   ELSE job' = Nil /\ IF Throws(s) THEN Abandoned ELSE Signalled
    /\ RecvStays
    /\ UNCHANGED <<stream, good, sendMutex, m_seqNum, call, calls, opened, air, pending, sentBy, reported,
                   queue, acks, timerOn, m_receiveIdMap, acked, wait, ownerVars>>

InTarget == (Doing("handler") \/ Doing("reply")) /\ call[Net].pc = "idle"

(* The target may call RemoteInvokeWait(): on the network thread it sends  *)
(* and returns, with the value of GetError().                              *)
HandlerSends ==
    /\ InTarget /\ calls + Reserved < MaxCalls
    /\ Begin(Net, WaitChan)
    /\ job' = Job("reply", job.of)
    /\ UNCHANGED <<queue, timerOn, m_receiveIdMap, acked, wait, recvVars, ownerVars>>

HandlerReturns ==
    /\ InTarget
    /\ obj' = IF Doing("reply") THEN [obj EXCEPT ![WaitChan].err = "SUCCESS"] ELSE obj
    /\ job' = Nil
    /\ Signalled
    /\ RecvStays
    /\ UNCHANGED <<stream, good, sendMutex, m_seqNum, call, calls, opened, air, pending, sentBy, reported,
                   invoked, queue, acks, timerOn, m_receiveIdMap, acked, wait, ownerVars>>

(* Timeout(): the monitor's Process().                                     *)
Timeout ==
    /\ Doing("timeout")
    /\ \/ \E p \in pending : OnSendStatus(p, FALSE) /\ UNCHANGED job
       \/ job' = Nil /\ UNCHANGED <<pending, wait, acked>>
    /\ UNCHANGED <<obj, stream, good, sendMutex, m_seqNum, call, calls, opened, air, sentBy, reported,
                   invoked, queue, timerOn, m_receiveIdMap, recvVars, ownerVars>>

(* The timer delegate posts one at a time.  Bound: only while something is *)
(* pending, as other ticks find nothing.                                   *)
TimerTick ==
    /\ timerOn /\ pending # {} /\ ~Doing("timeout") /\ \A i \in DOMAIN queue : queue[i].kind # "timeout"
    /\ PostOrDrop(Job("timeout", Nil))
    /\ UNCHANGED <<remoteVars, job, timerOn, m_receiveIdMap, acked, wait, recvVars, ownerVars>>

-----------------------------------------------------------------------------
(* Operations of the owner, and their part on the network thread.          *)

OwnerAt(op, pc) == owner.pc = pc /\ owner.at <= Len(Script) /\ Script[owner.at][1] = op
OwnerGoesOn == owner' = [pc |-> "idle", at |-> owner.at + 1]
OwnerDone == OwnerGoesOn /\ UNCHANGED stopped

(* A call that is marshalled with WAIT_INFINITE, and nothing at all when   *)
(* the queue is full.                                                      *)
Marshal(op, j) ==
    /\ OwnerAt(op, "idle")
    /\ IF Full THEN OwnerDone /\ UNCHANGED queue
               ELSE Post(j) /\ owner' = [owner EXCEPT !.pc = "marshalled"] /\ UNCHANGED stopped
    /\ UNCHANGED <<remoteVars, job, timerOn, m_receiveIdMap, acked, wait, recvVars>>

(* Initialize() opens the transports: two of their own for ZeroMQ and UDP, *)
(* one shared for the UART and the serial port.  Create() may fail before  *)
(* or after it has a socket, and the second may not be reached.            *)
ZeroMqCreate(open) == open \in BOOLEAN
UdpCreate(open)    == open \in BOOLEAN

InitializeZeroMQ == ZeroMqCreate(opened') /\ ZeroMqCreate(recvOpen')
InitializeUdp    == UdpCreate(opened') /\ UdpCreate(recvOpen')
InitializeUart   == opened' \in BOOLEAN /\ recvOpen' = opened'
InitializeSerial == opened' \in BOOLEAN /\ recvOpen' = opened'

InitializeCall == Marshal("initialize", Job("initialize", Nil))

Initialize ==
    /\ Doing("initialize")
    /\ InitializeZeroMQ \/ InitializeUdp \/ InitializeUart \/ InitializeSerial
    /\ job' = Nil /\ OwnerDone
    /\ UNCHANGED <<obj, stream, good, sendMutex, m_seqNum, call, calls, air, pending, sentBy, reported, invoked,
                   queue, recv, m_recvThreadExit, m_recvThreadCreated, acks, timerOn, m_receiveIdMap,
                   acked, wait>>

RegisterEndpointCall ==
    OwnerAt("register", "idle") /\ Marshal("register", Job("register", Script[owner.at][2]))

RegisterEndpoint ==
    /\ Doing("register")
    /\ m_receiveIdMap' = [m_receiveIdMap EXCEPT ![obj[job.of].id] = job.of]
    /\ job' = Nil /\ OwnerDone
    /\ UNCHANGED <<remoteVars, queue, timerOn, acked, wait, recvVars>>

(* Start() is posted and not waited for.                                   *)
StartCall ==
    /\ OwnerAt("start", "idle")
    /\ PostOrDrop(Job("start", Nil))
    /\ OwnerDone
    /\ UNCHANGED <<remoteVars, job, timerOn, m_receiveIdMap, acked, wait, recvVars>>

(* The receive thread is created once in the life of the engine.           *)
Start ==
    /\ Doing("start")
    /\ recv' = IF m_recvThreadCreated THEN recv ELSE [pc |-> "receive", m |-> Nil]
    /\ m_recvThreadCreated' = TRUE
    /\ timerOn' = TRUE
    /\ job' = Nil
    /\ UNCHANGED <<remoteVars, queue, m_recvThreadExit, recvOpen, acks, m_receiveIdMap, acked, wait, ownerVars>>

(* Close() of both transports.                                             *)
Close == opened' = FALSE /\ recvOpen' = FALSE

(* Mutants: Stop() does not set the flag; it does not join.                *)
StopSignalsNobody ==
    /\ OwnerAt("stop", "idle")
    /\ Close
    /\ owner' = [owner EXCEPT !.pc = "join"]
    /\ UNCHANGED <<obj, stream, good, sendMutex, m_seqNum, call, calls, air, pending, sentBy, reported, invoked,
                   queue, job, recv, m_recvThreadExit, m_recvThreadCreated, acks, timerOn, m_receiveIdMap,
                   acked, wait, stopped>>
Unjoined == TRUE

(* Stop() tells the receive thread to leave, closes the transports, joins  *)
(* it, and has the rest done on the network thread.  The flag and the two  *)
(* Close() are one step: what the receive thread does between them it      *)
(* could have done before, as it leaves when it has read the flag, and     *)
(* what is sent between them is lost, as if sent before.                   *)
StopSignals ==
    /\ OwnerAt("stop", "idle")
    /\ m_recvThreadExit' = TRUE /\ Close
    /\ owner' = [owner EXCEPT !.pc = "join"]
    /\ UNCHANGED <<obj, stream, good, sendMutex, m_seqNum, call, calls, air, pending, sentBy, reported, invoked,
                   queue, job, recv, m_recvThreadCreated, acks, timerOn, m_receiveIdMap, acked, wait, stopped>>

RecvThreadJoined == recv.pc \in {"none", "gone"}

StopJoins ==
    /\ OwnerAt("stop", "join") /\ RecvThreadJoined
    /\ IF Full THEN OwnerGoesOn /\ stopped' = TRUE /\ UNCHANGED queue
               ELSE Post(Job("stop", Nil)) /\ owner' = [owner EXCEPT !.pc = "marshalled"] /\ UNCHANGED stopped
    /\ UNCHANGED <<remoteVars, job, timerOn, m_receiveIdMap, acked, wait, recvVars>>

Stop ==
    /\ Doing("stop")
    /\ timerOn' = FALSE
    /\ job' = Nil /\ OwnerGoesOn /\ stopped' = TRUE
    /\ UNCHANGED <<remoteVars, queue, m_receiveIdMap, acked, wait, recvVars>>

Owner == InitializeCall \/ RegisterEndpointCall \/ StartCall \/ StopSignals \/ StopJoins

NetThread ==
    \/ Take \/ Incoming \/ HandlerReturns \/ Timeout \/ Initialize \/ RegisterEndpoint \/ Start \/ Stop
    \/ CallProceeds(Net)
    \/ \E u \in Waiters : SendBegins(u) \/ SendEnds(u)

-----------------------------------------------------------------------------
(* The engine at rest: the script is done and nobody is in a call.         *)
Rest ==
    /\ owner.at > Len(Script) /\ queue = <<>> /\ job = Nil
    /\ \A t \in Threads : call[t].pc = "idle"
    /\ \A u \in Waiters : wait[u].pc = "idle"
    /\ UNCHANGED vars

Next ==
    \/ \E u \in Waiters : RemoteInvokeWait(u) \/ SendTimeout(u) \/ WaitReturns(u)
    \/ \E u \in Users : CallDirectly(u)
    \/ \E u \in Users : CallProceeds(u)
    \/ \E m \in air : ReceiveData(m)
    \/ \E a \in acks : ReceiveAck(a)
    \/ RecvThread \/ NetThread \/ HandlerSends \/ TimerTick \/ Owner
    \/ Rest

(* The threads run, and the receive thread's timeouts pass.  Every step of *)
(* a thread changes one of its subscript's variables.                      *)
Fairness ==
    /\ WF_<<queue, job, call, wait, pending>>(NetThread) /\ WF_recv(RecvThread) /\ WF_owner(Owner)

Spec == Init /\ [][Next]_vars /\ Fairness

-----------------------------------------------------------------------------
TypeOK ==
    /\ \A s \in Senders : obj[s].seq \in 0 .. NumMod - 1
    /\ \A c \in Chans : sendMutex[c] \in Threads \cup {Nil} /\ Len(stream[c]) <= 2 * MaxCalls
    /\ \A t \in Threads : call[t].pc \in {"idle", "write", "write 2", "dispatch"}
    /\ Len(queue) <= Cap /\ calls \in 0 .. MaxCalls
    /\ \A u \in Waiters : wait[u].pc \in {"idle", "posted", "late", "wait", "return"} /\ Len(wait[u].early) <= EarlyMax
    /\ recv.pc \in {"none", "receive", "post", "posted", "late", "gone"}
    /\ owner.pc \in {"idle", "marshalled", "join"} /\ owner.at \in 1 .. Len(Script) + 1
    /\ \A id \in Ids : m_receiveIdMap[id] \in Senders \cup {Nil}

(* A remote target is called with the arguments of one call, all of them   *)
(* and in order, although threads share the stream of a channel, calls     *)
(* fail half-way and leave what they have written behind                   *)
(* (RemoteChannel::operator(), DelegateRemote.h).                          *)
WholeCalls ==
    \A args \in invoked : \E n \in Calls : args = <<<<n, 1>>, <<n, 2>>>>

(* A call that has ended was sent, or its sender was told that it was not. *)
SentOrReported ==
    \A n \in 1 .. calls : (\A t \in Threads : call[t].n # n) => sentBy[n] # Nil \/ n \in reported

(* What RemoteInvokeWait() is going to return is true only for a message   *)
(* that was acknowledged, whatever other statuses its identifier gets.     *)
(* A call that was never sent is another matter: it waits for the number   *)
(* of the channel's previous call.                                         *)
TrueMeansAcked ==
    \A u \in Waiters : wait[u].success => sentBy[wait[u].n] = Nil \/ wait[u].n \in acked

(* An acknowledgment that comes before the send lambda has recorded the    *)
(* number is not lost (NetworkEngine.h, InvokeWaitState).                  *)
FastAckKept ==
    \A u \in Waiters :
        LET w == wait[u]
        IN  w.pc \in {"wait", "return"} /\ w.n \in acked => w.success

(* A remote call arrives whole or its caller knows, although callers share *)
(* channels and calls fail half-way.                                       *)
CallsExact == TypeOK /\ WholeCalls /\ SentOrReported

(* RemoteInvokeWait() says what became of its own message.                 *)
AnswersExact == TrueMeansAcked /\ FastAckKept

(* Once Stop() has returned no target is called, whatever was in the       *)
(* queue, in the receive thread's hands or on its way.                     *)
NothingAfterStop == [][stopped => invoked' = invoked]_vars

(* Every operation of the owner returns, Stop() with its join of the       *)
(* receive thread, which may be waiting for the network thread, among them.*)
OwnerReturns == owner.pc # "idle" ~> owner.pc = "idle"
=============================================================================
