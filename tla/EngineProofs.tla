---------------------------- MODULE EngineProofs ----------------------------
(***************************************************************************)
(* Theorems about Engine, for every number of threads, channels, delegates *)
(* and calls, every script of its owner and every limit of its queue.      *)
(***************************************************************************)
EXTENDS Engine, FiniteSetTheorems, SequenceTheorems, WellFoundedInduction, TLAPS

Errors == {"SUCCESS", "NO_SERIALIZER", "SERIALIZE", "STREAM_NOT_GOOD", "DISPATCH", "DESERIALIZE"}

(* What a delegate is bound to never changes.                              *)
BaseOf(s) == IF s \in Dels THEN Made[s].base ELSE FunctionBind(CHOOSE f \in Fns : TRUE)

Delegates(s) ==
  [base : {BaseOf(s)}, id : Ids, wire : {WireOf(s)}, handler : BOOLEAN, err : Errors, seq : 0 .. NumMod - 1]

(* The jobs of the network thread.                                         *)
SendJob(u)  == Job("send", u)
RecvJobs    == [kind : {"in", "handler", "reply"}, of : Messages]
OwnerJobs   == {Job("initialize", Nil), Job("stop", Nil)} \cup {Job("register", s) : s \in Endpoints}
OtherJobs   == {Job("timeout", Nil), Job("start", Nil)}
Jobs        == {SendJob(u) : u \in Waiters} \cup RecvJobs \cup OwnerJobs \cup OtherJobs

(* The types: of the calls, and of the engine.                             *)
ObjTypes ==
  /\ obj \in [Senders -> UNION {Delegates(s) : s \in Senders}]
  /\ \A s \in Senders : obj[s] \in Delegates(s)
  /\ obj[WaitChan].id = IdOf[WaitChan]
StreamTypes == stream \in [Chans -> Seq(Calls \X {1, 2})] /\ good \in [Chans -> BOOLEAN]
MutexTypes  == sendMutex \in [Chans -> Threads \cup {Nil}]
CallType    == [pc : {"idle", "write", "write 2", "dispatch"}, via : Senders \cup {Nil}, n : 0 .. MaxCalls]
PlaceTypes  == call \in [Threads -> CallType] /\ calls \in 0 .. MaxCalls
SentTypes ==
  /\ m_seqNum \in 0 .. NumMod - 1 /\ sentBy \in [Calls -> (0 .. NumMod - 1) \cup {Nil}]
  /\ air \subseteq Messages /\ pending \subseteq [seq : 0 .. NumMod - 1, id : Ids, n : Calls]
CallTypes == ObjTypes /\ StreamTypes /\ MutexTypes /\ PlaceTypes /\ SentTypes /\ reported \subseteq Calls

WaitStates ==
  [pc : {"idle", "posted", "late", "wait", "return"}, n : 0 .. MaxCalls, complete : BOOLEAN, success : BOOLEAN,
   seqSet : BOOLEAN, expectedSeq : 0 .. NumMod - 1, early : Seq([seq : 0 .. NumMod - 1, success : BOOLEAN])]

QueueTypes == queue \in Seq(Jobs \cup {Skipped}) /\ Len(queue) <= Cap /\ job \in Jobs \cup {Nil}
RecvTypes ==
  /\ recv \in [pc : {"none", "receive", "post", "posted", "late", "gone"}, m : Messages \cup {Nil}]
  /\ recv.pc \in {"post", "posted", "late"} => recv.m \in Messages
  /\ m_recvThreadExit \in BOOLEAN /\ (m_recvThreadCreated \/ recv.pc = "none")
WaitTypes == wait \in [Waiters -> WaitStates] /\ \A u \in Waiters : Len(wait[u].early) <= EarlyMax
OwnerTypes ==
  /\ owner \in [pc : {"idle", "marshalled", "join"}, at : 1 .. Len(Script) + 1]
  /\ owner.pc # "idle" => owner.at <= Len(Script)
  /\ stopped \in BOOLEAN
MapTypes == m_receiveIdMap \in [Ids -> Endpoints \cup {Nil}] /\ acked \subseteq Calls
EngineTypes == QueueTypes /\ RecvTypes /\ WaitTypes /\ OwnerTypes /\ MapTypes

(* A call in progress has a number of its own, its thread may use the      *)
(* delegate, which is wired, and has the lock if it is a channel.          *)
Calling ==
  /\ \A t \in Threads :
       IF call[t].pc = "idle" THEN call[t] = NoCall
       ELSE /\ call[t].n \in 1 .. calls
            /\ call[t].via \in UsedBy(t) /\ WireOf(call[t].via) # Nil
            /\ call[t].via \in Chans => sendMutex[call[t].via] = t
            /\ sentBy[call[t].n] = Nil
  /\ \A t1, t2 \in Threads : call[t1].n = call[t2].n /\ call[t1].n # 0 => t1 = t2
  /\ \A n \in Calls : n > calls => sentBy[n] = Nil

(* Of the jobs S one at most is under way.                                 *)
Queued(S)   == \E i \in 1 .. Len(queue) : queue[i] \in S
UnderWay(S) == Queued(S) \/ job \in S
Single(S) ==
  /\ \A i, j \in 1 .. Len(queue) : queue[i] \in S /\ queue[j] \in S => i = j
  /\ Queued(S) => job \notin S

(* Who waits for a job waits for one, and is where it waits.               *)
SendPosting(u) ==
  /\ Single({SendJob(u)}) /\ (UnderWay({SendJob(u)}) => wait[u].pc \in {"posted", "late"})
  /\ Queued({SendJob(u)}) => wait[u].pc = "posted" /\ wait[u].n = 0
RecvPosting ==
  /\ Single(RecvJobs) /\ (UnderWay(RecvJobs) => recv.pc \in {"posted", "late"})
  /\ \A i \in 1 .. Len(queue) : queue[i] \in RecvJobs => queue[i] = Job("in", recv.m) /\ recv.pc = "posted"
OwnerPosting == Single(OwnerJobs) /\ (UnderWay(OwnerJobs) => owner.pc = "marshalled")
Posting == (\A u \in Waiters : SendPosting(u)) /\ RecvPosting /\ OwnerPosting

(* When Stop() has joined the receive thread nothing is marshalled for it  *)
(* and nothing will be.                                                    *)
Stopping ==
  /\ owner.pc = "join" => m_recvThreadExit
  /\ stopped \/ UnderWay({Job("stop", Nil)}) => m_recvThreadExit /\ ~UnderWay(RecvJobs)

(* RemoteInvokeWait(): its call is made by its job, and what the network   *)
(* thread calls is that of its job.                                        *)
CallOf(u) ==
  /\ wait[u].pc = "idle" => wait[u] = NoWait
  /\ wait[u].success => wait[u].complete
  /\ wait[u].complete => wait[u].seqSet
  /\ wait[u].seqSet => wait[u].n # 0 /\ wait[u].pc \in {"wait", "return"}
  /\ wait[u].n <= calls
  /\ wait[u].n # 0 /\ ~wait[u].seqSet => job = SendJob(u)
  /\ \A t \in Threads : call[t].n = wait[u].n /\ wait[u].n # 0 => t = Net /\ job = SendJob(u)
NetCall ==
  call[Net].pc # "idle" =>
    \/ job \in RecvJobs /\ job.kind \in {"handler", "reply"}
    \/ \E u \in Waiters : job = SendJob(u) /\ wait[u].n = call[Net].n
Waiting == (\A u \in Waiters : CallOf(u)) /\ NetCall

(* A call that has ended was sent or reported.                             *)
EInv == CallTypes /\ EngineTypes /\ Calling /\ SentOrReported /\ Posting /\ Stopping /\ Waiting

-----------------------------------------------------------------------------
(* The streams, when no two threads share one but through its channel.     *)
Half(n)  == <<<<n, 1>>>>
Whole(n) == <<<<n, 1>>, <<n, 2>>>>
PartsOf(n) == {<<>>, Half(n), Whole(n)}
Clean == {m \in Messages : \E n \in Calls : m.parts \in PartsOf(n)}

StreamsClean == \A c \in Chans : stream[c] = <<>> \/ \E n \in Calls : stream[c] \in PartsOf(n)

Halfway ==
  \A t \in Threads :
    LET c == WireOf(call[t].via)  n == call[t].n
    IN  /\ call[t].pc = "write 2" => stream[c] \in {<<>>, Half(n)} /\ (good[c] => stream[c] = Half(n))
        /\ call[t].pc = "dispatch" => stream[c] \in PartsOf(n)

OneCallsParts ==
  /\ air \subseteq Clean
  /\ recv.pc \in {"post", "posted", "late"} => recv.m \in Clean
  /\ job \in RecvJobs => job.of \in Clean

SInv ==
  /\ StreamsClean
  /\ Halfway
  /\ OneCallsParts
  /\ WholeCalls

-----------------------------------------------------------------------------
(* The numbers, when there are fewer calls than numbers.                   *)
Ended == {n \in 1 .. calls : \A t \in Threads : call[t].n # n}

Numbered ==
  /\ m_seqNum <= Cardinality(Ended)
  /\ \A k \in Calls : sentBy[k] # Nil => sentBy[k] < m_seqNum
  /\ \A k, l \in Calls : sentBy[k] = sentBy[l] /\ sentBy[k] # Nil => k = l

(* What the monitor still waits for, and what it has had an answer to.     *)
Monitored ==
  /\ \A p \in pending : sentBy[p.n] = p.seq /\ p.n \notin acked
  /\ \A p, q \in pending : p.n = q.n => p = q
  /\ \A n \in acked : sentBy[n] # Nil

(* The message of RemoteInvokeWait() goes out on its channel, which has    *)
(* its number until the send lambda has read it.                           *)
OwnMessage(u) ==
  /\ \A p \in pending : p.n = wait[u].n => p.id = IdOf[WaitChan]
  /\ job = SendJob(u) /\ wait[u].n # 0 /\ call[Net].pc = "idle" /\ sentBy[wait[u].n] # Nil
       => obj[WaitChan].seq = sentBy[wait[u].n]

Answered(n) == sentBy[n] # Nil /\ \A p \in pending : p.n # n

(* What RemoteInvokeWait() knows is what became of its message: a status   *)
(* that came early is that of a message, and one that has come is that of  *)
(* its own, when its own was sent.                                         *)
Known(w) ==
  /\ \A i \in 1 .. Len(w.early) :
       \E k \in Calls : Answered(k) /\ sentBy[k] = w.early[i].seq /\ (w.early[i].success <=> k \in acked)
  /\ w.seqSet /\ sentBy[w.n] # Nil => w.expectedSeq = sentBy[w.n]
  /\ w.complete /\ sentBy[w.n] # Nil => Answered(w.n) /\ (w.success <=> w.n \in acked)

(* And it knows of every acknowledgment.                                   *)
Noticed(w) ==
  /\ w.seqSet /\ w.n \in acked => w.complete
  /\ w.n \in acked /\ ~w.seqSet => \E i \in 1 .. Len(w.early) : w.early[i].seq = sentBy[w.n]

AInv == Numbered /\ Monitored /\ \A u \in Waiters : OwnMessage(u) /\ Known(wait[u])
NInv == \A u \in Waiters : Noticed(wait[u])

(* No status comes to a list of early ones that is full.                   *)
NoStatusDropped ==
  [][(\E u \in Waiters : wait[u].pc # "idle" /\ ~wait[u].seqSet /\ Len(wait[u].early) = EarlyMax)
       => pending \subseteq pending']_vars

-----------------------------------------------------------------------------
(* What the constants are.                                                 *)

LEMMA WiredRemote ==
  ASSUME NEW b, NEW i, NEW c
  PROVE  Wire(Remote(b, i), c) \in [base : {b}, id : {i}, wire : {c}, handler : {FALSE}, err : {"SUCCESS"}, seq : {0}]
<1>1. Remote(b, i) \in [base : {b}, id : {i}, wire : {Nil}, handler : {FALSE}, err : {"SUCCESS"}, seq : {0}]
  BY DEF Remote
<1> QED
  BY <1>1 DEF Wire

(* What a receiver can invoke.                                             *)
Targeted(b) == b.cls \in {"Free", "Member", "Function"}

LEMMA BindFacts ==
  \A f, o : /\ Targeted(FreeBind(f)) /\ Targeted(FunctionBind(f))
            /\ Targeted(MemberBindShared(o, f)) /\ Targeted(MemberBindRaw(o, f))
BY DEF Targeted, FreeBind, FunctionBind, MemberBindShared, MemberBindRaw, Unbound

(* A delegate that can be made is wired to a channel or to nothing, has    *)
(* had no error and no number yet, and has a target unless it is unbound.  *)
LEMMA MadeFacts ==
  ASSUME NEW d \in RemoteDelegates
  PROVE  /\ d \in [base : {d.base}, id : Ids, wire : Chans \cup {Nil}, handler : BOOLEAN, err : {"SUCCESS"}, seq : {0}]
         /\ d.base = Unbound \/ Targeted(d.base)
<1> DEFINE Good(x) == /\ x \in [base : {x.base}, id : Ids, wire : Chans \cup {Nil}, handler : BOOLEAN,
                                err : {"SUCCESS"}, seq : {0}]
                      /\ x.base = Unbound \/ Targeted(x.base)
<1>0. \A c \in Chans : IdOf[c] \in Ids
  BY RemoteConstants
<1>1. \A b : \A c \in Chans : Targeted(b) => Good(Wire(Remote(b, IdOf[c]), c))
  <2> SUFFICES ASSUME NEW b, NEW c \in Chans, Targeted(b) PROVE Good(Wire(Remote(b, IdOf[c]), c))
    OBVIOUS
  <2>1. Wire(Remote(b, IdOf[c]), c)
          \in [base : {b}, id : {IdOf[c]}, wire : {c}, handler : {FALSE}, err : {"SUCCESS"}, seq : {0}]
    BY WiredRemote
  <2> QED
    BY <2>1, <1>0
<1>2. \A x : Good(x) => Good(SetErrorHandler(x))
  BY DEF SetErrorHandler
<1>3. \A x : Good(x) => Good(FreeRemoteClone(x)) /\ Good(MemberRemoteClone(x)) /\ Good(FunctionRemoteClone(x))
  BY DEF FreeRemoteClone, MemberRemoteClone, FunctionRemoteClone, FreeRemoteAssign, MemberRemoteAssign,
         FunctionRemoteAssign, Unset, Remote
<1>4. \A x : Good(x) => Good(FreeRemoteMoved(x)) /\ Good(MemberRemoteMoved(x)) /\ Good(FunctionRemoteMoved(x))
  <2> SUFFICES ASSUME NEW x, Good(x)
      PROVE  \A y : y = [x EXCEPT !.base = Unbound, !.wire = Nil, !.handler = FALSE] => Good(y)
    BY DEF FreeRemoteMoved, MemberRemoteMoved, FunctionRemoteMoved
  <2> QED
    OBVIOUS
<1> DEFINE free     == {Wire(FreeRemoteBind(f, IdOf[c]), c) : f \in Fns, c \in Chans}
           member   == UNION {{Wire(MemberRemoteBindShared(o, f, IdOf[c]), c),
                               Wire(MemberRemoteBindRaw(o, f, IdOf[c]), c)} : o \in Objs, f \in Fns, c \in Chans}
           function == {Wire(FunctionRemoteBind(f, IdOf[c]), c) : f \in Fns, c \in Chans}
           handed   == {FreeRemoteClone(x) : x \in free} \cup {MemberRemoteClone(x) : x \in member}
                       \cup {FunctionRemoteClone(x) : x \in function}
           left     == {FreeRemoteMoved(x) : x \in free} \cup {MemberRemoteMoved(x) : x \in member}
                       \cup {FunctionRemoteMoved(x) : x \in function}
           made     == free \cup member \cup function \cup handed \cup left
<1>5. \A x \in free : Good(x)
  BY <1>1, BindFacts DEF FreeRemoteBind
<1>6. \A x \in member : Good(x)
  BY <1>1, BindFacts DEF MemberRemoteBindShared, MemberRemoteBindRaw
<1>7. \A x \in function : Good(x)
  BY <1>1, BindFacts DEF FunctionRemoteBind
<1> HIDE DEF free, member, function, Good
<1>8. \A x \in handed : Good(x)
  BY <1>3, <1>5, <1>6, <1>7
<1>9. \A x \in left : Good(x)
  BY <1>4, <1>5, <1>6, <1>7
<1> HIDE DEF handed, left
<1>10. \A x \in made : Good(x)
  BY <1>5, <1>6, <1>7, <1>8, <1>9
<1> HIDE DEF made
<1>11. RemoteDelegates = made \cup {SetErrorHandler(x) : x \in made}
  BY DEF RemoteDelegates, made, free, member, function, handed, left
<1>12. Good(d)
  BY <1>2, <1>10, <1>11
<1> QED
  BY <1>12 DEF Good

LEMMA NoCallFacts == NoCall.pc = "idle" /\ NoCall.via = Nil /\ NoCall.n = 0 /\ NoCall \in CallType
BY RemoteConstants DEF NoCall, CallType

LEMMA Wired ==
  /\ \A s \in Senders : WireOf(s) \in Chans \cup {Nil}
  /\ \A s \in Senders : WireOf(s) # Nil => WireOf(s) \in Chans
  /\ \A c \in Chans : WireOf(c) = c
  /\ WaitChan \in Senders /\ Nil \notin Senders
<1>1. \A d \in Dels : Made[d].wire \in Chans \cup {Nil}
  BY MadeFacts, RemoteConstants
<1> QED
  BY <1>1, RemoteConstants, EngineConstants DEF WireOf, Senders

LEMMA Used ==
  /\ \A t \in Threads : UsedBy(t) \subseteq Senders
  /\ \A t \in Threads : WaitChan \in UsedBy(t) => t = Net
BY EngineConstants, RemoteConstants DEF UsedBy, Users, Senders

LEMMA ChannelDelegate ==
  ASSUME NEW c \in Chans, NEW d, d = SetErrorHandler(Wire(FunctionRemoteBind(CHOOSE f \in Fns : TRUE, IdOf[c]), c))
  PROVE  d \in Delegates(c) /\ d.id = IdOf[c]
<1>1. c \notin Dels /\ WireOf(c) = c /\ IdOf[c] \in Ids
  BY RemoteConstants DEF WireOf
<1>2. PICK r : r = Wire(FunctionRemoteBind(CHOOSE f \in Fns : TRUE, IdOf[c]), c)
  OBVIOUS
<1>3. r = Wire(Remote(BaseOf(c), IdOf[c]), c)
  BY <1>1, <1>2 DEF FunctionRemoteBind, BaseOf
<1>4. r \in [base : {BaseOf(c)}, id : {IdOf[c]}, wire : {c}, handler : {FALSE}, err : {"SUCCESS"}, seq : {0}]
  BY <1>3, WiredRemote
<1>5. d = [r EXCEPT !.handler = TRUE]
  BY <1>2 DEF SetErrorHandler
<1>6. 0 \in 0 .. NumMod - 1
  BY RemoteConstants
<1> QED
  BY <1>1, <1>4, <1>5, <1>6 DEF Delegates, Errors

(* A delegate keeps what it is when its error or its number changes.       *)
LEMMA DelegateKept ==
  ASSUME CallTypes, NEW s \in Senders, NEW d \in Delegates(s), d.id = obj[s].id, obj' = [obj EXCEPT ![s] = d]
  PROVE  ObjTypes'
<1>1. \A x \in Senders : obj[x] \in Delegates(x)
  BY DEF CallTypes, ObjTypes
<1>2. obj \in [Senders -> UNION {Delegates(x) : x \in Senders}] /\ obj[WaitChan].id = IdOf[WaitChan]
  BY DEF CallTypes, ObjTypes
<1>3. \A x \in Senders : obj'[x] = IF x = s THEN d ELSE obj[x]
  BY <1>2
<1>4. \A x \in Senders : obj'[x] \in Delegates(x)
  BY <1>1, <1>3
<1>5. obj' \in [Senders -> UNION {Delegates(x) : x \in Senders}]
  BY <1>2
<1> QED
  BY <1>2, <1>3, <1>4, <1>5, Wired DEF ObjTypes

LEMMA ErrorKept ==
  ASSUME NEW s \in Senders, NEW d \in Delegates(s), NEW e \in Errors, NEW q \in 0 .. NumMod - 1
  PROVE  /\ [d EXCEPT !.err = e] \in Delegates(s) /\ [d EXCEPT !.err = e].id = d.id
         /\ [d EXCEPT !.seq = q] \in Delegates(s) /\ [d EXCEPT !.seq = q].id = d.id
         /\ [d EXCEPT !.seq = q, !.err = e] \in Delegates(s) /\ [d EXCEPT !.seq = q, !.err = e].id = d.id
BY DEF Delegates

LEMMA ErrKept ==
  ASSUME CallTypes, NEW s, NEW e \in Errors, obj' = [obj EXCEPT ![s].err = e]
  PROVE  ObjTypes'
<1>1. CASE s \in Senders
  <2>1. PICK d : d = [obj[s] EXCEPT !.err = e]
    OBVIOUS
  <2>2. obj[s] \in Delegates(s) /\ 0 \in 0 .. NumMod - 1
    BY <1>1, RemoteConstants DEF CallTypes, ObjTypes
  <2>3. d \in Delegates(s) /\ d.id = obj[s].id
    BY <1>1, <2>1, <2>2, ErrorKept
  <2>4. obj' = [obj EXCEPT ![s] = d]
    BY <2>1
  <2> QED
    BY <1>1, <2>3, <2>4, DelegateKept
<1>2. CASE s \notin Senders
  <2>1. obj \in [Senders -> UNION {Delegates(x) : x \in Senders}]
    BY DEF CallTypes, ObjTypes
  <2>2. \A x \in Senders : obj'[x] = obj[x]
    BY <1>2, <2>1
  <2>3. obj' \in [Senders -> UNION {Delegates(x) : x \in Senders}]
    BY <1>2, <2>1
  <2> QED
    BY <2>2, <2>3, Wired DEF CallTypes, ObjTypes
<1> QED
  BY <1>1, <1>2

-----------------------------------------------------------------------------
(* The calls.                                                              *)

LEMMA InitCalls ==
  ASSUME Init
  PROVE  CallTypes /\ Calling /\ SentOrReported
<1>1. \A s \in Senders : obj[s] \in Delegates(s) /\ (s \in Chans => obj[s].id = IdOf[s])
  <2> SUFFICES ASSUME NEW s \in Senders
      PROVE  obj[s] \in Delegates(s) /\ (s \in Chans => obj[s].id = IdOf[s])
    OBVIOUS
  <2>1. CASE s \in Dels
    <3>1. Made[s] \in [base : {Made[s].base}, id : Ids, wire : Chans \cup {Nil}, handler : BOOLEAN,
                       err : {"SUCCESS"}, seq : {0}]
      BY <2>1, MadeFacts, RemoteConstants
    <3>2. obj[s] = Made[s] /\ s \notin Chans
      BY <2>1, RemoteConstants DEF Init, RemoteInit
    <3> QED
      BY <2>1, <3>1, <3>2, RemoteConstants DEF Delegates, BaseOf, WireOf, Errors
  <2>2. CASE s \notin Dels
    <3>1. s \in Chans
      BY <2>2 DEF Senders
    <3>2. obj[s] = SetErrorHandler(Wire(FunctionRemoteBind(CHOOSE f \in Fns : TRUE, IdOf[s]), s))
      BY <2>2 DEF Init, RemoteInit
    <3> QED
      BY <3>1, <3>2, ChannelDelegate
  <2> QED
    BY <2>1, <2>2
<1>2. obj \in [Senders -> UNION {Delegates(s) : s \in Senders}]
  <2>1. DOMAIN obj = Senders /\ obj = [s \in Senders |-> obj[s]]
    BY DEF Init, RemoteInit
  <2> QED
    BY <1>1, <2>1
<1>3. obj[WaitChan].id = IdOf[WaitChan]
  BY <1>1, EngineConstants, Wired
<1>4. CallTypes
  <2>1. ObjTypes
    BY <1>1, <1>2, <1>3 DEF ObjTypes
  <2>2. StreamTypes
    BY DEF StreamTypes, Init, RemoteInit
  <2>3. MutexTypes
    BY DEF MutexTypes, Init, RemoteInit
  <2>4. PlaceTypes
    BY NoCallFacts, RemoteConstants DEF PlaceTypes, Init, RemoteInit
  <2>5. SentTypes /\ reported \subseteq Calls
    BY RemoteConstants DEF SentTypes, Init, RemoteInit
  <2> QED
    BY <2>1, <2>2, <2>3, <2>4, <2>5 DEF CallTypes
<1>5. Calling /\ SentOrReported
  BY NoCallFacts, RemoteConstants DEF Calling, SentOrReported, Init, RemoteInit, Calls
<1> QED
  BY <1>4, <1>5

(* A step that makes no call.                                              *)
CallsRest ==
  /\ UNCHANGED <<stream, good, sendMutex, m_seqNum, call, calls, sentBy, reported>>
  /\ air' \subseteq air /\ pending' \subseteq pending
  /\ obj' = obj \/ \E s : \E e \in {"SUCCESS", "DESERIALIZE"} : obj' = [obj EXCEPT ![s].err = e]

(* Every step makes one step of one call, or none.                         *)
LEMMA StepOfCalls ==
  ASSUME [Next]_vars
  PROVE  \/ CallsRest
         \/ \E t \in Threads : CallStep(t)
         \/ \E t \in Threads : \E s \in UsedBy(t) : Begin(t, s)
<1> USE DEF CallsRest, remoteVars, engineVars
<1>1. CASE UNCHANGED vars
  BY <1>1 DEF vars
<1>2. CASE \E u \in Waiters : RemoteInvokeWait(u) \/ SendTimeout(u) \/ WaitReturns(u)
  BY <1>2 DEF RemoteInvokeWait, SendTimeout, WaitReturns
<1>3. CASE \E u \in Users : CallDirectly(u)
  BY <1>3, EngineConstants DEF CallDirectly, UsedBy, Users
<1>4. CASE \E u \in Users : CallProceeds(u)
  BY <1>4 DEF CallProceeds, Users
<1>5. CASE \E m \in air : ReceiveData(m)
  BY <1>5 DEF ReceiveData
<1>6. CASE \E a \in acks : ReceiveAck(a)
  BY <1>6 DEF ReceiveAck, OnSendStatus
<1>7. CASE RecvThread
  BY <1>7 DEF RecvThread, RecvPost, RecvTimeout, RecvLeaves
<1>8. CASE NetThread
  <2>1. CASE Take \/ RegisterEndpoint \/ Start \/ Stop
    BY <2>1 DEF Take, RegisterEndpoint, Start, Stop
  <2>2. CASE HandlerReturns \/ Timeout \/ Initialize
    BY <2>2 DEF HandlerReturns, Timeout, Initialize, OnSendStatus
  <2>5. CASE Incoming
    <3>1. PICK s : s = m_receiveIdMap[job.of.id]
      OBVIOUS
    <3>2. UNCHANGED obj \/ Invoke(s, job.of)
      BY <2>5, <3>1 DEF Incoming
    <3>3. obj' = obj \/ obj' = [obj EXCEPT ![s].err = "DESERIALIZE"]
      BY <3>2 DEF Invoke, InvokeFree, InvokeMember, InvokeFunction, Received
    <3> QED
      BY <2>5, <3>3 DEF Incoming
  <2>3. CASE CallProceeds(Net)
    BY <2>3, EngineConstants DEF CallProceeds
  <2>4. CASE \E u \in Waiters : SendBegins(u) \/ SendEnds(u)
    BY <2>4, EngineConstants DEF SendBegins, SendEnds, UsedBy
  <2> QED
    BY <1>8, <2>1, <2>2, <2>3, <2>4, <2>5 DEF NetThread
<1>9. CASE HandlerSends
  BY <1>9, EngineConstants DEF HandlerSends, UsedBy
<1>10. CASE TimerTick
  BY <1>10 DEF TimerTick
<1>11. CASE Owner
  BY <1>11 DEF Owner, InitializeCall, RegisterEndpointCall, StartCall, StopSignals, StopJoins, Marshal
<1>12. CASE Rest
  BY <1>12 DEF Rest, vars
<1> QED
  BY <1>1, <1>2, <1>3, <1>4, <1>5, <1>6, <1>7, <1>8, <1>9, <1>10, <1>11, <1>12 DEF Next

(* The three places in operator().                                         *)
LEMMA CallSteps ==
  ASSUME NEW t \in Threads, CallStep(t)
  PROVE  \/ call[t].pc = "write" /\ Serialize(t, 1, "write 2")
         \/ call[t].pc = "write 2" /\ Serialize(t, 2, "dispatch")
         \/ call[t].pc = "dispatch" /\ Finish(t)
BY DEF CallStep, FreeRemoteCall, MemberRemoteCall, FunctionRemoteCall, At

(* What a step leaves alone keeps its type.                                *)
LEMMA RestKept ==
  ASSUME EInv, CallsRest
  PROVE  CallTypes' /\ Calling' /\ SentOrReported'
<1> USE DEF CallsRest
<1>1. CallTypes /\ Calling /\ SentOrReported
  BY DEF EInv
<1>2. ObjTypes'
  <2>1. CASE obj' = obj
    BY <1>1, <2>1 DEF CallTypes, ObjTypes
  <2>2. CASE \E s : \E e \in {"SUCCESS", "DESERIALIZE"} : obj' = [obj EXCEPT ![s].err = e]
    BY <1>1, <2>2, ErrKept DEF Errors
  <2> QED
    BY <2>1, <2>2
<1>3. CallTypes'
  BY <1>1, <1>2 DEF CallTypes, StreamTypes, MutexTypes, PlaceTypes, SentTypes
<1> QED
  BY <1>1, <1>3 DEF Calling, SentOrReported

(* operator() begins.                                                      *)
LEMMA BeginKept ==
  ASSUME EInv, NEW t \in Threads, NEW s \in UsedBy(t), Begin(t, s)
  PROVE  CallTypes' /\ Calling' /\ SentOrReported'
<1>1. CallTypes /\ Calling /\ SentOrReported /\ s \in Senders
  BY Used DEF EInv
<1>2. call[t].pc = "idle" /\ calls < MaxCalls /\ calls' = calls + 1
      /\ UNCHANGED <<stream, good, m_seqNum, opened, air, pending, sentBy, invoked>>
  BY DEF Begin
<1>3. calls \in Nat /\ MaxCalls \in Nat /\ calls' \in 1 .. MaxCalls /\ calls' \in Calls
  BY <1>1, <1>2, RemoteConstants DEF CallTypes, PlaceTypes, Calls
<1>4. \A u \in Threads : call[u].n \in Nat /\ call[u].n <= calls
  BY <1>1, <1>3, NoCallFacts DEF Calling
<1>5. obj[s] \in Delegates(s) /\ obj[s].wire = WireOf(s)
  BY <1>1 DEF CallTypes, ObjTypes, Delegates
<1>6. CASE obj[s].wire = Nil
  <2>1. obj' = [obj EXCEPT ![s].err = "NO_SERIALIZER"] /\ reported' = reported \cup {calls'}
        /\ UNCHANGED <<call, sendMutex>>
    BY <1>2, <1>6 DEF Begin, RaiseError
  <2>2. PICK d : d = [obj[s] EXCEPT !.err = "NO_SERIALIZER"]
    OBVIOUS
  <2>3. d \in Delegates(s) /\ d.id = obj[s].id
    <3>1. "NO_SERIALIZER" \in Errors /\ 0 \in 0 .. NumMod - 1
      BY RemoteConstants DEF Errors
    <3> QED
      BY <1>1, <1>5, <2>2, <3>1, ErrorKept
  <2>4. obj' = [obj EXCEPT ![s] = d]
    BY <2>1, <2>2
  <2>5. CallTypes'
    <3>1. ObjTypes'
      BY <1>1, <2>3, <2>4, DelegateKept
    <3>2. PlaceTypes'
      BY <1>1, <1>3, <2>1 DEF CallTypes, PlaceTypes
    <3>3. StreamTypes' /\ MutexTypes' /\ SentTypes'
      BY <1>1, <1>2, <2>1 DEF CallTypes, StreamTypes, MutexTypes, SentTypes
    <3>4. reported' \subseteq Calls
      BY <1>1, <1>3, <2>1 DEF CallTypes
    <3> QED
      BY <3>1, <3>2, <3>3, <3>4 DEF CallTypes
  <2>6. Calling'
    <3>1. \A n \in 1 .. calls : n \in 1 .. calls'
      BY <1>2, <1>3
    <3>2. \A n \in Calls : n > calls' => n > calls
      BY <1>2, <1>3 DEF Calls
    <3> QED
      BY <1>1, <1>2, <2>1, <3>1, <3>2 DEF Calling
  <2>7. SentOrReported'
    BY <1>1, <1>2, <1>3, <2>1 DEF SentOrReported
  <2> QED
    BY <2>5, <2>6, <2>7
<1>7. CASE obj[s].wire # Nil
  <2>1. PICK k : k = [pc |-> "write", via |-> s, n |-> calls']
    OBVIOUS
  <2>2. call' = [call EXCEPT ![t] = k] /\ UNCHANGED <<obj, reported>> /\ EnterChannel(t, s)
    BY <1>2, <1>7, <2>1 DEF Begin
  <2>3. sendMutex' \in [Chans -> Threads \cup {Nil}]
        /\ \A c \in Chans : sendMutex'[c] = IF c = s THEN t ELSE sendMutex[c]
    BY <1>1, <2>2 DEF EnterChannel, CallTypes, MutexTypes
  <2>4. \A u \in Threads : call'[u] = IF u = t THEN k ELSE call[u]
    BY <1>1, <2>2 DEF CallTypes, PlaceTypes
  <2>5. s \in Chans => sendMutex[s] = Nil
    BY <2>2 DEF EnterChannel
  <2>6. k \in CallType
    BY <1>1, <1>3, <2>1 DEF CallType
  <2>7. CallTypes'
    <3>1. PlaceTypes'
      BY <1>1, <1>3, <2>2, <2>6 DEF CallTypes, PlaceTypes
    <3>2. ObjTypes' /\ StreamTypes' /\ SentTypes' /\ reported' \subseteq Calls
      BY <1>1, <1>2, <2>2 DEF CallTypes, ObjTypes, StreamTypes, SentTypes
    <3> QED
      BY <2>3, <3>1, <3>2 DEF CallTypes, MutexTypes
  <2>8. k.pc = "write" /\ k.via = s /\ k.n = calls' /\ WireOf(s) # Nil /\ sentBy[calls'] = Nil
    BY <1>1, <1>2, <1>3, <1>5, <1>7, <2>1 DEF Calling
  <2>9. \A u \in Threads \ {t} :
          IF call[u].pc = "idle" THEN call'[u] = NoCall
          ELSE /\ call'[u].n \in 1 .. calls'
               /\ call'[u].via \in UsedBy(u) /\ WireOf(call'[u].via) # Nil
               /\ call'[u].via \in Chans => sendMutex'[call'[u].via] = u
               /\ sentBy[call'[u].n] = Nil
    <3> SUFFICES ASSUME NEW u \in Threads \ {t}, call[u].pc # "idle"
                 PROVE  /\ call[u].n \in 1 .. calls'
                        /\ call[u].via \in UsedBy(u) /\ WireOf(call[u].via) # Nil
                        /\ call[u].via \in Chans => sendMutex'[call[u].via] = u
                        /\ sentBy[call[u].n] = Nil
      BY <1>1, <2>4 DEF Calling
    <3>1. /\ call[u].n \in 1 .. calls
          /\ call[u].via \in UsedBy(u) /\ WireOf(call[u].via) # Nil
          /\ call[u].via \in Chans => sendMutex[call[u].via] = u
          /\ sentBy[call[u].n] = Nil
      BY <1>1 DEF Calling
    <3>2. u # Nil
      BY RemoteConstants
    <3> QED
      BY <1>2, <1>3, <2>3, <2>5, <3>1, <3>2
  <2>10. \A u1, u2 \in Threads : call'[u1].n = call'[u2].n /\ call'[u1].n # 0 => u1 = u2
    <3>1. \A u1, u2 \in Threads : call[u1].n = call[u2].n /\ call[u1].n # 0 => u1 = u2
      BY <1>1 DEF Calling
    <3>2. \A u \in Threads : call[u].n # calls'
      BY <1>2, <1>3, <1>4
    <3> QED
      BY <2>4, <2>8, <3>1, <3>2
  <2>11. \A n \in Calls : n > calls' => sentBy'[n] = Nil
    BY <1>1, <1>2, <1>3 DEF Calling, Calls
  <2>12. Calling'
    BY <1>2, <1>3, <2>3, <2>4, <2>8, <2>9, <2>10, <2>11 DEF Calling
  <2>13. SentOrReported'
    <3> SUFFICES ASSUME NEW n \in 1 .. calls', \A u \in Threads : call'[u].n # n
                 PROVE  sentBy[n] # Nil \/ n \in reported
      BY <1>2, <2>2 DEF SentOrReported
    <3>1. n # calls' /\ n \in 1 .. calls
      BY <1>2, <1>3, <2>4, <2>8
    <3>2. \A u \in Threads : call[u].n # n
      BY <1>1, <1>2, <2>4, <3>1 DEF Calling, NoCall
    <3> QED
      BY <1>1, <3>1, <3>2 DEF SentOrReported
  <2> QED
    BY <2>7, <2>12, <2>13
<1> QED
  BY <1>6, <1>7

(* A thread in operator(), and what it writes to.                          *)
LEMMA InCall ==
  ASSUME EInv, NEW t \in Threads, call[t].pc # "idle"
  PROVE  /\ call[t].via \in UsedBy(t) /\ call[t].via \in Senders
         /\ obj[call[t].via].wire = WireOf(call[t].via) /\ WireOf(call[t].via) \in Chans
         /\ obj[call[t].via] \in Delegates(call[t].via)
         /\ call[t].n \in 1 .. calls /\ call[t].n \in Calls /\ sentBy[call[t].n] = Nil
<1>1. Calling /\ ObjTypes /\ PlaceTypes
  BY DEF EInv, CallTypes
<1>2. call[t].n \in 1 .. calls /\ call[t].via \in UsedBy(t) /\ WireOf(call[t].via) # Nil /\ sentBy[call[t].n] = Nil
  BY <1>1 DEF Calling
<1>3. call[t].via \in Senders
  BY <1>2, Used
<1>4. obj[call[t].via] \in Delegates(call[t].via)
  BY <1>1, <1>3 DEF ObjTypes
<1>5. 1 .. calls \subseteq Calls
  BY <1>1, RemoteConstants DEF PlaceTypes, Calls
<1> QED
  BY <1>2, <1>3, <1>4, <1>5, Wired DEF Delegates

(* A thread goes on in operator(), or leaves it.                           *)
LEMMA CallMoved ==
  ASSUME EInv, NEW t \in Threads, call[t].pc # "idle", NEW next \in {"write 2", "dispatch"},
         call' = [call EXCEPT ![t].pc = next], UNCHANGED <<calls, sendMutex, sentBy>>
  PROVE  /\ PlaceTypes' /\ MutexTypes' /\ Calling'
         /\ \A u \in Threads : call'[u].n = call[u].n
<1>1. Calling /\ PlaceTypes /\ MutexTypes
  BY DEF EInv, CallTypes
<1>2. PICK k : k = [call[t] EXCEPT !.pc = next]
  OBVIOUS
<1>3. call[t] \in CallType
  BY <1>1 DEF PlaceTypes
<1>4. k \in CallType /\ k.pc = next /\ k.via = call[t].via /\ k.n = call[t].n
  BY <1>2, <1>3 DEF CallType
<1>5. call' \in [Threads -> CallType] /\ \A u \in Threads : call'[u] = IF u = t THEN k ELSE call[u]
  BY <1>1, <1>2, <1>4 DEF PlaceTypes
<1>6. PlaceTypes' /\ MutexTypes'
  BY <1>1, <1>5 DEF PlaceTypes, MutexTypes
<1>7. \A u \in Threads : call'[u].n = call[u].n /\ call'[u].via = call[u].via
  BY <1>4, <1>5
<1>8. \A u \in Threads : u # t => call'[u] = call[u]
  BY <1>5
<1>9. call'[t].pc # "idle"
  BY <1>4, <1>5
<1>10. Calling'
  <2>1. \A u \in Threads :
          IF call'[u].pc = "idle" THEN call'[u] = NoCall
          ELSE /\ call'[u].n \in 1 .. calls
               /\ call'[u].via \in UsedBy(u) /\ WireOf(call'[u].via) # Nil
               /\ call'[u].via \in Chans => sendMutex[call'[u].via] = u
               /\ sentBy[call'[u].n] = Nil
    BY <1>1, <1>7, <1>8, <1>9 DEF Calling
  <2>2. \A u1, u2 \in Threads : call[u1].n = call[u2].n /\ call[u1].n # 0 => u1 = u2
    BY <1>1 DEF Calling
  <2>3. \A u1, u2 \in Threads : call'[u1].n = call'[u2].n /\ call'[u1].n # 0 => u1 = u2
    BY <2>2, <1>7
  <2>4. \A n \in Calls : n > calls => sentBy[n] = Nil
    BY <1>1 DEF Calling
  <2> QED
    BY <2>1, <2>3, <2>4 DEF Calling
<1> QED
  BY <1>6, <1>7, <1>10

LEMMA CallLeft ==
  ASSUME EInv, NEW t \in Threads, call[t].pc # "idle", LeaveCall(t), calls' = calls,
         \A k \in Calls : k # call[t].n => sentBy'[k] = sentBy[k]
  PROVE  /\ PlaceTypes' /\ MutexTypes' /\ Calling'
         /\ \A u \in Threads : call'[u] = IF u = t THEN NoCall ELSE call[u]
<1>1. Calling /\ PlaceTypes /\ MutexTypes
  BY DEF EInv, CallTypes
<1>2. /\ call' \in [Threads -> CallType]
      /\ \A u \in Threads : call'[u] = IF u = t THEN NoCall ELSE call[u]
  BY <1>1, NoCallFacts DEF PlaceTypes, LeaveCall
<1>3. MutexTypes' /\ \A c \in Chans : sendMutex'[c] = IF sendMutex[c] = t THEN Nil ELSE sendMutex[c]
  BY <1>1 DEF MutexTypes, LeaveCall
<1>4. PlaceTypes'
  BY <1>1, <1>2 DEF PlaceTypes
<1>5. call[t].n \in 1 .. calls /\ 1 .. calls \subseteq Calls /\ calls \in Nat
  BY <1>1, InCall, RemoteConstants DEF PlaceTypes, Calls
<1>6. \A u \in Threads \ {t} : call[u].pc # "idle" => call[u].n # call[t].n
  BY <1>1, <1>5 DEF Calling
<1>7. Calling'
  <2>1. \A u \in Threads :
          IF call'[u].pc = "idle" THEN call'[u] = NoCall
          ELSE /\ call'[u].n \in 1 .. calls
               /\ call'[u].via \in UsedBy(u) /\ WireOf(call'[u].via) # Nil
               /\ call'[u].via \in Chans => sendMutex'[call'[u].via] = u
               /\ sentBy'[call'[u].n] = Nil
    <3> SUFFICES ASSUME NEW u \in Threads, u # t
                 PROVE  IF call[u].pc = "idle" THEN call[u] = NoCall
                        ELSE /\ call[u].n \in 1 .. calls
                             /\ call[u].via \in UsedBy(u) /\ WireOf(call[u].via) # Nil
                             /\ call[u].via \in Chans => sendMutex'[call[u].via] = u
                             /\ sentBy'[call[u].n] = Nil
      BY <1>2, NoCallFacts
    <3> QED
      BY <1>1, <1>3, <1>5, <1>6 DEF Calling
  <2>2. \A u1, u2 \in Threads : call'[u1].n = call'[u2].n /\ call'[u1].n # 0 => u1 = u2
    BY <1>1, <1>2, NoCallFacts DEF Calling
  <2>3. \A n \in Calls : n > calls => sentBy'[n] = Nil
    BY <1>1, <1>5 DEF Calling, Calls
  <2> QED
    BY <2>1, <2>2, <2>3 DEF Calling
<1> QED
  BY <1>2, <1>3, <1>4, <1>7

LEMMA ErrorTypes ==
  /\ "SERIALIZE" \in Errors /\ "DISPATCH" \in Errors /\ "STREAM_NOT_GOOD" \in Errors
  /\ 0 \in 0 .. NumMod - 1 /\ NumMod - 1 \in Nat
BY RemoteConstants DEF Errors

LEMMA PartTypes ==
  ASSUME StreamTypes, NEW c \in Chans, NEW part \in {1, 2}, NEW n \in Calls
  PROVE  /\ BeforePart(c, part) \in Seq(Calls \X {1, 2})
         /\ Append(BeforePart(c, part), <<n, part>>) \in Seq(Calls \X {1, 2})
<1>1. stream[c] \in Seq(Calls \X {1, 2}) /\ <<>> \in Seq(Calls \X {1, 2})
  BY DEF StreamTypes
<1>2. BeforePart(c, part) \in Seq(Calls \X {1, 2})
  BY <1>1 DEF BeforePart
<1>3. PICK q : q = BeforePart(c, part)
  OBVIOUS
<1>4. PICK x : x = <<n, part>>
  OBVIOUS
<1>5. x \in Calls \X {1, 2} /\ q \in Seq(Calls \X {1, 2})
  BY <1>2, <1>3, <1>4
<1>6. Append(q, x) \in Seq(Calls \X {1, 2})
  BY <1>5
<1> QED
  BY <1>2, <1>3, <1>4, <1>6

(* One argument is serialized.                                             *)
LEMMA SerializeKept ==
  ASSUME EInv, NEW t \in Threads, call[t].pc # "idle", NEW part \in {1, 2}, NEW next \in {"write 2", "dispatch"},
         Serialize(t, part, next)
  PROVE  CallTypes' /\ Calling' /\ SentOrReported'
<1>1. CallTypes /\ Calling /\ SentOrReported
  BY DEF EInv
<1>2. PICK s, c, n : s = call[t].via /\ c = WireOf(s) /\ n = call[t].n
  OBVIOUS
<1>3. s \in Senders /\ obj[s].wire = c /\ c \in Chans /\ obj[s] \in Delegates(s) /\ n \in Calls /\ n \in 1 .. calls
  BY <1>2, InCall
<1>4. UNCHANGED <<m_seqNum, calls, opened, air, pending, sentBy, invoked>>
  BY DEF Serialize
<1>5. BeforePart(c, part) \in Seq(Calls \X {1, 2})
  BY <1>1, <1>3, PartTypes DEF CallTypes
<1>6. CASE Write(c, n, part) /\ call' = [call EXCEPT ![t].pc = next] /\ UNCHANGED <<obj, reported, sendMutex>>
  <2>1. PlaceTypes' /\ MutexTypes' /\ Calling' /\ \A u \in Threads : call'[u].n = call[u].n
    BY <1>4, <1>6, CallMoved
  <2>2. Append(BeforePart(c, part), <<n, part>>) \in Seq(Calls \X {1, 2})
    BY <1>1, <1>3, PartTypes DEF CallTypes
  <2>3. StreamTypes'
    BY <1>1, <1>5, <1>6, <2>2 DEF Write, CallTypes, StreamTypes
  <2>4. ObjTypes' /\ SentTypes' /\ reported' \subseteq Calls
    BY <1>1, <1>4, <1>6 DEF CallTypes, ObjTypes, SentTypes
  <2>5. SentOrReported'
    BY <1>1, <1>4, <1>6, <2>1 DEF SentOrReported
  <2> QED
    BY <2>1, <2>3, <2>4, <2>5 DEF CallTypes
<1>7. CASE /\ RaiseError(s, n, "SERIALIZE")
           /\ IF Throws(s) THEN LeaveCall(t)
              ELSE call' = [call EXCEPT ![t].pc = "dispatch"] /\ UNCHANGED sendMutex
           /\ stream' = [stream EXCEPT ![c] = BeforePart(c, part)]
           /\ UNCHANGED good
  <2>1. PICK d : d = [obj[s] EXCEPT !.err = "SERIALIZE"]
    OBVIOUS
  <2>2. d \in Delegates(s) /\ d.id = obj[s].id
    BY <1>3, <2>1, ErrorTypes, ErrorKept
  <2>3. obj' = [obj EXCEPT ![s] = d] /\ reported' = reported \cup {n}
    BY <1>7, <2>1 DEF RaiseError
  <2>4. ObjTypes'
    BY <1>1, <1>3, <2>2, <2>3, DelegateKept
  <2>5. StreamTypes' /\ SentTypes' /\ reported' \subseteq Calls
    BY <1>1, <1>3, <1>4, <1>5, <1>7, <2>3 DEF CallTypes, StreamTypes, SentTypes
  <2>6. PlaceTypes' /\ MutexTypes' /\ Calling' /\ \A u \in Threads : call'[u].n = call[u].n \/ u = t
    <3>1. CASE Throws(s)
      BY <1>4, <1>7, <3>1, CallLeft
    <3>2. CASE ~Throws(s)
      BY <1>4, <1>7, <3>2, CallMoved
    <3> QED
      BY <3>1, <3>2
  <2>7. SentOrReported'
    <3> SUFFICES ASSUME NEW k \in 1 .. calls, \A u \in Threads : call'[u].n # k
                 PROVE  sentBy[k] # Nil \/ k \in reported'
      BY <1>4 DEF SentOrReported
    <3> QED
      BY <1>1, <1>2, <2>3, <2>6 DEF SentOrReported
  <2> QED
    BY <2>4, <2>5, <2>6, <2>7 DEF CallTypes
<1> QED
  BY <1>2, <1>3, <1>6, <1>7 DEF Serialize

LEMMA NextNumber ==
  ASSUME NEW q \in 0 .. NumMod - 1
  PROVE  (q + 1) % NumMod \in 0 .. NumMod - 1
<1>1. q + 1 \in Nat /\ NumMod \in Nat \ {0}
  BY RemoteConstants
<1> QED
  BY <1>1

(* operator() ends, with a message or without.                             *)
LEMMA FinishKept ==
  ASSUME EInv, NEW t \in Threads, call[t].pc # "idle", Finish(t)
  PROVE  CallTypes' /\ Calling' /\ SentOrReported'
<1>1. CallTypes /\ Calling /\ SentOrReported
  BY DEF EInv
<1>2. PICK s, c, n : s = call[t].via /\ c = WireOf(s) /\ n = call[t].n
  OBVIOUS
<1>3. s \in Senders /\ obj[s].wire = c /\ c \in Chans /\ obj[s] \in Delegates(s) /\ n \in Calls /\ n \in 1 .. calls
  BY <1>2, InCall
<1>4. LeaveCall(t) /\ UNCHANGED <<calls, opened, invoked>>
  BY DEF Finish
<1>5. /\ m_seqNum \in 0 .. NumMod - 1 /\ sentBy \in [Calls -> (0 .. NumMod - 1) \cup {Nil}]
      /\ air \subseteq Messages /\ pending \subseteq [seq : 0 .. NumMod - 1, id : Ids, n : Calls]
      /\ Nil \notin 0 .. NumMod - 1
  BY <1>1, RemoteConstants DEF CallTypes, SentTypes
<1>6. ObjTypes' /\ StreamTypes' /\ SentTypes'
      /\ (n \in reported' \/ sentBy'[n] # Nil)
      /\ reported' \subseteq Calls /\ reported \subseteq reported'
      /\ \A k \in Calls : k # n => sentBy'[k] = sentBy[k]
  <2>1. CASE good[c]
    <3>1. Dispatch(s, c, n)
      BY <1>2, <1>3, <2>1 DEF Finish
    <3>2. m_seqNum' \in 0 .. NumMod - 1
      BY <1>5, <3>1, NextNumber DEF Dispatch
    <3>3. StreamTypes'
      BY <1>1, <1>3, <3>1 DEF Dispatch, ResetStream, CallTypes, StreamTypes
    <3>4. CASE /\ Transmit([n |-> n, seq |-> m_seqNum, id |-> obj[s].id, parts |-> stream[c]])
               /\ pending' = pending \cup {[seq |-> m_seqNum, id |-> obj[s].id, n |-> n]}
               /\ sentBy' = [sentBy EXCEPT ![n] = m_seqNum]
               /\ obj' = [obj EXCEPT ![s].seq = m_seqNum]
               /\ UNCHANGED reported
      <4>1. PICK d : d = [obj[s] EXCEPT !.seq = m_seqNum]
        OBVIOUS
      <4>2. d \in Delegates(s) /\ d.id = obj[s].id
        BY <1>3, <1>5, <4>1, ErrorTypes, ErrorKept
      <4>3. obj' = [obj EXCEPT ![s] = d]
        BY <3>4, <4>1
      <4>4. ObjTypes'
        BY <1>1, <1>3, <4>2, <4>3, DelegateKept
      <4>5. obj[s].id \in Ids /\ stream[c] \in Seq(Calls \X {1, 2})
        BY <1>1, <1>3 DEF Delegates, CallTypes, StreamTypes
      <4>6. [n |-> n, seq |-> m_seqNum, id |-> obj[s].id, parts |-> stream[c]] \in Messages
        BY <1>3, <1>5, <4>5 DEF Messages
      <4>7. air' \subseteq Messages
        BY <1>5, <3>4, <4>6 DEF Transmit
      <4>8. pending' \subseteq [seq : 0 .. NumMod - 1, id : Ids, n : Calls]
        BY <1>3, <1>5, <3>4, <4>5
      <4>9. /\ sentBy' \in [Calls -> (0 .. NumMod - 1) \cup {Nil}] /\ sentBy'[n] = m_seqNum
            /\ \A k \in Calls : k # n => sentBy'[k] = sentBy[k]
        BY <1>3, <1>5, <3>4
      <4>10. sentBy'[n] # Nil
        BY <1>5, <4>9
      <4>11. SentTypes'
        BY <3>2, <4>7, <4>8, <4>9 DEF SentTypes
      <4> QED
        BY <1>1, <3>3, <3>4, <4>4, <4>9, <4>10, <4>11 DEF CallTypes
    <3>5. CASE /\ obj' = [obj EXCEPT ![s].seq = m_seqNum, ![s].err = "DISPATCH"]
               /\ SendFailed(n)
               /\ UNCHANGED <<air, pending, sentBy>>
      <4>1. PICK d : d = [obj[s] EXCEPT !.seq = m_seqNum, !.err = "DISPATCH"]
        OBVIOUS
      <4>2. d \in Delegates(s) /\ d.id = obj[s].id
        <5>1. PICK q \in 0 .. NumMod - 1 : q = m_seqNum
          BY <1>5
        <5>2. PICK e \in Errors : e = "DISPATCH"
          BY ErrorTypes
        <5>3. PICK x \in Delegates(s) : x = obj[s]
          BY <1>3
        <5>4. d = [x EXCEPT !.seq = q, !.err = e]
          BY <4>1, <5>1, <5>2, <5>3
        <5> QED
          BY <5>3, <5>4 DEF Delegates
      <4>3. obj' = [obj EXCEPT ![s] = d]
        <5>1. PICK e : e = [obj[s] EXCEPT !.seq = m_seqNum]
          OBVIOUS
        <5>2. PICK f : f = [obj EXCEPT ![s] = e]
          OBVIOUS
        <5>3. f = [obj EXCEPT ![s].seq = m_seqNum]
          BY <5>1, <5>2
        <5>4. DOMAIN obj = Senders
          BY <1>1 DEF CallTypes, ObjTypes
        <5>5. f[s] = e
          BY <1>3, <5>2, <5>4
        <5>6. d = [e EXCEPT !.err = "DISPATCH"]
          BY <4>1, <5>1
        <5>7. obj' = [f EXCEPT ![s].err = "DISPATCH"]
          BY <3>5, <5>3
        <5>8. obj' = [f EXCEPT ![s] = d]
          BY <5>5, <5>6, <5>7
        <5> QED
          BY <5>2, <5>4, <5>8, <1>3
      <4>4. ObjTypes'
        BY <1>1, <1>3, <4>2, <4>3, DelegateKept
      <4>5. reported' = reported \cup {n}
        BY <3>5 DEF SendFailed
      <4>6. SentTypes'
        BY <1>5, <3>2, <3>5 DEF SentTypes
      <4> QED
        BY <1>1, <1>3, <3>3, <3>5, <4>4, <4>5, <4>6 DEF CallTypes
    <3> QED
      BY <3>1, <3>4, <3>5 DEF Dispatch
  <2>2. CASE ~good[c]
    <3>1. RaiseError(s, n, "STREAM_NOT_GOOD") /\ UNCHANGED <<stream, good, m_seqNum, air, pending, sentBy>>
      BY <1>2, <1>3, <2>2 DEF Finish
    <3>2. PICK d : d = [obj[s] EXCEPT !.err = "STREAM_NOT_GOOD"]
      OBVIOUS
    <3>3. d \in Delegates(s) /\ d.id = obj[s].id
      BY <1>3, <3>2, ErrorTypes, ErrorKept
    <3>4. obj' = [obj EXCEPT ![s] = d] /\ reported' = reported \cup {n}
      BY <3>1, <3>2 DEF RaiseError
    <3>5. ObjTypes'
      BY <1>1, <1>3, <3>3, <3>4, DelegateKept
    <3> QED
      BY <1>1, <1>3, <3>1, <3>4, <3>5 DEF CallTypes, StreamTypes, SentTypes
  <2> QED
    BY <2>1, <2>2
<1>7. PlaceTypes' /\ MutexTypes' /\ Calling' /\ \A u \in Threads : call'[u] = IF u = t THEN NoCall ELSE call[u]
  BY <1>2, <1>4, <1>6, CallLeft
<1>8. SentOrReported'
  <2> SUFFICES ASSUME NEW k \in 1 .. calls, \A u \in Threads : call'[u].n # k
               PROVE  sentBy'[k] # Nil \/ k \in reported'
    BY <1>4 DEF SentOrReported
  <2>1. CASE k = n
    BY <1>6, <2>1
  <2>2. CASE k # n
    <3>1. \A u \in Threads : call[u].n # k
      BY <1>2, <1>7, <2>2
    <3>2. k \in Calls
      BY <1>1, RemoteConstants DEF CallTypes, PlaceTypes, Calls
    <3> QED
      BY <1>1, <1>6, <2>2, <3>1, <3>2 DEF SentOrReported
  <2> QED
    BY <2>1, <2>2
<1> QED
  BY <1>6, <1>7, <1>8 DEF CallTypes

LEMMA CallsKept ==
  ASSUME EInv, [Next]_vars
  PROVE  CallTypes' /\ Calling' /\ SentOrReported'
<1>1. CASE CallsRest
  BY <1>1, RestKept
<1>2. CASE \E t \in Threads : CallStep(t)
  <2>1. PICK t \in Threads : CallStep(t)
    BY <1>2
  <2>2. CASE call[t].pc = "write" /\ Serialize(t, 1, "write 2")
    BY <2>2, SerializeKept
  <2>3. CASE call[t].pc = "write 2" /\ Serialize(t, 2, "dispatch")
    BY <2>3, SerializeKept
  <2>4. CASE call[t].pc = "dispatch" /\ Finish(t)
    BY <2>4, FinishKept
  <2> QED
    BY <2>1, <2>2, <2>3, <2>4, CallSteps
<1>3. CASE \E t \in Threads : \E s \in UsedBy(t) : Begin(t, s)
  BY <1>3, BeginKept
<1> QED
  BY <1>1, <1>2, <1>3, StepOfCalls

-----------------------------------------------------------------------------
(* The jobs of the network thread.                                         *)

LEMMA JobFacts ==
  /\ Nil \notin Jobs /\ Skipped \notin Jobs
  /\ \A u \in Waiters : SendJob(u) \in Jobs
  /\ RecvJobs \subseteq Jobs /\ OwnerJobs \subseteq Jobs /\ OtherJobs \subseteq Jobs
  /\ Job("stop", Nil) \in OwnerJobs /\ Job("initialize", Nil) \in OwnerJobs
  /\ \A s \in Endpoints : Job("register", s) \in OwnerJobs
  /\ \A m \in Messages : Job("in", m) \in RecvJobs /\ Job("handler", m) \in RecvJobs /\ Job("reply", m) \in RecvJobs
<1> DEFINE AnyJob == [kind : Kinds, of : Waiters \cup Endpoints \cup Messages \cup {Nil}]
<1>1. \A j \in Jobs : j \in AnyJob
  <2>1. \A k \in Kinds, x \in Waiters \cup Endpoints \cup Messages \cup {Nil} : Job(k, x) \in AnyJob
    BY DEF Job
  <2>2. \A j \in RecvJobs : j \in AnyJob
    BY DEF RecvJobs, Kinds
  <2> HIDE DEF AnyJob
  <2>3. \A u \in Waiters : SendJob(u) \in AnyJob
    BY <2>1 DEF SendJob, Kinds
  <2>4. \A j \in OwnerJobs : j \in AnyJob
    BY <2>1 DEF OwnerJobs, Kinds
  <2>5. \A j \in OtherJobs : j \in AnyJob
    BY <2>1 DEF OtherJobs, Kinds
  <2> QED
    BY <2>2, <2>3, <2>4, <2>5 DEF Jobs
<1>2. Nil \notin Jobs
  BY <1>1, EngineConstants
<1>3. \A j \in Jobs : j.kind # "skip"
  BY DEF Jobs, SendJob, RecvJobs, OwnerJobs, OtherJobs, Job
<1>4. Skipped.kind = "skip"
  BY DEF Skipped, Job
<1> QED
  BY <1>2, <1>3, <1>4 DEF Jobs, SendJob, RecvJobs, OwnerJobs, OtherJobs, Job

LEMMA JobKinds ==
  /\ \A u : SendJob(u).kind = "send" /\ SendJob(u).of = u
  /\ \A j \in RecvJobs : j.kind \in {"in", "handler", "reply"} /\ j.of \in Messages
  /\ \A j \in OwnerJobs : j.kind \in {"initialize", "stop", "register"}
  /\ \A j \in OtherJobs : j.kind \in {"timeout", "start"}
BY DEF SendJob, RecvJobs, OwnerJobs, OtherJobs, Job

(* What a job is by its kind.                                              *)
LEMMA KindOf ==
  ASSUME NEW j \in Jobs
  PROVE  /\ j.kind = "send" => \E u \in Waiters : j = SendJob(u)
         /\ j.kind \in {"in", "handler", "reply"} => j \in RecvJobs
         /\ j.kind = "in" => j = Job("in", j.of) /\ j.of \in Messages
         /\ j.kind \in {"initialize", "stop", "register"} => j \in OwnerJobs
         /\ j.kind = "stop" => j = Job("stop", Nil)
         /\ j.kind = "register" => j = Job("register", j.of) /\ j.of \in Endpoints
         /\ j.kind \in {"timeout", "start"} => j \in OtherJobs
         /\ j \notin OwnerJobs => j # Job("stop", Nil)
BY DEF Jobs, SendJob, RecvJobs, OwnerJobs, OtherJobs, Job

(* The jobs S become no more.                                              *)
Shrinks(S) ==
  /\ Single(S) => Single(S)'
  /\ \A i \in 1 .. Len(queue') : queue'[i] \in S => \E k \in 1 .. Len(queue) : queue[k] = queue'[i]
  /\ UnderWay(S)' => UnderWay(S)

LEMMA QueueSame ==
  ASSUME NEW S, UNCHANGED <<queue, job>>
  PROVE  Shrinks(S) /\ (UnderWay(S)' <=> UnderWay(S)) /\ (QueueTypes => QueueTypes')
BY DEF Shrinks, Single, UnderWay, Queued, QueueTypes

LEMMA Posted ==
  ASSUME QueueTypes, NEW j \in Jobs, Post(j), job' = job, NEW S
  PROVE  /\ QueueTypes'
         /\ j \notin S => Shrinks(S)
         /\ UnderWay(S)' => UnderWay(S) \/ j \in S
         /\ Queued(S)' => Queued(S) \/ j \in S
         /\ ~UnderWay(S) => Single(S)'
         /\ \A i \in 1 .. Len(queue') :
              queue'[i] = j \/ (i \in 1 .. Len(queue) /\ queue'[i] = queue[i])
<1>1. queue \in Seq(Jobs \cup {Skipped}) /\ Len(queue) \in Nat /\ queue' = Append(queue, j) /\ Len(queue) < Cap
  BY DEF QueueTypes, Post
<1>2. queue' \in Seq(Jobs \cup {Skipped}) /\ Len(queue') = Len(queue) + 1
  BY <1>1
<1>3. \A i \in 1 .. Len(queue') : IF i = Len(queue) + 1 THEN queue'[i] = j
                                  ELSE i \in 1 .. Len(queue) /\ queue'[i] = queue[i]
  BY <1>1
<1>4. \A i \in 1 .. Len(queue) : i \in 1 .. Len(queue') /\ queue'[i] = queue[i]
  BY <1>1
<1>5. QueueTypes'
  BY <1>1, <1>2, EngineConstants DEF QueueTypes
<1>6. Queued(S)' => Queued(S) \/ j \in S
  BY <1>3 DEF Queued
<1>7. UnderWay(S)' => UnderWay(S) \/ j \in S
  BY <1>6 DEF UnderWay
<1>8. ASSUME ~UnderWay(S) PROVE Single(S)'
  <2>1. \A i \in 1 .. Len(queue') : queue'[i] \in S => i = Len(queue) + 1
    BY <1>3, <1>8 DEF UnderWay, Queued
  <2>2. job' \notin S
    BY <1>8 DEF UnderWay
  <2> QED
    BY <2>1, <2>2 DEF Single
<1>9. ASSUME j \notin S PROVE Shrinks(S)
  <2>1. \A i \in 1 .. Len(queue') : queue'[i] \in S => i \in 1 .. Len(queue) /\ queue'[i] = queue[i]
    BY <1>3, <1>9
  <2>2. Single(S) => Single(S)'
    BY <1>6, <1>9, <2>1 DEF Single
  <2> QED
    BY <1>7, <1>9, <2>1, <2>2 DEF Shrinks
<1> QED
  BY <1>3, <1>5, <1>6, <1>7, <1>8, <1>9

LEMMA Taken ==
  ASSUME QueueTypes, Take, NEW S \in SUBSET Jobs
  PROVE  /\ QueueTypes' /\ Shrinks(S)
         /\ job = Nil /\ queue # <<>> /\ (job' = Nil \/ job' = queue[1])
         /\ \A i \in 1 .. Len(queue') : i + 1 \in 1 .. Len(queue) /\ queue'[i] = queue[i + 1]
<1>1. queue \in Seq(Jobs \cup {Skipped}) /\ queue # <<>> /\ queue' = Tail(queue) /\ job = Nil
      /\ job' = IF Head(queue) = Skipped THEN Nil ELSE Head(queue)
  BY DEF QueueTypes, Take
<1>2. Len(queue) \in Nat /\ Len(queue) > 0 /\ Head(queue) = queue[1] /\ queue[1] \in Jobs \cup {Skipped}
      /\ 1 \in 1 .. Len(queue)
  BY <1>1
<1>3. queue' \in Seq(Jobs \cup {Skipped}) /\ Len(queue') = Len(queue) - 1
  BY <1>1
<1>4. \A i \in 1 .. Len(queue') : i + 1 \in 1 .. Len(queue) /\ queue'[i] = queue[i + 1] /\ i + 1 # 1
  BY <1>1, <1>2, <1>3
<1>5. QueueTypes'
  BY <1>1, <1>2, <1>3, EngineConstants DEF QueueTypes
<1>6. job' = Nil \/ job' = queue[1]
  BY <1>1, <1>2
<1>7. Nil \notin S
  BY JobFacts
<1>8. Single(S) => Single(S)'
  <2> SUFFICES ASSUME Single(S) PROVE Single(S)'
    OBVIOUS
  <2>1. \A i, k \in 1 .. Len(queue') : queue'[i] \in S /\ queue'[k] \in S => i = k
    <3> SUFFICES ASSUME NEW i \in 1 .. Len(queue'), NEW k \in 1 .. Len(queue'), queue'[i] \in S, queue'[k] \in S
                 PROVE  i = k
      OBVIOUS
    <3>1. i + 1 = k + 1
      BY <1>4 DEF Single
    <3> QED
      BY <3>1
  <2>2. Queued(S)' => job' \notin S
    <3> SUFFICES ASSUME NEW i \in 1 .. Len(queue'), queue'[i] \in S, job' \in S PROVE FALSE
      BY DEF Queued
    <3>1. queue[1] \in S /\ queue[i + 1] \in S /\ i + 1 \in 1 .. Len(queue) /\ i + 1 # 1
      BY <1>4, <1>6, <1>7
    <3> QED
      BY <1>2, <3>1 DEF Single
  <2> QED
    BY <2>1, <2>2 DEF Single
<1>9. UnderWay(S)' => UnderWay(S)
  <2>1. Queued(S)' => Queued(S)
    BY <1>4 DEF Queued
  <2>2. job' \in S => Queued(S)
    BY <1>2, <1>6, <1>7 DEF Queued
  <2> QED
    BY <2>1, <2>2 DEF UnderWay
<1> QED
  BY <1>1, <1>4, <1>5, <1>6, <1>8, <1>9 DEF Shrinks

LEMMA JobAbandoned ==
  ASSUME QueueTypes, NEW j \in Jobs, Abandon(j), job' = job, NEW S \in SUBSET Jobs
  PROVE  /\ QueueTypes' /\ Shrinks(S)
         /\ \A i \in 1 .. Len(queue') : i \in 1 .. Len(queue) /\ queue'[i] # j
                                        /\ (queue'[i] \in S => queue'[i] = queue[i])
<1>1. queue \in Seq(Jobs \cup {Skipped}) /\ Len(queue) \in Nat
      /\ queue' = [i \in 1 .. Len(queue) |-> IF queue[i] = j THEN Skipped ELSE queue[i]]
  BY DEF QueueTypes, Abandon
<1>2. \A i \in 1 .. Len(queue) : queue[i] \in Jobs \cup {Skipped}
  BY <1>1
<1>3. queue' \in Seq(Jobs \cup {Skipped}) /\ Len(queue') = Len(queue)
  BY <1>1, <1>2
<1>4. \A i \in 1 .. Len(queue') : i \in 1 .. Len(queue) /\ queue'[i] = IF queue[i] = j THEN Skipped ELSE queue[i]
  BY <1>1, <1>3
<1>5. \A i \in 1 .. Len(queue') : i \in 1 .. Len(queue) /\ queue'[i] # j
                                  /\ (queue'[i] \in S => queue'[i] = queue[i])
  BY <1>4, JobFacts
<1>6. QueueTypes'
  BY <1>3 DEF QueueTypes
<1>7. Queued(S)' => Queued(S)
  BY <1>5 DEF Queued
<1>8. Single(S) => Single(S)'
  BY <1>5, <1>7 DEF Single
<1> QED
  BY <1>5, <1>6, <1>7, <1>8 DEF Shrinks, UnderWay

LEMMA JobDone ==
  ASSUME QueueTypes, queue' = queue, job' = Nil, NEW S \in SUBSET Jobs
  PROVE  /\ QueueTypes' /\ Shrinks(S)
         /\ Single(S) /\ job \in S => ~UnderWay(S)'
<1>1. QueueTypes'
  BY DEF QueueTypes
<1>2. Nil \notin S
  BY JobFacts
<1>3. Queued(S)' <=> Queued(S)
  BY DEF Queued
<1>4. Single(S) => Single(S)'
  BY <1>2, <1>3 DEF Single
<1> QED
  BY <1>1, <1>2, <1>3, <1>4 DEF Shrinks, UnderWay, Single

(* The sets of jobs that somebody waits for.                               *)
LEMMA JobSets ==
  /\ \A u \in Waiters : {SendJob(u)} \in SUBSET Jobs
  /\ RecvJobs \in SUBSET Jobs /\ OwnerJobs \in SUBSET Jobs /\ {Job("stop", Nil)} \in SUBSET Jobs
BY JobFacts

AllShrink ==
  /\ \A u \in Waiters : Shrinks({SendJob(u)})
  /\ Shrinks(RecvJobs) /\ Shrinks(OwnerJobs) /\ Shrinks({Job("stop", Nil)})

(* Jobs become no more, and nobody leaves the place where he waits.        *)
LEMMA SendKept ==
  ASSUME EInv, NEW u \in Waiters, Shrinks({SendJob(u)}),
         UnderWay({SendJob(u)})' => wait'[u].pc \in {"posted", "late"},
         Queued({SendJob(u)})' => wait'[u].pc = wait[u].pc /\ wait'[u].n = wait[u].n
  PROVE  SendPosting(u)'
<1>1. SendPosting(u)
  BY DEF EInv, Posting
<1>2. Queued({SendJob(u)})' => Queued({SendJob(u)})
  BY DEF Shrinks, Queued
<1> QED
  BY <1>1, <1>2 DEF SendPosting, Shrinks

LEMMA RecvKept ==
  ASSUME EInv, Shrinks(RecvJobs), UnderWay(RecvJobs)' => recv'.pc \in {"posted", "late"},
         Queued(RecvJobs)' => recv' = recv
  PROVE  RecvPosting'
<1>1. RecvPosting
  BY DEF EInv, Posting
<1>2. Single(RecvJobs)' /\ (UnderWay(RecvJobs)' => recv'.pc \in {"posted", "late"})
  BY <1>1 DEF RecvPosting, Shrinks
<1>3. \A i \in 1 .. Len(queue') : queue'[i] \in RecvJobs => queue'[i] = Job("in", recv'.m) /\ recv'.pc = "posted"
  <2> SUFFICES ASSUME NEW i \in 1 .. Len(queue'), queue'[i] \in RecvJobs
               PROVE  queue'[i] = Job("in", recv'.m) /\ recv'.pc = "posted"
    OBVIOUS
  <2>1. PICK k \in 1 .. Len(queue) : queue[k] = queue'[i]
    BY DEF Shrinks
  <2>2. queue[k] = Job("in", recv.m) /\ recv.pc = "posted"
    BY <1>1, <2>1 DEF RecvPosting
  <2>3. recv' = recv
    BY DEF Queued
  <2> QED
    BY <2>1, <2>2, <2>3
<1> QED
  BY <1>2, <1>3 DEF RecvPosting

LEMMA OwnerKept ==
  ASSUME EInv, Shrinks(OwnerJobs), UnderWay(OwnerJobs)' => owner'.pc = "marshalled"
  PROVE  OwnerPosting'
BY DEF EInv, Posting, OwnerPosting, Shrinks

LEMMA StoppingKept ==
  ASSUME EInv, Shrinks(RecvJobs), Shrinks({Job("stop", Nil)}), m_recvThreadExit => m_recvThreadExit',
         owner'.pc = "join" => owner.pc = "join" \/ m_recvThreadExit',
         stopped' => stopped \/ (m_recvThreadExit /\ ~UnderWay(RecvJobs))
  PROVE  Stopping'
BY DEF EInv, Stopping, Shrinks

(* Nobody who waits notices.                                               *)
LEMMA NoticedByNone ==
  ASSUME EInv, AllShrink, \A u \in Waiters : wait'[u].pc = wait[u].pc /\ wait'[u].n = wait[u].n,
         UnderWay(RecvJobs) => recv' = recv, m_recvThreadExit' = m_recvThreadExit,
         owner'.pc = owner.pc, stopped' = stopped
  PROVE  Posting' /\ Stopping'
<1>1. Posting
  BY DEF EInv
<1>3. /\ \A u \in Waiters : UnderWay({SendJob(u)})' => wait'[u].pc \in {"posted", "late"}
      /\ UnderWay(RecvJobs)' => recv'.pc \in {"posted", "late"} /\ recv' = recv
      /\ UnderWay(OwnerJobs)' => owner'.pc = "marshalled"
  BY <1>1 DEF Posting, SendPosting, RecvPosting, OwnerPosting, AllShrink, Shrinks
<1>4. Queued(RecvJobs)' => UnderWay(RecvJobs)'
  BY DEF UnderWay
<1>5. \A u \in Waiters : SendPosting(u)'
  BY <1>3, SendKept DEF AllShrink
<1>6. RecvPosting' /\ OwnerPosting'
  BY <1>3, <1>4, RecvKept, OwnerKept DEF AllShrink
<1> QED
  BY <1>5, <1>6, StoppingKept DEF Posting, AllShrink

LEMMA AllSame ==
  ASSUME UNCHANGED <<queue, job>>
  PROVE  AllShrink
BY QueueSame DEF AllShrink

LEMMA NoWaitFacts ==
  /\ NoWait \in WaitStates /\ NoWait.early = <<>> /\ NoWait.pc = "idle" /\ NoWait.n = 0
  /\ ~NoWait.complete /\ ~NoWait.success /\ ~NoWait.seqSet
BY RemoteConstants, ErrorTypes DEF NoWait, WaitStates

LEMMA InitEngine ==
  ASSUME Init
  PROVE  EngineTypes /\ Posting /\ Stopping /\ Waiting
<1>1. QueueTypes
  BY EngineConstants DEF QueueTypes, Init
<1>2. RecvTypes
  BY DEF RecvTypes, Init
<1>3. NoWait \in WaitStates /\ NoWait.early = <<>> /\ NoWait.pc = "idle" /\ NoWait.n = 0
      /\ ~NoWait.complete /\ ~NoWait.success /\ ~NoWait.seqSet
  BY NoWaitFacts
<1>4. WaitTypes
  BY <1>3, EngineConstants DEF WaitTypes, Init
<1>5. OwnerTypes /\ MapTypes
  <2>1. Len(Script) \in Nat
    BY EngineConstants
  <2>2. owner \in [pc : {"idle"}, at : {1}] /\ stopped \in BOOLEAN
    BY DEF Init
  <2>3. OwnerTypes
    BY <2>1, <2>2 DEF OwnerTypes
  <2> QED
    BY <2>3 DEF MapTypes, Init
<1>6. \A S : ~Queued(S)
  BY DEF Queued, Init
<1>7. Nil \notin RecvJobs /\ Nil \notin OwnerJobs /\ Nil # Job("stop", Nil) /\ \A u \in Waiters : Nil # SendJob(u)
  BY JobFacts
<1>8. ~UnderWay(RecvJobs) /\ ~UnderWay(OwnerJobs) /\ ~UnderWay({Job("stop", Nil)})
      /\ \A u \in Waiters : ~UnderWay({SendJob(u)})
  BY <1>6, <1>7 DEF UnderWay, Init
<1>9. \A S : Single(S)
  BY <1>6 DEF Single, Init
<1>10. Posting
  BY <1>6, <1>8, <1>9 DEF Posting, SendPosting, RecvPosting, OwnerPosting, Init
<1>11. Stopping
  BY <1>8 DEF Stopping, Init
<1>12. Waiting
  <2>1. calls = 0 /\ (\A u \in Waiters : wait[u] = NoWait) /\ (\A t \in Threads : call[t] = NoCall) /\ Net \in Threads
    BY EngineConstants DEF Init, RemoteInit
  <2> QED
    BY <1>3, <2>1, NoCallFacts DEF Waiting, CallOf, NetCall
<1> QED
  BY <1>1, <1>2, <1>4, <1>5, <1>10, <1>11, <1>12 DEF EngineTypes

(* A set of numbers has a least one.                                       *)
LEMMA LeastOf ==
  ASSUME NEW T \in SUBSET Nat, T # {}
  PROVE  \E i \in T : \A j \in T : i <= j
<1>1. PICK R : IsWellFoundedOn(R, Nat) /\ \A i, j \in Nat : j < i => <<j, i>> \in R
  <2>1. IsWellFoundedOn(OpToRel(<, Nat), Nat)
    BY NatLessThanWellFounded
  <2>2. \A i, j \in Nat : j < i => <<j, i>> \in OpToRel(<, Nat)
    BY DEF OpToRel
  <2> QED
    BY <2>1, <2>2, Zenon
<1>2. PICK i \in T : \A j \in T : ~ (<<j, i>> \in R)
  BY <1>1, WFMin
<1>3. \A j \in T : i \in Nat /\ j \in Nat /\ ~ (j < i)
  BY <1>1, <1>2
<1> QED
  BY <1>3

-----------------------------------------------------------------------------
(* What RemoteInvokeWait() knows.                                          *)

Status == [seq : 0 .. NumMod - 1, success : BOOLEAN]

(* A status changes nothing but what its caller knows.                     *)
LEMMA StatusFacts ==
  ASSUME NEW w \in WaitStates, Len(w.early) <= EarlyMax, NEW r \in Status,
         NEW x, x = StatusCb(w, r.seq, r.success)
  PROVE  /\ x \in WaitStates /\ Len(x.early) <= EarlyMax
         /\ x.pc = w.pc /\ x.n = w.n /\ x.seqSet = w.seqSet /\ x.expectedSeq = w.expectedSeq
         /\ ~w.seqSet => /\ x.complete = w.complete /\ x.success = w.success
                         /\ IF Len(w.early) < EarlyMax
                            THEN x.early = Append(w.early, r)
                            ELSE x.early = w.early
         /\ w.seqSet => /\ x.early = w.early
                        /\ IF ~w.complete /\ r.seq = w.expectedSeq THEN x.complete /\ x.success = r.success ELSE x = w
<1>1. w.early \in Seq(Status) /\ Len(w.early) \in Nat /\ EarlyMax \in Nat
  BY EngineConstants DEF WaitStates, Status
<1>2. r = [seq |-> r.seq, success |-> r.success] /\ r.success \in BOOLEAN
  BY DEF Status
<1>3. PICK e : e = Append(w.early, r)
  OBVIOUS
<1>4. e \in Seq(Status) /\ Len(e) = Len(w.early) + 1
  BY <1>1, <1>3
<1>5. CASE ~w.seqSet /\ Len(w.early) < EarlyMax
  <2>1. x = [w EXCEPT !.early = e]
    BY <1>2, <1>3, <1>5 DEF StatusCb
  <2>2. x \in WaitStates /\ x.early = e /\ x.pc = w.pc /\ x.n = w.n /\ x.seqSet = w.seqSet
        /\ x.expectedSeq = w.expectedSeq /\ x.complete = w.complete /\ x.success = w.success
    BY <1>4, <2>1 DEF WaitStates, Status
  <2> QED
    BY <1>1, <1>2, <1>3, <1>4, <1>5, <2>2
<1>6. CASE ~w.seqSet /\ ~(Len(w.early) < EarlyMax)
  BY <1>6 DEF StatusCb
<1>7. CASE w.seqSet /\ ~w.complete /\ r.seq = w.expectedSeq
  <2>1. PICK b \in BOOLEAN : b = r.success
    BY <1>2
  <2>2. x = [w EXCEPT !.complete = TRUE, !.success = b]
    BY <1>7, <2>1 DEF StatusCb
  <2>3. x \in WaitStates /\ x.early = w.early /\ x.pc = w.pc /\ x.n = w.n /\ x.seqSet = w.seqSet
        /\ x.expectedSeq = w.expectedSeq /\ x.complete = TRUE /\ x.success = b
    BY <2>2 DEF WaitStates
  <2> QED
    BY <1>7, <2>1, <2>3
<1>8. CASE w.seqSet /\ ~(~w.complete /\ r.seq = w.expectedSeq)
  BY <1>8 DEF StatusCb
<1> QED
  BY <1>5, <1>6, <1>7, <1>8

(* An early status of the number decides, if there is one.                 *)
LEMMA ReconcileFacts ==
  ASSUME NEW w \in WaitStates, NEW x, x = Reconcile(w)
  PROVE  /\ x \in WaitStates /\ x.early = w.early
         /\ x.pc = w.pc /\ x.n = w.n /\ x.seqSet = w.seqSet /\ x.expectedSeq = w.expectedSeq
         /\ \/ x = w /\ \A i \in 1 .. Len(w.early) : w.early[i].seq # w.expectedSeq
            \/ \E i \in 1 .. Len(w.early) :
                 w.early[i].seq = w.expectedSeq /\ x.complete /\ x.success = w.early[i].success
<1>1. w.early \in Seq(Status) /\ DOMAIN w.early = 1 .. Len(w.early) /\ Len(w.early) \in Nat
  BY DEF WaitStates, Status
<1>2. PICK mine : mine = {i \in DOMAIN w.early : w.early[i].seq = w.expectedSeq}
  OBVIOUS
<1>3. PICK first : first = CHOOSE i \in mine : \A j \in mine : i <= j
  OBVIOUS
<1>4. x = IF mine = {} THEN w ELSE [w EXCEPT !.complete = TRUE, !.success = w.early[first].success]
  BY <1>2, <1>3 DEF Reconcile
<1>5. CASE mine = {}
  BY <1>1, <1>2, <1>4, <1>5
<1>6. CASE mine # {}
  <2>1. mine \in SUBSET Nat
    BY <1>1, <1>2
  <2>2. first \in mine
    BY <1>3, <1>6, <2>1, LeastOf
  <2>3. first \in 1 .. Len(w.early) /\ w.early[first].seq = w.expectedSeq /\ w.early[first] \in Status
    BY <1>1, <1>2, <2>2
  <2>4. PICK b \in BOOLEAN : b = w.early[first].success
    BY <2>3 DEF Status
  <2>5. x = [w EXCEPT !.complete = TRUE, !.success = b]
    BY <1>4, <1>6, <2>4
  <2>6. x \in WaitStates /\ x.early = w.early /\ x.pc = w.pc /\ x.n = w.n /\ x.seqSet = w.seqSet
        /\ x.expectedSeq = w.expectedSeq /\ x.complete = TRUE /\ x.success = b
    BY <2>5 DEF WaitStates
  <2> QED
    BY <2>3, <2>4, <2>6
<1> QED
  BY <1>5, <1>6

LEMMA StatusReaches ==
  ASSUME EInv, NEW p \in pending, NEW b \in BOOLEAN, OnSendStatus(p, b)
  PROVE  /\ WaitTypes' /\ acked' \subseteq Calls
         /\ \A u \in Waiters : wait'[u] = wait[u] \/ wait'[u] = StatusCb(wait[u], p.seq, b)
         /\ \A u \in Waiters : /\ wait'[u].pc = wait[u].pc /\ wait'[u].n = wait[u].n
                               /\ wait'[u].seqSet = wait[u].seqSet
<1>1. WaitTypes /\ acked \subseteq Calls /\ p \in [seq : 0 .. NumMod - 1, id : Ids, n : Calls]
  BY DEF EInv, EngineTypes, MapTypes, CallTypes, SentTypes
<1>2. wait' = [u \in Waiters |-> IF wait[u].pc # "idle" /\ p.id = IdOf[WaitChan]
                                 THEN StatusCb(wait[u], p.seq, b) ELSE wait[u]]
      /\ acked' = IF b THEN acked \cup {p.n} ELSE acked
  BY DEF OnSendStatus
<1>3. \A u \in Waiters : wait'[u] = wait[u] \/ wait'[u] = StatusCb(wait[u], p.seq, b)
  BY <1>2
<1>4. \A u \in Waiters :
        /\ wait'[u] \in WaitStates /\ Len(wait'[u].early) <= EarlyMax
        /\ wait'[u].pc = wait[u].pc /\ wait'[u].n = wait[u].n /\ wait'[u].seqSet = wait[u].seqSet
  <2> SUFFICES ASSUME NEW u \in Waiters
               PROVE  /\ wait'[u] \in WaitStates /\ Len(wait'[u].early) <= EarlyMax
                      /\ wait'[u].pc = wait[u].pc /\ wait'[u].n = wait[u].n /\ wait'[u].seqSet = wait[u].seqSet
    OBVIOUS
  <2>1. wait[u] \in WaitStates /\ Len(wait[u].early) <= EarlyMax /\ p.seq \in 0 .. NumMod - 1
    BY <1>1 DEF WaitTypes
  <2>2. CASE wait'[u] = wait[u]
    BY <2>1, <2>2
  <2>3. CASE wait'[u] = StatusCb(wait[u], p.seq, b)
    <3>1. PICK r \in Status : r.seq = p.seq /\ r.success = b
      <4>1. [seq |-> p.seq, success |-> b] \in Status
        BY <2>1 DEF Status
      <4> QED
        BY <4>1
    <3>2. wait'[u] = StatusCb(wait[u], r.seq, r.success)
      BY <2>3, <3>1
    <3> QED
      BY <2>1, <3>2, StatusFacts
  <2> QED
    BY <1>3, <2>2, <2>3
<1>5. WaitTypes'
  BY <1>2, <1>4 DEF WaitTypes
<1> QED
  BY <1>1, <1>2, <1>3, <1>4, <1>5

-----------------------------------------------------------------------------
(* The jobs and those who wait for them, action by action.                 *)

EngineKept == EngineTypes' /\ Posting' /\ Stopping'

LEMMA DifferentJobs ==
  /\ \A u, v \in Waiters : u # v => SendJob(u) \notin {SendJob(v)}
  /\ \A u \in Waiters : SendJob(u) \notin RecvJobs /\ SendJob(u) \notin OwnerJobs /\ SendJob(u) # Job("stop", Nil)
  /\ \A j \in RecvJobs : j \notin OwnerJobs /\ j # Job("stop", Nil) /\ \A u \in Waiters : j # SendJob(u)
  /\ \A j \in OwnerJobs : j \notin RecvJobs /\ \A u \in Waiters : j # SendJob(u)
  /\ \A j \in OtherJobs : j \notin RecvJobs /\ j \notin OwnerJobs /\ j # Job("stop", Nil)
                          /\ \A u \in Waiters : j # SendJob(u)
BY JobKinds, JobFacts

(* A job that nobody waits for is posted.                                  *)
LEMMA OtherPosted ==
  ASSUME EInv, NEW j \in OtherJobs, Post(j), job' = job
  PROVE  QueueTypes' /\ AllShrink
<1>1. QueueTypes /\ j \in Jobs
  BY JobFacts DEF EInv, EngineTypes
<1> QED
  BY <1>1, Posted, DifferentJobs DEF AllShrink

LEMMA OtherPostedOrDropped ==
  ASSUME EInv, NEW j \in OtherJobs, PostOrDrop(j), job' = job
  PROVE  QueueTypes' /\ AllShrink
<1>1. CASE Full
  BY <1>1, AllSame DEF PostOrDrop, EInv, EngineTypes, QueueTypes
<1>2. CASE ~Full
  BY <1>2, OtherPosted DEF PostOrDrop
<1> QED
  BY <1>1, <1>2

LEMMA RemoteInvokeWaitKept ==
  ASSUME EInv, NEW u \in Waiters, RemoteInvokeWait(u)
  PROVE  EngineKept
<1>1. EngineTypes /\ Posting /\ Stopping /\ SendJob(u) \in Jobs
  BY JobFacts DEF EInv
<1>2. Post(SendJob(u)) /\ job' = job /\ wait[u].pc = "idle"
      /\ UNCHANGED <<m_receiveIdMap, acked, recvVars, ownerVars>>
  BY DEF RemoteInvokeWait, SendJob
<1>3. PICK k : k = [NoWait EXCEPT !.pc = "posted"]
  OBVIOUS
<1>4. k \in WaitStates /\ k.early = <<>> /\ k.pc = "posted" /\ k.n = 0
  BY <1>3, NoWaitFacts DEF WaitStates
<1>5. wait' = [wait EXCEPT ![u] = k]
  BY <1>3 DEF RemoteInvokeWait
<1>6. WaitTypes' /\ \A v \in Waiters : wait'[v] = IF v = u THEN k ELSE wait[v]
  BY <1>1, <1>4, <1>5, EngineConstants DEF EngineTypes, WaitTypes
<1>7. EngineTypes'
  <2>1. QueueTypes'
    BY <1>1, <1>2, Posted DEF EngineTypes
  <2> QED
    BY <1>1, <1>2, <1>6, <2>1 DEF EngineTypes, RecvTypes, OwnerTypes, MapTypes, recvVars, ownerVars
<1>8. ~UnderWay({SendJob(u)})
  BY <1>1, <1>2 DEF Posting, SendPosting
<1>9. Shrinks(RecvJobs) /\ Shrinks(OwnerJobs) /\ Shrinks({Job("stop", Nil)})
      /\ \A v \in Waiters : v # u => Shrinks({SendJob(v)})
  BY <1>1, <1>2, Posted, DifferentJobs DEF EngineTypes
<1>10. Single({SendJob(u)})'
  BY <1>1, <1>2, <1>8, Posted DEF EngineTypes
<1>11. SendPosting(u)'
  BY <1>4, <1>6, <1>10 DEF SendPosting
<1>12. \A v \in Waiters : v # u => SendPosting(v)'
  <2> SUFFICES ASSUME NEW v \in Waiters, v # u PROVE SendPosting(v)'
    OBVIOUS
  <2>1. wait'[v] = wait[v] /\ SendPosting(v)
    BY <1>1, <1>6 DEF Posting
  <2>2. UnderWay({SendJob(v)})' => wait'[v].pc \in {"posted", "late"}
    BY <1>9, <2>1 DEF Shrinks, SendPosting
  <2> QED
    BY <1>9, <2>1, <2>2, SendKept
<1>13. RecvPosting' /\ OwnerPosting'
  BY <1>1, <1>2, <1>9, RecvKept, OwnerKept DEF Posting, RecvPosting, OwnerPosting, Shrinks, recvVars, ownerVars
<1>14. Stopping'
  BY <1>2, <1>9, StoppingKept DEF recvVars, ownerVars
<1> QED
  BY <1>7, <1>11, <1>12, <1>13, <1>14 DEF EngineKept, Posting

LEMMA WaitMoved ==
  ASSUME EInv, NEW u \in Waiters, NEW k \in WaitStates, Len(k.early) <= EarlyMax, wait' = [wait EXCEPT ![u] = k]
  PROVE  WaitTypes' /\ \A v \in Waiters : wait'[v] = IF v = u THEN k ELSE wait[v]
BY DEF EInv, EngineTypes, WaitTypes

(* A step of one who waits, when nobody waits for a new job.               *)
LEMMA WaiterKept ==
  ASSUME EInv, AllShrink, QueueTypes', NEW u \in Waiters, NEW k \in WaitStates, Len(k.early) <= EarlyMax,
         wait' = [wait EXCEPT ![u] = k],
         UnderWay({SendJob(u)})' => k.pc \in {"posted", "late"},
         Queued({SendJob(u)})' => k.pc = wait[u].pc /\ k.n = wait[u].n,
         UNCHANGED <<m_receiveIdMap, acked, recvVars, ownerVars>>
  PROVE  EngineKept
<1>1. EngineTypes /\ Posting
  BY DEF EInv
<1>2. WaitTypes' /\ \A v \in Waiters : wait'[v] = IF v = u THEN k ELSE wait[v]
  BY WaitMoved
<1>3. EngineTypes'
  BY <1>1, <1>2 DEF EngineTypes, RecvTypes, OwnerTypes, MapTypes, recvVars, ownerVars
<1>4. \A v \in Waiters : SendPosting(v)'
  <2> SUFFICES ASSUME NEW v \in Waiters PROVE SendPosting(v)'
    OBVIOUS
  <2>1. CASE v = u
    BY <1>2, <2>1, SendKept DEF AllShrink
  <2>2. CASE v # u
    <3>1. wait'[v] = wait[v] /\ SendPosting(v) /\ Shrinks({SendJob(v)})
      BY <1>1, <1>2, <2>2 DEF Posting, AllShrink
    <3> QED
      BY <3>1, SendKept DEF Shrinks, SendPosting
  <2> QED
    BY <2>1, <2>2
<1>5. RecvPosting' /\ OwnerPosting'
  BY <1>1, RecvKept, OwnerKept DEF AllShrink, Posting, RecvPosting, OwnerPosting, Shrinks, recvVars, ownerVars
<1>6. Stopping'
  BY StoppingKept DEF AllShrink, recvVars, ownerVars
<1> QED
  BY <1>3, <1>4, <1>5, <1>6 DEF EngineKept, Posting

LEMMA WaiterTypes ==
  ASSUME EInv, NEW u \in Waiters
  PROVE  wait[u] \in WaitStates /\ Len(wait[u].early) <= EarlyMax /\ SendPosting(u) /\ QueueTypes
         /\ SendJob(u) \in Jobs
BY JobFacts DEF EInv, EngineTypes, WaitTypes, Posting

LEMMA Placed ==
  ASSUME NEW w \in WaitStates, NEW pc \in {"idle", "posted", "late", "wait", "return"}, NEW k, k = [w EXCEPT !.pc = pc]
  PROVE  k \in WaitStates /\ k.pc = pc /\ k.n = w.n /\ k.early = w.early /\ k.seqSet = w.seqSet
         /\ k.complete = w.complete /\ k.success = w.success /\ k.expectedSeq = w.expectedSeq
BY DEF WaitStates

LEMMA SendTimeoutKept ==
  ASSUME EInv, NEW u \in Waiters, SendTimeout(u)
  PROVE  EngineKept
<1>1. wait[u] \in WaitStates /\ Len(wait[u].early) <= EarlyMax /\ SendPosting(u) /\ QueueTypes /\ SendJob(u) \in Jobs
  BY WaiterTypes
<1>2. wait[u].pc = "posted" /\ job' = job /\ UNCHANGED <<m_receiveIdMap, acked, recvVars, ownerVars>>
  BY DEF SendTimeout
<1>3. CASE job = SendJob(u)
  <2>1. PICK k : k = [wait[u] EXCEPT !.pc = "late"]
    OBVIOUS
  <2>2. k \in WaitStates /\ k.pc = "late" /\ k.early = wait[u].early
    BY <1>1, <2>1, Placed
  <2>3. wait' = [wait EXCEPT ![u] = k] /\ queue' = queue
    BY <1>3, <2>1 DEF SendTimeout, SendJob
  <2>4. AllShrink /\ QueueTypes'
    BY <1>1, <1>2, <2>3, AllSame, QueueSame
  <2>5. ~Queued({SendJob(u)})'
    BY <1>1, <1>3, <2>3 DEF SendPosting, Single, Queued
  <2> QED
    BY <1>1, <1>2, <2>2, <2>3, <2>4, <2>5, WaiterKept
<1>4. CASE job # SendJob(u)
  <2>1. PICK k : k = [wait[u] EXCEPT !.pc = "return"]
    OBVIOUS
  <2>2. k \in WaitStates /\ k.pc = "return" /\ k.early = wait[u].early
    BY <1>1, <2>1, Placed
  <2>3. wait' = [wait EXCEPT ![u] = k] /\ Abandon(SendJob(u))
    BY <1>4, <2>1 DEF SendTimeout, SendJob
  <2>4. AllShrink /\ QueueTypes'
    BY <1>1, <1>2, <2>3, JobAbandoned, JobSets DEF AllShrink
  <2>5. ~UnderWay({SendJob(u)})' /\ ~Queued({SendJob(u)})'
    BY <1>1, <1>2, <1>4, <2>3, JobAbandoned, JobSets DEF UnderWay, Queued
  <2> QED
    BY <1>1, <1>2, <2>2, <2>3, <2>4, <2>5, WaiterKept
<1> QED
  BY <1>3, <1>4

LEMMA WaitReturnsKept ==
  ASSUME EInv, NEW u \in Waiters, WaitReturns(u)
  PROVE  EngineKept
<1>1. wait[u] \in WaitStates /\ Len(wait[u].early) <= EarlyMax /\ SendPosting(u) /\ QueueTypes /\ SendJob(u) \in Jobs
  BY WaiterTypes
<1>2. wait[u].pc \in {"wait", "return"} /\ UNCHANGED <<queue, job>> /\ wait' = [wait EXCEPT ![u] = NoWait]
      /\ UNCHANGED <<m_receiveIdMap, acked, recvVars, ownerVars>>
  BY DEF WaitReturns
<1>3. AllShrink /\ QueueTypes'
  BY <1>1, <1>2, AllSame, QueueSame
<1>4. ~UnderWay({SendJob(u)})'
  BY <1>1, <1>2, QueueSame DEF SendPosting
<1>5. ~Queued({SendJob(u)})'
  BY <1>4 DEF UnderWay
<1>6. Len(NoWait.early) <= EarlyMax
  BY NoWaitFacts, EngineConstants
<1> QED
  BY <1>2, <1>3, <1>4, <1>5, <1>6, WaiterKept, NoWaitFacts

LEMMA SendBeginsKept ==
  ASSUME EInv, NEW u \in Waiters, SendBegins(u)
  PROVE  EngineKept
<1>1. wait[u] \in WaitStates /\ Len(wait[u].early) <= EarlyMax /\ SendPosting(u) /\ QueueTypes /\ SendJob(u) \in Jobs
  BY WaiterTypes
<1>2. job = SendJob(u) /\ UNCHANGED <<queue, job>> /\ calls < MaxCalls
      /\ UNCHANGED <<m_receiveIdMap, acked, recvVars, ownerVars>>
  BY DEF SendBegins, SendJob, Begin
<1>3. PICK k : k = [wait[u] EXCEPT !.n = calls + 1]
  OBVIOUS
<1>4. calls + 1 \in 0 .. MaxCalls
  BY <1>2, RemoteConstants DEF EInv, CallTypes, PlaceTypes
<1>5. k \in WaitStates /\ k.pc = wait[u].pc /\ k.early = wait[u].early
  BY <1>1, <1>3, <1>4 DEF WaitStates
<1>6. wait' = [wait EXCEPT ![u] = k]
  BY <1>3 DEF SendBegins
<1>7. AllShrink /\ QueueTypes'
  BY <1>1, <1>2, AllSame, QueueSame
<1>8. ~Queued({SendJob(u)}) /\ UnderWay({SendJob(u)})
  BY <1>1, <1>2 DEF SendPosting, Single, UnderWay
<1>9. ~Queued({SendJob(u)})'
  BY <1>2, <1>8 DEF Queued
<1>10. k.pc \in {"posted", "late"}
  BY <1>1, <1>5, <1>8 DEF SendPosting
<1> QED
  BY <1>1, <1>2, <1>5, <1>6, <1>7, <1>9, <1>10, WaiterKept

(* What the send lambda leaves: w with the number, x when it has looked at *)
(* the early statuses, k.                                                  *)
SendEnded(u, w, x, k) ==
  /\ w.pc = wait[u].pc /\ w.n = wait[u].n /\ w.early = wait[u].early /\ w.seqSet = TRUE
  /\ w.complete = wait[u].complete /\ w.success = wait[u].success
  /\ w.expectedSeq = obj[WaitChan].seq
  /\ x = Reconcile(w)
  /\ k.pc \in {"wait", "return"} /\ k.n = x.n /\ k.early = x.early /\ k.seqSet = x.seqSet
  /\ k.complete = x.complete /\ k.success = x.success /\ k.expectedSeq = x.expectedSeq
  /\ wait' = [wait EXCEPT ![u] = k]

LEMMA SendEndsFacts ==
  ASSUME EInv, NEW u \in Waiters, SendEnds(u)
  PROVE  \E w \in WaitStates, x \in WaitStates, k \in WaitStates : SendEnded(u, w, x, k)
<1>1. wait[u] \in WaitStates
  BY WaiterTypes
<1>2. obj[WaitChan].seq \in 0 .. NumMod - 1
  BY Wired DEF EInv, CallTypes, ObjTypes, Delegates
<1>3. PICK w : w = [wait[u] EXCEPT !.seqSet = TRUE, !.expectedSeq = obj[WaitChan].seq]
  OBVIOUS
<1>4. PICK q \in 0 .. NumMod - 1 : q = obj[WaitChan].seq
  BY <1>2
<1>5. w \in WaitStates /\ w.pc = wait[u].pc /\ w.n = wait[u].n /\ w.early = wait[u].early /\ w.seqSet = TRUE
      /\ w.complete = wait[u].complete /\ w.success = wait[u].success /\ w.expectedSeq = q
  BY <1>1, <1>3, <1>4 DEF WaitStates
<1>6. PICK x : x = Reconcile(w)
  OBVIOUS
<1>7. x \in WaitStates
  BY <1>5, <1>6, ReconcileFacts
<1>8. PICK pc \in {"wait", "return"} : pc = IF obj[WaitChan].err = "SUCCESS" /\ x.pc = "posted" THEN "wait" ELSE "return"
  OBVIOUS
<1>9. PICK k : k = [x EXCEPT !.pc = pc]
  OBVIOUS
<1>10. wait' = [wait EXCEPT ![u] = k]
  BY <1>3, <1>6, <1>8, <1>9 DEF SendEnds
<1>11. k \in WaitStates /\ k.pc = pc /\ k.n = x.n /\ k.early = x.early /\ k.seqSet = x.seqSet
       /\ k.complete = x.complete /\ k.success = x.success /\ k.expectedSeq = x.expectedSeq
  BY <1>7, <1>9, Placed
<1> QED
  BY <1>4, <1>5, <1>6, <1>7, <1>8, <1>10, <1>11 DEF SendEnded

LEMMA SendEndsKept ==
  ASSUME EInv, NEW u \in Waiters, SendEnds(u)
  PROVE  EngineKept
<1>1. wait[u] \in WaitStates /\ Len(wait[u].early) <= EarlyMax /\ SendPosting(u) /\ QueueTypes /\ SendJob(u) \in Jobs
  BY WaiterTypes
<1>2. job = SendJob(u) /\ queue' = queue /\ job' = Nil
      /\ UNCHANGED <<m_receiveIdMap, acked, recvVars, ownerVars>>
  BY DEF SendEnds, SendJob
<1>3. PICK k \in WaitStates : k.early = wait[u].early /\ wait' = [wait EXCEPT ![u] = k]
  <2>1. PICK w \in WaitStates, x \in WaitStates, k \in WaitStates : SendEnded(u, w, x, k)
    BY SendEndsFacts
  <2>2. x.early = w.early
    BY <2>1, ReconcileFacts DEF SendEnded
  <2> QED
    BY <2>1, <2>2 DEF SendEnded
<1>4. AllShrink /\ QueueTypes'
  BY <1>1, <1>2, JobDone, JobSets DEF AllShrink
<1>5. ~UnderWay({SendJob(u)})'
  BY <1>1, <1>2, JobDone, JobSets DEF SendPosting
<1>6. ~Queued({SendJob(u)})'
  BY <1>5 DEF UnderWay
<1> QED
  BY <1>1, <1>2, <1>3, <1>4, <1>5, <1>6, WaiterKept

-----------------------------------------------------------------------------
(* The receive thread.                                                     *)

(* A step of the receive thread, when nobody waits for a new job.          *)
LEMMA ReceiverKept ==
  ASSUME EInv, AllShrink, QueueTypes', RecvTypes', acked' \subseteq Calls, WaitTypes',
         \A u \in Waiters : wait'[u].pc = wait[u].pc /\ wait'[u].n = wait[u].n,
         UnderWay(RecvJobs)' => recv'.pc \in {"posted", "late"},
         Queued(RecvJobs)' => recv' = recv,
         UNCHANGED <<m_receiveIdMap, m_recvThreadExit, ownerVars>>
  PROVE  EngineKept
<1>1. EngineTypes /\ Posting
  BY DEF EInv
<1>2. EngineTypes'
  BY <1>1 DEF EngineTypes, OwnerTypes, MapTypes, ownerVars
<1>3. \A u \in Waiters : SendPosting(u)'
  <2> SUFFICES ASSUME NEW u \in Waiters PROVE SendPosting(u)'
    OBVIOUS
  <2>1. SendPosting(u) /\ Shrinks({SendJob(u)})
    BY <1>1 DEF Posting, AllShrink
  <2> QED
    BY <2>1, SendKept DEF SendPosting, Shrinks
<1>4. RecvPosting' /\ OwnerPosting'
  BY <1>1, RecvKept, OwnerKept DEF AllShrink, Posting, OwnerPosting, Shrinks, ownerVars
<1>5. Stopping'
  BY StoppingKept DEF AllShrink, ownerVars
<1> QED
  BY <1>2, <1>3, <1>4, <1>5 DEF EngineKept, Posting

LEMMA SameTypes ==
  ASSUME EInv
  PROVE  QueueTypes /\ RecvTypes /\ WaitTypes /\ acked \subseteq Calls /\ RecvPosting
         /\ (wait' = wait => WaitTypes') /\ (queue' = queue /\ job' = job => QueueTypes')
         /\ (recv' = recv /\ m_recvThreadExit' = m_recvThreadExit /\ m_recvThreadCreated' = m_recvThreadCreated
               => RecvTypes')
BY DEF EInv, EngineTypes, MapTypes, Posting, WaitTypes, QueueTypes, RecvTypes

LEMMA ReceiveDataKept ==
  ASSUME EInv, NEW m \in air, ReceiveData(m)
  PROVE  EngineKept
<1>1. recv.pc = "receive" /\ recv' = [pc |-> "post", m |-> m] /\ wait' = wait /\ acked' = acked
      /\ UNCHANGED <<queue, job, m_receiveIdMap, m_recvThreadExit, m_recvThreadCreated, ownerVars>>
  BY DEF ReceiveData, RecvStays
<1>2. m \in Messages
  BY DEF EInv, CallTypes, SentTypes
<1>3. RecvTypes'
  BY <1>1, <1>2, SameTypes DEF RecvTypes
<1>4. ~UnderWay(RecvJobs)'
  BY <1>1, SameTypes, QueueSame DEF RecvPosting
<1>5. ~Queued(RecvJobs)'
  BY <1>4 DEF UnderWay
<1>6. AllShrink
  BY <1>1, AllSame
<1> QED
  BY <1>1, <1>3, <1>4, <1>5, <1>6, SameTypes, ReceiverKept

LEMMA ReceiveAckKept ==
  ASSUME EInv, NEW a \in acks, ReceiveAck(a)
  PROVE  EngineKept
<1>1. UNCHANGED <<queue, job, recv, m_receiveIdMap, m_recvThreadExit, m_recvThreadCreated, ownerVars>>
  BY DEF ReceiveAck, RecvStays
<1>2. acked' \subseteq Calls /\ WaitTypes' /\ \A u \in Waiters : wait'[u].pc = wait[u].pc /\ wait'[u].n = wait[u].n
  <2>1. CASE \E p \in pending : p.seq = a.seq /\ p.id = a.id
    <3>1. PICK p \in pending : p = CHOOSE q \in pending : q.seq = a.seq /\ q.id = a.id
      BY <2>1
    <3>2. OnSendStatus(p, TRUE)
      BY <2>1, <3>1 DEF ReceiveAck
    <3> QED
      BY <3>2, StatusReaches
  <2>2. CASE ~\E p \in pending : p.seq = a.seq /\ p.id = a.id
    BY <2>2, SameTypes DEF ReceiveAck
  <2> QED
    BY <2>1, <2>2
<1>3. (UnderWay(RecvJobs)' => recv'.pc \in {"posted", "late"}) /\ RecvTypes' /\ QueueTypes' /\ AllShrink
  BY <1>1, SameTypes, QueueSame, AllSame DEF RecvPosting
<1> QED
  BY <1>1, <1>2, <1>3, ReceiverKept

LEMMA RecvPostKept ==
  ASSUME EInv, RecvPost
  PROVE  EngineKept
<1>1. recv.pc = "post" /\ wait' = wait /\ acked' = acked
      /\ UNCHANGED <<job, m_receiveIdMap, m_recvThreadExit, m_recvThreadCreated, ownerVars>>
  BY DEF RecvPost, RecvStays
<1>2. ~UnderWay(RecvJobs)
  BY <1>1, SameTypes DEF RecvPosting
<1>3. CASE m_recvThreadExit \/ Full
  <2>1. recv' = [pc |-> "receive", m |-> Nil] /\ queue' = queue
    BY <1>3 DEF RecvPost
  <2>2. RecvTypes'
    BY <1>1, <2>1, SameTypes DEF RecvTypes
  <2>3. ~UnderWay(RecvJobs)' /\ QueueTypes' /\ AllShrink
    BY <1>1, <1>2, <2>1, SameTypes, QueueSame, AllSame
  <2>4. ~Queued(RecvJobs)'
    BY <2>3 DEF UnderWay
  <2> QED
    BY <1>1, <2>2, <2>3, <2>4, SameTypes, ReceiverKept
<1>4. CASE ~(m_recvThreadExit \/ Full)
  <2>1. Post(Job("in", recv.m)) /\ recv' = [recv EXCEPT !.pc = "posted"]
    BY <1>4 DEF RecvPost
  <2>2. recv.m \in Messages
    BY <1>1, SameTypes DEF RecvTypes
  <2>3. PICK j \in RecvJobs : j = Job("in", recv.m)
    BY <2>2, JobFacts
  <2>4. recv'.pc = "posted" /\ recv'.m = recv.m /\ RecvTypes'
    BY <1>1, <2>1, <2>2, SameTypes DEF RecvTypes
  <2>5. j \in Jobs /\ Post(j)
    BY <2>1, <2>3, JobFacts
  <2>6. Shrinks(OwnerJobs) /\ Shrinks({Job("stop", Nil)}) /\ (\A u \in Waiters : Shrinks({SendJob(u)}))
    BY <1>1, <2>3, <2>5, SameTypes, Posted, DifferentJobs
  <2>7. /\ QueueTypes' /\ Single(RecvJobs)'
        /\ \A i \in 1 .. Len(queue') : queue'[i] = j \/ (i \in 1 .. Len(queue) /\ queue'[i] = queue[i])
    BY <1>1, <1>2, <2>5, SameTypes, Posted
  <2>8. \A i \in 1 .. Len(queue') : queue'[i] \in RecvJobs => queue'[i] = j
    BY <1>2, <2>7 DEF UnderWay, Queued
  <2>9. RecvPosting'
    BY <2>3, <2>4, <2>7, <2>8 DEF RecvPosting
  <2>10. \A u \in Waiters : SendPosting(u)'
    <3> SUFFICES ASSUME NEW u \in Waiters PROVE SendPosting(u)'
      OBVIOUS
    <3>1. SendPosting(u) /\ Shrinks({SendJob(u)})
      BY <2>6 DEF EInv, Posting
    <3> QED
      BY <1>1, <3>1, SendKept DEF SendPosting, Shrinks
  <2>11. OwnerPosting'
    BY <1>1, <2>6, OwnerKept DEF EInv, Posting, OwnerPosting, Shrinks, ownerVars
  <2>12. Stopping'
    BY <1>1, <1>4, <2>6 DEF EInv, Stopping, Shrinks, ownerVars
  <2>13. EngineTypes'
    BY <1>1, <2>4, <2>7, SameTypes DEF EInv, EngineTypes, OwnerTypes, MapTypes, ownerVars
  <2> QED
    BY <2>9, <2>10, <2>11, <2>12, <2>13 DEF EngineKept, Posting
<1> QED
  BY <1>3, <1>4

LEMMA RecvTimeoutKept ==
  ASSUME EInv, RecvTimeout
  PROVE  EngineKept
<1>1. recv.pc = "posted" /\ wait' = wait /\ acked' = acked
      /\ UNCHANGED <<job, m_receiveIdMap, m_recvThreadExit, m_recvThreadCreated, ownerVars>>
  BY DEF RecvTimeout, RecvStays
<1>2. recv.m \in Messages /\ QueueTypes /\ RecvPosting /\ RecvTypes
  BY <1>1, SameTypes DEF RecvTypes
<1>3. CASE job # Nil /\ job.kind \in {"in", "handler", "reply"}
  <2>1. recv' = [recv EXCEPT !.pc = "late"] /\ queue' = queue
    BY <1>3 DEF RecvTimeout
  <2>2. RecvTypes' /\ recv'.pc = "late"
    BY <1>1, <1>2, <2>1 DEF RecvTypes
  <2>3. job \in RecvJobs
    BY <1>2, <1>3, KindOf DEF QueueTypes
  <2>4. ~Queued(RecvJobs)'
    BY <1>2, <2>1, <2>3 DEF RecvPosting, Single, Queued
  <2>5. QueueTypes' /\ AllShrink
    BY <1>1, <2>1, SameTypes, AllSame
  <2> QED
    BY <1>1, <2>2, <2>4, <2>5, SameTypes, ReceiverKept
<1>4. CASE ~(job # Nil /\ job.kind \in {"in", "handler", "reply"})
  <2>1. recv' = [pc |-> "receive", m |-> Nil] /\ Abandon(Job("in", recv.m))
    BY <1>4 DEF RecvTimeout
  <2>2. RecvTypes'
    BY <1>1, <1>2, <2>1 DEF RecvTypes
  <2>3. PICK j \in RecvJobs : j = Job("in", recv.m)
    BY <1>2, JobFacts
  <2>4. j \in Jobs /\ Abandon(j)
    BY <2>1, <2>3, JobFacts
  <2>5. QueueTypes' /\ AllShrink
    BY <1>1, <1>2, <2>4, JobAbandoned, JobSets DEF AllShrink
  <2>6. \A i \in 1 .. Len(queue') :
          i \in 1 .. Len(queue) /\ queue'[i] # j /\ (queue'[i] \in RecvJobs => queue'[i] = queue[i])
    BY <1>1, <1>2, <2>4, JobAbandoned, JobSets
  <2>7. ~Queued(RecvJobs)'
    BY <1>2, <2>3, <2>6 DEF RecvPosting, Queued
  <2>8. job \notin RecvJobs
    BY <1>4, JobKinds, JobFacts
  <2>9. ~UnderWay(RecvJobs)'
    BY <1>1, <2>7, <2>8 DEF UnderWay
  <2> QED
    BY <1>1, <2>2, <2>5, <2>7, <2>9, SameTypes, ReceiverKept
<1> QED
  BY <1>3, <1>4

LEMMA RecvLeavesKept ==
  ASSUME EInv, RecvLeaves
  PROVE  EngineKept
<1>1. recv.pc = "receive" /\ recv' = [pc |-> "gone", m |-> Nil] /\ wait' = wait /\ acked' = acked
      /\ UNCHANGED <<queue, job, m_receiveIdMap, m_recvThreadExit, m_recvThreadCreated, ownerVars>>
  BY DEF RecvLeaves, RecvStays
<1>2. RecvTypes'
  BY <1>1, SameTypes DEF RecvTypes
<1>3. ~UnderWay(RecvJobs)'
  BY <1>1, SameTypes, QueueSame DEF RecvPosting
<1>4. ~Queued(RecvJobs)'
  BY <1>3 DEF UnderWay
<1>5. AllShrink
  BY <1>1, AllSame
<1> QED
  BY <1>1, <1>2, <1>3, <1>4, <1>5, SameTypes, ReceiverKept

-----------------------------------------------------------------------------
(* The network thread and the owner.                                       *)

LEMMA TakeKept ==
  ASSUME EInv, Take
  PROVE  EngineKept
<1>1. wait' = wait /\ acked' = acked /\ recv' = recv
      /\ UNCHANGED <<m_receiveIdMap, m_recvThreadExit, m_recvThreadCreated, ownerVars>>
  BY DEF Take, recvVars
<1>2. AllShrink /\ QueueTypes'
  BY SameTypes, Taken, JobSets DEF AllShrink
<1>3. UnderWay(RecvJobs)' => recv'.pc \in {"posted", "late"}
  BY <1>1, <1>2, SameTypes DEF AllShrink, Shrinks, RecvPosting
<1> QED
  BY <1>1, <1>2, <1>3, SameTypes, ReceiverKept

LEMMA DoingFacts ==
  ASSUME EInv
  PROVE  /\ \A kind \in {"in", "handler", "reply"} : Doing(kind) => job \in RecvJobs
         /\ Doing("in") => job = Job("in", job.of) /\ job.of \in Messages
         /\ \A kind \in {"initialize", "stop", "register"} : Doing(kind) => job \in OwnerJobs
         /\ Doing("stop") => job = Job("stop", Nil)
         /\ Doing("register") => job = Job("register", job.of) /\ job.of \in Endpoints
         /\ \A kind \in {"timeout", "start"} : Doing(kind) => job \in OtherJobs
<1>1. job = Nil \/ job \in Jobs
  BY SameTypes DEF QueueTypes
<1>2. \A kind : Doing(kind) => job \in Jobs /\ job.kind = kind
  BY <1>1 DEF Doing
<1> QED
  BY <1>2, KindOf

(* The job of the receive thread goes on to its next part.                 *)
LEMMA NextPartKept ==
  ASSUME EInv, NEW k \in {"handler", "reply"}, job \in RecvJobs, job' = Job(k, job.of),
         UNCHANGED <<wait, acked, recv, queue, m_receiveIdMap, m_recvThreadExit, m_recvThreadCreated, ownerVars>>
  PROVE  EngineKept
<1>2. job' \in RecvJobs /\ job' \in Jobs
  BY JobFacts, JobKinds
<1>3. QueueTypes'
  BY <1>2, SameTypes DEF QueueTypes
<1>4. \A S : Queued(S)' <=> Queued(S)
  BY DEF Queued
<1>5. \A S : job \notin S /\ job' \notin S => Shrinks(S)
  BY <1>4 DEF Shrinks, Single, UnderWay
<1>6. Shrinks(RecvJobs)
  BY <1>2, <1>4 DEF Shrinks, Single, UnderWay
<1>7. AllShrink
  BY <1>2, <1>5, <1>6, DifferentJobs DEF AllShrink
<1>8. (UnderWay(RecvJobs)' => recv'.pc \in {"posted", "late"})
  BY <1>6, SameTypes DEF Shrinks, RecvPosting
<1> QED
  BY <1>3, <1>7, <1>8, SameTypes, ReceiverKept

(* The job of the receive thread ends, with or without its signal.         *)
LEMMA RecvJobDone ==
  ASSUME EInv, job \in RecvJobs, job' = Nil, recv' = recv \/ recv' = [pc |-> "receive", m |-> Nil],
         UNCHANGED <<wait, acked, queue, m_receiveIdMap, m_recvThreadExit, m_recvThreadCreated, ownerVars>>
  PROVE  EngineKept
<1>2. recv.pc \in {"posted", "late"}
  BY SameTypes DEF RecvPosting, UnderWay
<1>3. QueueTypes' /\ AllShrink /\ ~UnderWay(RecvJobs)'
  BY SameTypes, JobDone, JobSets DEF AllShrink, RecvPosting
<1>4. ~Queued(RecvJobs)'
  BY <1>3 DEF UnderWay
<1>5. RecvTypes'
  BY <1>2, SameTypes DEF RecvTypes
<1> QED
  BY <1>3, <1>4, <1>5, SameTypes, ReceiverKept

(* What Incoming() does to the job and to who waits for it.                *)
LEMMA IncomingSteps ==
  ASSUME EInv, Incoming
  PROVE  /\ job \in RecvJobs /\ UNCHANGED <<call, calls, wait, acked, queue, m_receiveIdMap, ownerVars>>
         /\ UNCHANGED <<m_recvThreadExit, m_recvThreadCreated>>
         /\ \/ job' = Job("handler", job.of) /\ recv' = recv
            \/ job' = Nil /\ (recv' = recv \/ recv' = [pc |-> "receive", m |-> Nil])
<1>1. job \in RecvJobs
  BY DoingFacts DEF Incoming
<1> QED
  BY <1>1 DEF Incoming, RecvStays, Signalled, Abandoned

LEMMA IncomingKept ==
  ASSUME EInv, Incoming
  PROVE  EngineKept
BY IncomingSteps, NextPartKept, RecvJobDone

LEMMA HandlerSendsKept ==
  ASSUME EInv, HandlerSends
  PROVE  EngineKept
<1>1. job \in RecvJobs
  BY DoingFacts DEF HandlerSends, InTarget
<1> QED
  BY <1>1, NextPartKept DEF HandlerSends, recvVars

LEMMA HandlerReturnsKept ==
  ASSUME EInv, HandlerReturns
  PROVE  EngineKept
<1>1. job \in RecvJobs
  BY DoingFacts DEF HandlerReturns, InTarget
<1> QED
  BY <1>1, RecvJobDone DEF HandlerReturns, RecvStays, Signalled

LEMMA TimeoutKept ==
  ASSUME EInv, Timeout
  PROVE  EngineKept
<1>1. UNCHANGED <<queue, recv, m_receiveIdMap, m_recvThreadExit, m_recvThreadCreated, ownerVars>>
  BY DEF Timeout, recvVars
<1>2. CASE \E p \in pending : OnSendStatus(p, FALSE) /\ UNCHANGED job
  <2>1. PICK p \in pending : OnSendStatus(p, FALSE) /\ UNCHANGED job
    BY <1>2
  <2>2. acked' \subseteq Calls /\ WaitTypes' /\ \A u \in Waiters : wait'[u].pc = wait[u].pc /\ wait'[u].n = wait[u].n
    BY <2>1, StatusReaches
  <2>3. (UnderWay(RecvJobs)' => recv'.pc \in {"posted", "late"}) /\ RecvTypes' /\ QueueTypes' /\ AllShrink
    BY <1>1, <2>1, SameTypes, QueueSame, AllSame DEF RecvPosting
  <2> QED
    BY <1>1, <2>2, <2>3, ReceiverKept
<1>3. CASE job' = Nil /\ UNCHANGED <<pending, wait, acked>>
  <2>1. QueueTypes' /\ AllShrink
    BY <1>1, <1>3, SameTypes, JobDone, JobSets DEF AllShrink
  <2>2. UnderWay(RecvJobs)' => recv'.pc \in {"posted", "late"}
    BY <1>1, <2>1, SameTypes DEF AllShrink, Shrinks, RecvPosting
  <2> QED
    BY <1>1, <1>3, <2>1, <2>2, SameTypes, ReceiverKept
<1> QED
  BY <1>2, <1>3 DEF Timeout

LEMMA TimerTickKept ==
  ASSUME EInv, TimerTick
  PROVE  EngineKept
<1>1. wait' = wait /\ acked' = acked /\ recv' = recv /\ PostOrDrop(Job("timeout", Nil)) /\ job' = job
      /\ UNCHANGED <<m_receiveIdMap, m_recvThreadExit, m_recvThreadCreated, ownerVars>>
  BY DEF TimerTick, recvVars
<1>2. Job("timeout", Nil) \in OtherJobs
  BY DEF OtherJobs
<1>3. AllShrink /\ QueueTypes'
  BY <1>1, <1>2, OtherPostedOrDropped
<1>4. UnderWay(RecvJobs)' => recv'.pc \in {"posted", "late"}
  BY <1>1, <1>3, SameTypes DEF AllShrink, Shrinks, RecvPosting
<1> QED
  BY <1>1, <1>3, <1>4, SameTypes, ReceiverKept

(* A step of the owner or of the network thread for it.                    *)
LEMMA OwnerStepKept ==
  ASSUME EInv, AllShrink, QueueTypes', OwnerTypes', MapTypes', RecvTypes', wait' = wait,
         UnderWay(RecvJobs) => recv' = recv,
         UnderWay(OwnerJobs)' => owner'.pc = "marshalled",
         m_recvThreadExit => m_recvThreadExit',
         owner'.pc = "join" => owner.pc = "join" \/ m_recvThreadExit',
         stopped' => stopped \/ (m_recvThreadExit /\ ~UnderWay(RecvJobs))
  PROVE  EngineKept
<1>1. EngineTypes /\ Posting
  BY DEF EInv
<1>2. EngineTypes'
  BY SameTypes DEF EngineTypes
<1>3. \A u \in Waiters : SendPosting(u)'
  <2> SUFFICES ASSUME NEW u \in Waiters PROVE SendPosting(u)'
    OBVIOUS
  <2>1. SendPosting(u) /\ Shrinks({SendJob(u)})
    BY <1>1 DEF Posting, AllShrink
  <2> QED
    BY <2>1, SendKept DEF SendPosting, Shrinks
<1>4. UnderWay(RecvJobs)' => recv' = recv /\ recv'.pc \in {"posted", "late"}
  BY <1>1 DEF Posting, RecvPosting, AllShrink, Shrinks
<1>5. Queued(RecvJobs)' => recv' = recv
  BY <1>4 DEF UnderWay
<1>6. RecvPosting' /\ OwnerPosting'
  BY <1>4, <1>5, RecvKept, OwnerKept DEF AllShrink
<1>7. Stopping'
  BY StoppingKept DEF AllShrink
<1> QED
  BY <1>2, <1>3, <1>6, <1>7 DEF EngineKept, Posting

LEMMA GoesOn ==
  ASSUME EInv, owner.at <= Len(Script), OwnerGoesOn, stopped' \in BOOLEAN
  PROVE  OwnerTypes' /\ owner'.pc = "idle"
<1>1. Len(Script) \in Nat
  BY EngineConstants
<1>2. owner' = [pc |-> "idle", at |-> owner.at + 1]
  BY DEF OwnerGoesOn
<1>3. owner.at + 1 \in 1 .. Len(Script) + 1
  BY <1>1 DEF EInv, EngineTypes, OwnerTypes
<1> QED
  BY <1>2, <1>3 DEF OwnerTypes

LEMMA OwnerFacts ==
  ASSUME EInv
  PROVE  /\ OwnerTypes /\ MapTypes /\ RecvTypes /\ stopped \in BOOLEAN /\ OwnerPosting /\ QueueTypes
         /\ job \in OwnerJobs => owner.pc = "marshalled" /\ owner.at <= Len(Script)
         /\ owner.pc # "marshalled" => ~UnderWay(OwnerJobs)
BY DEF EInv, EngineTypes, OwnerTypes, Posting, OwnerPosting, UnderWay

(* An operation of the owner is done on the network thread.                *)
LEMMA OperationDone ==
  ASSUME EInv, job \in OwnerJobs, job' = Nil, queue' = queue, OwnerGoesOn, stopped' \in BOOLEAN
  PROVE  AllShrink /\ QueueTypes' /\ OwnerTypes' /\ owner'.pc = "idle" /\ ~UnderWay(OwnerJobs)'
<1>1. AllShrink /\ QueueTypes' /\ ~UnderWay(OwnerJobs)'
  BY OwnerFacts, JobDone, JobSets DEF AllShrink, OwnerPosting
<1> QED
  BY <1>1, OwnerFacts, GoesOn

LEMMA InitializeKept ==
  ASSUME EInv, Initialize
  PROVE  EngineKept
<1>1. Doing("initialize") /\ job' = Nil /\ queue' = queue /\ OwnerGoesOn /\ stopped' = stopped
      /\ UNCHANGED <<recv, m_recvThreadExit, m_recvThreadCreated, m_receiveIdMap, acked, wait>>
  BY DEF Initialize, OwnerDone
<1>2. job \in OwnerJobs
  BY <1>1, DoingFacts
<1>3. AllShrink /\ QueueTypes' /\ OwnerTypes' /\ owner'.pc = "idle" /\ ~UnderWay(OwnerJobs)'
  BY <1>1, <1>2, OwnerFacts, OperationDone
<1>4. MapTypes' /\ RecvTypes'
  BY <1>1, OwnerFacts DEF MapTypes, RecvTypes
<1> QED
  BY <1>1, <1>3, <1>4, OwnerStepKept

LEMMA RegisterEndpointKept ==
  ASSUME EInv, RegisterEndpoint
  PROVE  EngineKept
<1>1. Doing("register") /\ job' = Nil /\ queue' = queue /\ OwnerGoesOn /\ stopped' = stopped
      /\ UNCHANGED <<recv, m_recvThreadExit, m_recvThreadCreated, acked, wait>>
      /\ m_receiveIdMap' = [m_receiveIdMap EXCEPT ![obj[job.of].id] = job.of]
  BY DEF RegisterEndpoint, OwnerDone, recvVars
<1>2. job \in OwnerJobs /\ job.of \in Endpoints
  BY <1>1, DoingFacts
<1>3. AllShrink /\ QueueTypes' /\ OwnerTypes' /\ owner'.pc = "idle" /\ ~UnderWay(OwnerJobs)'
  BY <1>1, <1>2, OwnerFacts, OperationDone
<1>4. MapTypes' /\ RecvTypes'
  BY <1>1, <1>2, OwnerFacts DEF MapTypes, RecvTypes
<1> QED
  BY <1>1, <1>3, <1>4, OwnerStepKept

LEMMA StopKept ==
  ASSUME EInv, Stop
  PROVE  EngineKept
<1>1. Doing("stop") /\ job' = Nil /\ queue' = queue /\ OwnerGoesOn /\ stopped' = TRUE
      /\ UNCHANGED <<recv, m_recvThreadExit, m_recvThreadCreated, m_receiveIdMap, acked, wait>>
  BY DEF Stop, recvVars
<1>2. job \in OwnerJobs /\ job = Job("stop", Nil)
  BY <1>1, DoingFacts
<1>3. AllShrink /\ QueueTypes' /\ OwnerTypes' /\ owner'.pc = "idle" /\ ~UnderWay(OwnerJobs)'
  BY <1>1, <1>2, OwnerFacts, OperationDone
<1>4. MapTypes' /\ RecvTypes'
  BY <1>1, OwnerFacts DEF MapTypes, RecvTypes
<1>5. m_recvThreadExit /\ ~UnderWay(RecvJobs)
  BY <1>2 DEF EInv, Stopping, UnderWay
<1> QED
  BY <1>1, <1>3, <1>4, <1>5, OwnerStepKept

LEMMA StartKept ==
  ASSUME EInv, Start
  PROVE  EngineKept
<1>1. Doing("start") /\ job' = Nil /\ queue' = queue /\ m_recvThreadCreated' = TRUE
      /\ UNCHANGED <<m_recvThreadExit, m_receiveIdMap, acked, wait, owner, stopped>>
      /\ recv' = IF m_recvThreadCreated THEN recv ELSE [pc |-> "receive", m |-> Nil]
  BY DEF Start, ownerVars
<1>2. QueueTypes' /\ AllShrink
  BY <1>1, SameTypes, JobDone, JobSets DEF AllShrink
<1>3. OwnerTypes' /\ MapTypes' /\ RecvTypes'
  BY <1>1, OwnerFacts DEF OwnerTypes, MapTypes, RecvTypes
<1>4. UnderWay(RecvJobs) => recv' = recv
  BY <1>1, SameTypes DEF RecvPosting, RecvTypes
<1>5. UnderWay(OwnerJobs)' => owner'.pc = "marshalled"
  BY <1>1, <1>2, OwnerFacts DEF AllShrink, Shrinks
<1> QED
  BY <1>1, <1>2, <1>3, <1>4, <1>5, OwnerStepKept

(* The owner posts a job of his and waits for it.                          *)
LEMMA OwnerPosted ==
  ASSUME EInv, NEW j \in OwnerJobs, Post(j), job' = job, owner.pc # "marshalled", owner.at <= Len(Script),
         owner' = [owner EXCEPT !.pc = "marshalled"],
         UNCHANGED <<m_receiveIdMap, acked, wait, recvVars, stopped>>,
         j = Job("stop", Nil) => m_recvThreadExit /\ ~UnderWay(RecvJobs)
  PROVE  EngineKept
<1>1. EngineTypes /\ Posting /\ Stopping /\ j \in Jobs /\ QueueTypes
  BY JobFacts, SameTypes DEF EInv
<1>2. owner'.pc = "marshalled" /\ OwnerTypes'
  BY OwnerFacts DEF OwnerTypes
<1>3. EngineTypes'
  <2>1. QueueTypes'
    BY <1>1, Posted
  <2> QED
    BY <1>1, <1>2, <2>1 DEF EngineTypes, RecvTypes, WaitTypes, MapTypes, recvVars
<1>4. Shrinks(RecvJobs) /\ \A u \in Waiters : Shrinks({SendJob(u)})
  BY <1>1, Posted, DifferentJobs
<1>5. \A u \in Waiters : SendPosting(u)'
  <2> SUFFICES ASSUME NEW u \in Waiters PROVE SendPosting(u)'
    OBVIOUS
  <2>1. SendPosting(u) /\ Shrinks({SendJob(u)})
    BY <1>1, <1>4 DEF Posting
  <2> QED
    BY <2>1, SendKept DEF SendPosting, Shrinks
<1>6. RecvPosting'
  BY <1>1, <1>4, RecvKept DEF Posting, RecvPosting, Shrinks, recvVars
<1>7. OwnerPosting'
  <2>1. ~UnderWay(OwnerJobs)
    BY OwnerFacts
  <2>2. Single(OwnerJobs)'
    BY <1>1, <2>1, Posted
  <2> QED
    BY <1>2, <2>2 DEF OwnerPosting
<1>8. Stopping'
  <2>1. UnderWay({Job("stop", Nil)})' => UnderWay({Job("stop", Nil)}) \/ j = Job("stop", Nil)
    BY <1>1, Posted
  <2> QED
    BY <1>1, <1>2, <1>4, <2>1 DEF Stopping, Shrinks, recvVars
<1> QED
  BY <1>3, <1>5, <1>6, <1>7, <1>8 DEF EngineKept, Posting

(* The queue is full, and nothing is done at all.                          *)
LEMMA OwnerPasses ==
  ASSUME EInv, owner.pc # "marshalled", owner.at <= Len(Script), OwnerGoesOn, UNCHANGED <<queue, job>>,
         UNCHANGED <<m_receiveIdMap, acked, wait, recvVars>>,
         stopped' \in BOOLEAN, stopped' => stopped \/ (m_recvThreadExit /\ ~UnderWay(RecvJobs))
  PROVE  EngineKept
<1>1. OwnerTypes' /\ owner'.pc = "idle"
  BY GoesOn
<1>2. AllShrink /\ QueueTypes'
  BY AllSame, SameTypes
<1>3. ~UnderWay(OwnerJobs)'
  BY OwnerFacts, QueueSame
<1>4. MapTypes' /\ RecvTypes'
  BY OwnerFacts DEF MapTypes, RecvTypes, recvVars
<1> QED
  BY <1>1, <1>2, <1>3, <1>4, OwnerStepKept DEF recvVars

LEMMA MarshalKept ==
  ASSUME EInv, NEW op, NEW j \in OwnerJobs, j # Job("stop", Nil), Marshal(op, j)
  PROVE  EngineKept
<1>1. owner.pc = "idle" /\ owner.at <= Len(Script) /\ job' = job
      /\ UNCHANGED <<m_receiveIdMap, acked, wait, recvVars, stopped>>
  BY DEF Marshal, OwnerAt, OwnerDone
<1>2. CASE Full
  BY <1>1, <1>2, OwnerFacts, OwnerPasses DEF Marshal, OwnerDone
<1>3. CASE ~Full
  BY <1>1, <1>3, OwnerPosted DEF Marshal
<1> QED
  BY <1>2, <1>3

LEMMA Registers ==
  ASSUME EInv, RegisterEndpointCall
  PROVE  Script[owner.at][2] \in Endpoints
<1>1. owner.at \in 1 .. Len(Script) /\ Script[owner.at][1] = "register"
  BY OwnerFacts DEF OwnerTypes, RegisterEndpointCall, OwnerAt
<1>2. Script[owner.at] \in Operations
  BY <1>1, EngineConstants
<1>3. PICK op \in Operations : op = Script[owner.at] /\ op[1] = "register"
  BY <1>1, <1>2
<1>4. op \notin {<<"initialize">>, <<"start">>, <<"stop">>}
  BY <1>3
<1> QED
  BY <1>3, <1>4 DEF Operations

LEMMA OwnerKeepsAll ==
  ASSUME EInv, Owner
  PROVE  EngineKept
<1>1. CASE InitializeCall
  <2>1. Job("initialize", Nil) \in OwnerJobs /\ Job("initialize", Nil) # Job("stop", Nil)
    BY JobFacts DEF Job
  <2> QED
    BY <1>1, <2>1, MarshalKept DEF InitializeCall
<1>2. CASE RegisterEndpointCall
  <2>1. PICK s \in Endpoints : s = Script[owner.at][2]
    BY <1>2, Registers
  <2>2. Job("register", s) \in OwnerJobs /\ Job("register", s) # Job("stop", Nil)
    BY JobFacts DEF Job
  <2> QED
    BY <1>2, <2>1, <2>2, MarshalKept DEF RegisterEndpointCall
<1>3. CASE StartCall
  <2>1. owner.pc = "idle" /\ owner.at <= Len(Script) /\ PostOrDrop(Job("start", Nil)) /\ OwnerGoesOn
        /\ UNCHANGED <<job, m_receiveIdMap, acked, wait, recvVars, stopped>>
    BY <1>3 DEF StartCall, OwnerAt, OwnerDone
  <2>2. Job("start", Nil) \in OtherJobs
    BY DEF OtherJobs
  <2>3. AllShrink /\ QueueTypes'
    BY <2>1, <2>2, OtherPostedOrDropped
  <2>4. OwnerTypes' /\ ~UnderWay(OwnerJobs)'
    BY <2>1, <2>3, OwnerFacts, GoesOn DEF AllShrink, Shrinks
  <2>5. MapTypes' /\ RecvTypes' /\ owner'.pc = "idle"
    BY <2>1, OwnerFacts, GoesOn DEF MapTypes, RecvTypes, recvVars
  <2> QED
    BY <2>1, <2>3, <2>4, <2>5, OwnerStepKept DEF recvVars
<1>4. CASE StopSignals
  <2>1. owner.pc = "idle" /\ owner.at <= Len(Script) /\ m_recvThreadExit' = TRUE
        /\ owner' = [owner EXCEPT !.pc = "join"]
        /\ UNCHANGED <<queue, job, recv, m_recvThreadCreated, m_receiveIdMap, acked, wait, stopped>>
    BY <1>4 DEF StopSignals, OwnerAt
  <2>2. AllShrink /\ QueueTypes'
    BY <2>1, AllSame, SameTypes
  <2>3. OwnerTypes' /\ MapTypes' /\ RecvTypes'
    BY <2>1, OwnerFacts DEF OwnerTypes, MapTypes, RecvTypes
  <2>4. ~UnderWay(OwnerJobs)'
    BY <2>1, OwnerFacts, QueueSame
  <2> QED
    BY <2>1, <2>2, <2>3, <2>4, OwnerStepKept
<1>5. CASE StopJoins
  <2>1. owner.pc = "join" /\ owner.at <= Len(Script) /\ recv.pc \in {"none", "gone"}
        /\ UNCHANGED <<job, m_receiveIdMap, acked, wait, recvVars>>
    BY <1>5 DEF StopJoins, OwnerAt, RecvThreadJoined
  <2>2. m_recvThreadExit /\ ~UnderWay(RecvJobs)
    BY <2>1, SameTypes DEF EInv, Stopping, RecvPosting
  <2>3. CASE Full
    BY <1>5, <2>1, <2>2, <2>3, OwnerPasses DEF StopJoins
  <2>4. CASE ~Full
    <3>1. Post(Job("stop", Nil)) /\ owner' = [owner EXCEPT !.pc = "marshalled"] /\ UNCHANGED stopped
      BY <1>5, <2>4 DEF StopJoins
    <3> QED
      BY <2>1, <2>2, <3>1, JobFacts, OwnerPosted
  <2> QED
    BY <2>3, <2>4
<1> QED
  BY <1>1, <1>2, <1>3, <1>4, <1>5 DEF Owner

LEMMA QuietKept ==
  ASSUME EInv, UNCHANGED engineVars
  PROVE  EngineKept
<1>1. UNCHANGED <<queue, job, wait, acked, recv, m_receiveIdMap, m_recvThreadExit, m_recvThreadCreated, ownerVars>>
  BY DEF engineVars, recvVars
<1>2. AllShrink
  BY <1>1, AllSame
<1>3. UnderWay(RecvJobs)' => recv'.pc \in {"posted", "late"}
  BY <1>1, <1>2, SameTypes DEF AllShrink, Shrinks, RecvPosting
<1> QED
  BY <1>1, <1>2, <1>3, SameTypes, ReceiverKept

LEMMA EngineStepKept ==
  ASSUME EInv, [Next]_vars
  PROVE  EngineTypes' /\ Posting' /\ Stopping'
<1>1. EngineKept
  <2>1. CASE \E u \in Waiters : RemoteInvokeWait(u) \/ SendTimeout(u) \/ WaitReturns(u)
    BY <2>1, RemoteInvokeWaitKept, SendTimeoutKept, WaitReturnsKept
  <2>2. CASE \E u \in Users : CallDirectly(u) \/ CallProceeds(u)
    BY <2>2, QuietKept DEF CallDirectly, CallProceeds
  <2>3. CASE \E m \in air : ReceiveData(m)
    BY <2>3, ReceiveDataKept
  <2>4. CASE \E a \in acks : ReceiveAck(a)
    BY <2>4, ReceiveAckKept
  <2>5. CASE RecvThread
    BY <2>5, RecvPostKept, RecvTimeoutKept, RecvLeavesKept DEF RecvThread
  <2>6. CASE NetThread
    <3>1. CASE Take \/ Incoming \/ HandlerReturns \/ Timeout
      BY <3>1, TakeKept, IncomingKept, HandlerReturnsKept, TimeoutKept
    <3>2. CASE Initialize \/ RegisterEndpoint \/ Start \/ Stop
      BY <3>2, InitializeKept, RegisterEndpointKept, StartKept, StopKept
    <3>3. CASE CallProceeds(Net)
      BY <3>3, QuietKept DEF CallProceeds
    <3>4. CASE \E u \in Waiters : SendBegins(u) \/ SendEnds(u)
      BY <3>4, SendBeginsKept, SendEndsKept
    <3> QED
      BY <2>6, <3>1, <3>2, <3>3, <3>4 DEF NetThread
  <2>7. CASE HandlerSends \/ TimerTick \/ Owner
    BY <2>7, TimerTickKept, OwnerKeepsAll, HandlerSendsKept
  <2>8. CASE Rest \/ UNCHANGED vars
    BY <2>8, QuietKept DEF Rest, vars
  <2> QED
    BY <2>1, <2>2, <2>3, <2>4, <2>5, <2>6, <2>7, <2>8 DEF Next
<1> QED
  BY <1>1 DEF EngineKept

-----------------------------------------------------------------------------
(* RemoteInvokeWait() and its call.                                        *)

LEMMA WaitingFacts ==
  ASSUME EInv, NEW u \in Waiters
  PROVE  /\ CallOf(u) /\ NetCall /\ calls \in Nat /\ wait[u].n \in Nat /\ NoCall.n = 0
         /\ (\A t \in Threads : call[t].n \in Nat /\ call[t].n <= calls)
<1>1. wait[u].n \in Nat /\ CallOf(u) /\ NetCall /\ calls \in Nat
  BY WaiterTypes, RemoteConstants DEF EInv, Waiting, WaitStates, CallTypes, PlaceTypes
<1>2. \A t \in Threads : call[t].n \in Nat /\ call[t].n <= calls
  BY <1>1, NoCallFacts DEF EInv, Calling
<1> QED
  BY <1>1, <1>2, NoCallFacts

LEMMA NetIsThread == Net \in Threads
BY EngineConstants

(* Only the job changes.                                                   *)
LEMMA WaitingByJob ==
  ASSUME EInv, UNCHANGED <<call, calls, wait>>,
         job' = job \/ ((\A u \in Waiters : job # SendJob(u)) /\ call[Net].pc = "idle")
  PROVE  Waiting'
<1>1. \A u \in Waiters : CallOf(u)'
  <2> SUFFICES ASSUME NEW u \in Waiters PROVE CallOf(u)'
    OBVIOUS
  <2>1. CallOf(u)
    BY WaitingFacts
  <2> QED
    BY <2>1 DEF CallOf
<1>2. NetCall
  BY DEF EInv, Waiting
<1>3. NetCall'
  BY <1>2 DEF NetCall
<1> QED
  BY <1>1, <1>3 DEF Waiting

(* While the network thread does anything but a handler and a send it does *)
(* not call.                                                               *)
LEMMA NetIdle ==
  ASSUME EInv, job = Nil \/ Doing("in") \/ job \in OwnerJobs \/ job \in OtherJobs
  PROVE  (\A u \in Waiters : job # SendJob(u)) /\ call[Net].pc = "idle"
<1>1. \A u \in Waiters : job # SendJob(u)
  BY DoingFacts, DifferentJobs, JobFacts
<1>2. ~(job \in RecvJobs /\ job.kind \in {"handler", "reply"})
  BY DifferentJobs, JobFacts DEF Doing
<1> QED
  BY <1>1, <1>2 DEF EInv, Waiting, NetCall

(* A status comes.                                                         *)
LEMMA WaitingByStatus ==
  ASSUME EInv, NEW p \in pending, NEW b \in BOOLEAN, OnSendStatus(p, b), UNCHANGED <<call, calls, job>>
  PROVE  Waiting'
<1>1. wait' = [u \in Waiters |-> IF wait[u].pc # "idle" /\ p.id = IdOf[WaitChan]
                                 THEN StatusCb(wait[u], p.seq, b) ELSE wait[u]]
  BY DEF OnSendStatus
<1>2. p.seq \in 0 .. NumMod - 1
  BY DEF EInv, CallTypes, SentTypes
<1>3. PICK r \in Status : r.seq = p.seq /\ r.success = b
  <2>1. [seq |-> p.seq, success |-> b] \in Status
    BY <1>2 DEF Status
  <2> QED
    BY <2>1
<1>4. \A u \in Waiters : CallOf(u)' /\ wait'[u].n = wait[u].n
  <2> SUFFICES ASSUME NEW u \in Waiters PROVE CallOf(u)' /\ wait'[u].n = wait[u].n
    OBVIOUS
  <2>1. CallOf(u) /\ wait[u] \in WaitStates /\ Len(wait[u].early) <= EarlyMax
    BY WaitingFacts, WaiterTypes
  <2>2. CASE wait'[u] = wait[u]
    BY <2>1, <2>2 DEF CallOf
  <2>3. CASE wait[u].pc # "idle" /\ wait'[u] = StatusCb(wait[u], r.seq, r.success)
    <3>1. wait'[u].pc = wait[u].pc /\ wait'[u].n = wait[u].n /\ wait'[u].seqSet = wait[u].seqSet
          /\ (~wait[u].seqSet => wait'[u].complete = wait[u].complete /\ wait'[u].success = wait[u].success)
          /\ (wait[u].seqSet => wait'[u].complete \/ wait'[u] = wait[u])
      BY <2>1, <2>3, StatusFacts
    <3> QED
      BY <2>1, <2>3, <3>1 DEF CallOf
  <2> QED
    BY <1>1, <1>3, <2>2, <2>3
<1>5. NetCall
  BY DEF EInv, Waiting
<1>6. NetCall'
  BY <1>4, <1>5 DEF NetCall
<1> QED
  BY <1>4, <1>6 DEF Waiting

(* Where the threads are when one of them goes on in operator(), or begins *)
(* it.                                                                     *)
LEMMA CallStepPlaces ==
  ASSUME EInv, NEW t \in Threads, CallStep(t)
  PROVE  /\ calls' = calls /\ call[t].pc # "idle"
         /\ \A x \in Threads :
              \/ call'[x] = call[x]
              \/ x = t /\ (call'[x] = NoCall \/ (call'[x].n = call[x].n /\ call'[x].via = call[x].via))
<1>1. call \in [Threads -> CallType]
  BY DEF EInv, CallTypes, PlaceTypes
<1>2. calls' = calls /\ call[t].pc # "idle"
      /\ ((\E next \in {"write 2", "dispatch"} : call' = [call EXCEPT ![t].pc = next])
           \/ call' = [call EXCEPT ![t] = NoCall])
  BY CallSteps DEF Serialize, Finish, LeaveCall
<1>3. CASE call' = [call EXCEPT ![t] = NoCall]
  BY <1>1, <1>2, <1>3
<1>4. CASE \E next \in {"write 2", "dispatch"} : call' = [call EXCEPT ![t].pc = next]
  <2>1. PICK next \in {"write 2", "dispatch"} : call' = [call EXCEPT ![t].pc = next]
    BY <1>4
  <2>2. PICK k : k = [call[t] EXCEPT !.pc = next]
    OBVIOUS
  <2>3. call' = [call EXCEPT ![t] = k]
    BY <2>1, <2>2
  <2>4. call[t] \in CallType
    BY <1>1
  <2>5. k.n = call[t].n /\ k.via = call[t].via
    BY <2>2, <2>4 DEF CallType
  <2> QED
    BY <1>1, <1>2, <2>3, <2>5
<1> QED
  BY <1>2, <1>3, <1>4

LEMMA BeginPlaces ==
  ASSUME EInv, NEW t \in Threads, NEW s, Begin(t, s)
  PROVE  /\ calls' = calls + 1 /\ call[t].pc = "idle"
         /\ \A x \in Threads :
              \/ call'[x] = call[x]
              \/ x = t /\ call'[x].pc = "write" /\ call'[x].via = s /\ call'[x].n = calls + 1
<1>1. call \in [Threads -> CallType]
  BY DEF EInv, CallTypes, PlaceTypes
<1>2. PICK k : k = [pc |-> "write", via |-> s, n |-> calls + 1]
  OBVIOUS
<1>3. k.pc = "write" /\ k.via = s /\ k.n = calls + 1
  BY <1>2
<1>4. calls' = calls + 1 /\ call[t].pc = "idle" /\ (call' = call \/ call' = [call EXCEPT ![t] = k])
  BY <1>2 DEF Begin
<1> QED
  BY <1>1, <1>3, <1>4

LEMMA WaitingByCall ==
  ASSUME EInv, NEW t \in Threads, CallStep(t), UNCHANGED <<wait, job>>
  PROVE  Waiting'
<1>1. calls' = calls /\ \A x \in Threads : call'[x] = NoCall \/ call'[x].n = call[x].n
  BY CallStepPlaces
<1>2. \A u \in Waiters : CallOf(u)'
  <2> SUFFICES ASSUME NEW u \in Waiters PROVE CallOf(u)'
    OBVIOUS
  <2>1. CallOf(u) /\ NoCall.n = 0
    BY WaitingFacts
  <2> QED
    BY <1>1, <2>1 DEF CallOf
<1>3. NetCall'
  <2>1. NetCall
    BY DEF EInv, Waiting
  <2>2. call'[Net] = NoCall \/ (call'[Net].n = call[Net].n /\ call[Net].pc # "idle") \/ call'[Net] = call[Net]
    BY CallStepPlaces, NetIsThread
  <2> QED
    BY <2>1, <2>2, NoCallFacts DEF NetCall
<1> QED
  BY <1>2, <1>3 DEF Waiting

(* Another call begins than that of RemoteInvokeWait().                    *)
LEMMA WaitingByBegin ==
  ASSUME EInv, NEW t \in Threads, NEW s, Begin(t, s), UNCHANGED wait, UNCHANGED job \/ t = Net,
         t = Net => /\ job \in RecvJobs /\ \A u \in Waiters : job # SendJob(u) /\ job' # SendJob(u)
                    /\ job' \in RecvJobs /\ job'.kind \in {"handler", "reply"}
  PROVE  Waiting'
<1>1. calls' = calls + 1 /\ \A x \in Threads : call'[x] = call[x] \/ (x = t /\ call'[x].n = calls + 1)
  BY BeginPlaces
<1>2. \A u \in Waiters : CallOf(u)'
  <2> SUFFICES ASSUME NEW u \in Waiters PROVE CallOf(u)'
    OBVIOUS
  <2>1. CallOf(u) /\ calls \in Nat /\ wait[u].n \in Nat
    BY WaitingFacts
  <2>2. wait[u].n <= calls' /\ wait[u].n # calls + 1
    BY <1>1, <2>1 DEF CallOf
  <2> QED
    BY <1>1, <2>1, <2>2 DEF CallOf
<1>3. NetCall'
  <2>1. NetCall
    BY DEF EInv, Waiting
  <2> QED
    BY <1>1, <2>1, NetIsThread DEF NetCall
<1> QED
  BY <1>2, <1>3 DEF Waiting

(* A step of one who waits, when he has not called.                        *)
LEMMA WaitingByWaiter ==
  ASSUME EInv, NEW u \in Waiters, NEW k \in WaitStates, wait' = [wait EXCEPT ![u] = k],
         k = NoWait \/ k.pc # "idle", k.n \in {0, wait[u].n},
         k.success => k.complete, k.complete => k.seqSet,
         k.seqSet => k.n # 0 /\ k.pc \in {"wait", "return"},
         k.n # 0 /\ ~k.seqSet => job' = SendJob(u),
         UNCHANGED <<call, calls>>,
         job' = job \/ (job = SendJob(u) /\ call[Net].pc = "idle"),
         job' = SendJob(u) => k.n = wait[u].n
  PROVE  Waiting'
<1>1. \A v \in Waiters : wait'[v] = IF v = u THEN k ELSE wait[v]
  BY DEF EInv, EngineTypes, WaitTypes
<1>2. \A v \in Waiters : CallOf(v)'
  <2> SUFFICES ASSUME NEW v \in Waiters PROVE CallOf(v)'
    OBVIOUS
  <2>1. CallOf(v) /\ calls \in Nat /\ wait[v].n \in Nat
    BY WaitingFacts
  <2>2. CASE v # u
    <3>1. wait'[v] = wait[v] /\ SendJob(v) # SendJob(u)
      BY <1>1, <2>2, JobKinds
    <3>2. job = SendJob(v) => job' = job
      BY <3>1
    <3> QED
      BY <2>1, <3>1, <3>2 DEF CallOf
  <2>3. CASE v = u
    <3>1. wait'[v] = k
      BY <1>1, <2>3
    <3>2. \A t \in Threads : call[t].n = k.n /\ k.n # 0 => t = Net /\ job' = SendJob(u)
      <4> SUFFICES ASSUME NEW t \in Threads, call[t].n = k.n, k.n # 0 PROVE t = Net /\ job' = SendJob(u)
        OBVIOUS
      <4>1. t = Net /\ job = SendJob(u)
        BY <2>1, <2>3 DEF CallOf
      <4>2. call[Net].pc # "idle"
        BY <4>1, NoCallFacts DEF EInv, Calling
      <4> QED
        BY <4>1, <4>2
    <3> QED
      BY <2>1, <2>3, <3>1, <3>2, NoWaitFacts DEF CallOf
  <2> QED
    BY <2>2, <2>3
<1>3. NetCall
  BY DEF EInv, Waiting
<1>4. NetCall'
  <2> SUFFICES ASSUME call[Net].pc # "idle"
               PROVE  \/ job' \in RecvJobs /\ job'.kind \in {"handler", "reply"}
                      \/ \E v \in Waiters : job' = SendJob(v) /\ wait'[v].n = call[Net].n
    BY DEF NetCall
  <2>1. job' = job
    OBVIOUS
  <2>2. CASE job \in RecvJobs /\ job.kind \in {"handler", "reply"}
    BY <2>1, <2>2
  <2>3. CASE \E v \in Waiters : job = SendJob(v) /\ wait[v].n = call[Net].n
    <3>1. PICK v \in Waiters : job = SendJob(v) /\ wait[v].n = call[Net].n
      BY <2>3
    <3>2. wait'[v].n = wait[v].n
      BY <1>1, <2>1, <3>1
    <3> QED
      BY <2>1, <3>1, <3>2
  <2> QED
    BY <1>3, <2>2, <2>3 DEF NetCall
<1> QED
  BY <1>2, <1>4 DEF Waiting

LEMMA WaitingByCaller ==
  ASSUME EInv, NEW u \in Waiters, RemoteInvokeWait(u) \/ SendTimeout(u) \/ WaitReturns(u)
  PROVE  Waiting'
<1>1. CallOf(u) /\ wait[u] \in WaitStates /\ SendPosting(u) /\ UNCHANGED <<call, calls, job>>
  BY WaitingFacts, WaiterTypes DEF RemoteInvokeWait, SendTimeout, WaitReturns, remoteVars
<1>2. CASE RemoteInvokeWait(u)
  <2>1. PICK k : k = [NoWait EXCEPT !.pc = "posted"]
    OBVIOUS
  <2>2. k \in WaitStates /\ k.pc = "posted" /\ k.n = 0 /\ ~k.seqSet /\ ~k.complete /\ ~k.success
    BY <2>1, NoWaitFacts, Placed
  <2>3. wait' = [wait EXCEPT ![u] = k] /\ wait[u].pc = "idle"
    BY <1>2, <2>1 DEF RemoteInvokeWait
  <2>4. job # SendJob(u)
    BY <1>1, <2>3 DEF SendPosting, UnderWay
  <2> QED
    BY <1>1, <2>2, <2>3, <2>4, WaitingByWaiter
<1>3. CASE SendTimeout(u)
  <2>1. wait[u].pc = "posted" /\ ~wait[u].seqSet /\ ~wait[u].complete /\ ~wait[u].success
    BY <1>1, <1>3 DEF SendTimeout, CallOf
  <2>2. PICK pc \in {"late", "return"} : wait' = [wait EXCEPT ![u].pc = pc]
    BY <1>3 DEF SendTimeout
  <2>3. PICK k : k = [wait[u] EXCEPT !.pc = pc]
    OBVIOUS
  <2>4. k \in WaitStates /\ k.pc = pc /\ k.n = wait[u].n /\ ~k.seqSet /\ ~k.complete /\ ~k.success
    BY <1>1, <2>1, <2>2, <2>3, Placed
  <2>5. wait' = [wait EXCEPT ![u] = k]
    BY <2>2, <2>3
  <2>6. k.n # 0 => job = SendJob(u)
    BY <1>1, <2>1, <2>4 DEF CallOf
  <2> QED
    BY <1>1, <2>2, <2>4, <2>5, <2>6, WaitingByWaiter
<1>4. CASE WaitReturns(u)
  <2>1. wait[u].pc \in {"wait", "return"} /\ wait' = [wait EXCEPT ![u] = NoWait]
    BY <1>4 DEF WaitReturns
  <2>2. job # SendJob(u)
    BY <1>1, <2>1 DEF SendPosting, UnderWay
  <2> QED
    BY <1>1, <2>1, <2>2, NoWaitFacts, WaitingByWaiter
<1> QED
  BY <1>2, <1>3, <1>4

LEMMA WaitingBySendEnds ==
  ASSUME EInv, NEW u \in Waiters, SendEnds(u)
  PROVE  Waiting'
<1>1. CallOf(u) /\ wait[u] \in WaitStates
  BY WaitingFacts, WaiterTypes
<1>2. job = SendJob(u) /\ wait[u].n # 0 /\ call[Net].pc = "idle" /\ job' = Nil /\ UNCHANGED <<call, calls>>
  BY DEF SendEnds, SendJob
<1>3. PICK w \in WaitStates, x \in WaitStates, k \in WaitStates : SendEnded(u, w, x, k)
  BY SendEndsFacts
<1>4. x.n = w.n /\ x.seqSet = w.seqSet /\ (x = w \/ x.complete)
  BY <1>3, ReconcileFacts DEF SendEnded
<1>5. k.n = wait[u].n /\ k.seqSet = TRUE /\ k.pc \in {"wait", "return"} /\ (k.success => k.complete)
      /\ wait' = [wait EXCEPT ![u] = k]
  BY <1>1, <1>3, <1>4 DEF SendEnded, CallOf
<1>6. job' # SendJob(u)
  BY <1>2, JobFacts
<1> QED
  BY <1>2, <1>5, <1>6, WaitingByWaiter

LEMMA WaitingBySendBegins ==
  ASSUME EInv, NEW u \in Waiters, SendBegins(u)
  PROVE  Waiting'
<1>1. CallOf(u) /\ wait[u] \in WaitStates /\ calls \in Nat /\ SendPosting(u)
  BY WaitingFacts, WaiterTypes
<1>2. job = SendJob(u) /\ wait[u].n = 0 /\ Begin(Net, WaitChan) /\ UNCHANGED job
  BY DEF SendBegins, SendJob
<1>3. calls' = calls + 1 /\ call[Net].pc = "idle"
      /\ \A x \in Threads : call'[x] = call[x] \/ (x = Net /\ call'[x].n = calls + 1)
  BY <1>2, BeginPlaces, NetIsThread
<1>4. PICK k : k = [wait[u] EXCEPT !.n = calls + 1]
  OBVIOUS
<1>5. k.n = calls + 1 /\ k.pc = wait[u].pc /\ k.seqSet = wait[u].seqSet /\ k.complete = wait[u].complete
      /\ k.success = wait[u].success
  BY <1>1, <1>4 DEF WaitStates
<1>6. wait' = [wait EXCEPT ![u] = k]
  BY <1>4 DEF SendBegins
<1>7. \A v \in Waiters : wait'[v] = IF v = u THEN k ELSE wait[v]
  BY <1>6 DEF EInv, EngineTypes, WaitTypes
<1>8. wait[u].pc # "idle"
  BY <1>1, <1>2 DEF SendPosting, UnderWay
<1>9. \A v \in Waiters : CallOf(v)'
  <2> SUFFICES ASSUME NEW v \in Waiters PROVE CallOf(v)'
    OBVIOUS
  <2>1. CallOf(v) /\ wait[v].n \in Nat /\ \A t \in Threads : call[t].n \in Nat /\ call[t].n <= calls
    BY WaitingFacts
  <2>2. CASE v # u
    <3>1. wait'[v] = wait[v] /\ wait[v].n # calls + 1 /\ wait[v].n <= calls'
      BY <1>1, <1>3, <1>7, <2>1, <2>2 DEF CallOf
    <3> QED
      BY <1>2, <1>3, <2>1, <3>1 DEF CallOf
  <2>3. CASE v = u
    <3>1. wait'[v] = k /\ k.n # 0 /\ k.n <= calls' /\ \A t \in Threads : call[t].n # k.n
      BY <1>1, <1>3, <1>5, <1>7, <2>1, <2>3
    <3>2. \A t \in Threads : call'[t].n = k.n => t = Net
      BY <1>3, <3>1
    <3>3. ~k.seqSet /\ ~k.complete /\ ~k.success
      BY <1>1, <1>2, <1>5 DEF CallOf
    <3> QED
      BY <1>2, <1>5, <1>8, <2>3, <3>1, <3>2, <3>3 DEF CallOf
  <2> QED
    BY <2>2, <2>3
<1>10. NetCall'
  <2>1. call'[Net] = call[Net] \/ call'[Net].n = calls + 1
    BY <1>3, NetIsThread
  <2> QED
    BY <1>2, <1>3, <1>5, <1>7, <2>1 DEF NetCall
<1> QED
  BY <1>9, <1>10 DEF Waiting

LEMMA WaitingKept ==
  ASSUME EInv, [Next]_vars
  PROVE  Waiting'
<1>1. CASE \E u \in Waiters : RemoteInvokeWait(u) \/ SendTimeout(u) \/ WaitReturns(u)
  BY <1>1, WaitingByCaller
<1>2. CASE \E u \in Users : CallDirectly(u)
  BY <1>2, WaitingByBegin DEF CallDirectly, engineVars, Users
<1>3. CASE \E t \in Threads : CallProceeds(t)
  BY <1>3, WaitingByCall DEF CallProceeds, engineVars
<1>4. CASE \E m \in air : ReceiveData(m)
  BY <1>4, WaitingByJob DEF ReceiveData
<1>5. CASE \E a \in acks : ReceiveAck(a)
  <2>1. PICK a \in acks : ReceiveAck(a)
    BY <1>5
  <2>2. UNCHANGED <<call, calls, job>>
    BY <2>1 DEF ReceiveAck
  <2>3. CASE \E p \in pending : p.seq = a.seq /\ p.id = a.id
    <3>1. PICK p \in pending : p = CHOOSE q \in pending : q.seq = a.seq /\ q.id = a.id
      BY <2>3
    <3>2. OnSendStatus(p, TRUE)
      BY <2>1, <2>3, <3>1 DEF ReceiveAck
    <3> QED
      BY <2>2, <3>2, WaitingByStatus
  <2>4. CASE ~\E p \in pending : p.seq = a.seq /\ p.id = a.id
    BY <2>1, <2>2, <2>4, WaitingByJob DEF ReceiveAck
  <2> QED
    BY <2>3, <2>4
<1>6. CASE RecvThread
  BY <1>6, WaitingByJob DEF RecvThread, RecvPost, RecvTimeout, RecvLeaves, remoteVars
<1>7. CASE Take \/ Incoming
  <2>1. (\A u \in Waiters : job # SendJob(u)) /\ call[Net].pc = "idle" /\ UNCHANGED <<call, calls, wait>>
    BY <1>7, NetIdle, IncomingSteps DEF Take, Incoming, remoteVars
  <2> QED
    BY <2>1, WaitingByJob
<1>8. CASE HandlerReturns
  <2>1. job \in RecvJobs /\ call[Net].pc = "idle" /\ UNCHANGED <<call, calls, wait>>
    BY <1>8, DoingFacts DEF HandlerReturns, InTarget
  <2> QED
    BY <2>1, DifferentJobs, WaitingByJob
<1>9. CASE Timeout
  <2>1. (\A u \in Waiters : job # SendJob(u)) /\ call[Net].pc = "idle" /\ UNCHANGED <<call, calls>>
    BY <1>9, DoingFacts, NetIdle DEF Timeout
  <2>2. CASE \E p \in pending : OnSendStatus(p, FALSE) /\ UNCHANGED job
    BY <2>1, <2>2, WaitingByStatus
  <2>3. CASE job' = Nil /\ UNCHANGED <<pending, wait, acked>>
    BY <2>1, <2>3, WaitingByJob
  <2> QED
    BY <1>9, <2>2, <2>3 DEF Timeout
<1>10. CASE Initialize \/ RegisterEndpoint \/ Start \/ Stop
  <2>1. (\A u \in Waiters : job # SendJob(u)) /\ call[Net].pc = "idle"
    BY <1>10, DoingFacts, NetIdle DEF Initialize, RegisterEndpoint, Start, Stop
  <2>2. UNCHANGED <<call, calls, wait>>
    BY <1>10 DEF Initialize, RegisterEndpoint, Start, Stop, remoteVars
  <2> QED
    BY <2>1, <2>2, WaitingByJob
<1>11. CASE \E u \in Waiters : SendBegins(u) \/ SendEnds(u)
  BY <1>11, WaitingBySendBegins, WaitingBySendEnds
<1>12. CASE HandlerSends
  <2>1. job \in RecvJobs /\ Begin(Net, WaitChan) /\ job' = Job("reply", job.of) /\ UNCHANGED wait
    BY <1>12, DoingFacts DEF HandlerSends, InTarget
  <2>2. job' \in RecvJobs /\ job'.kind = "reply"
    BY <2>1, JobFacts, JobKinds DEF Job
  <2> QED
    BY <2>1, <2>2, NetIsThread, DifferentJobs, WaitingByBegin
<1>13. CASE TimerTick \/ Owner \/ Rest \/ UNCHANGED vars
  <2>1. UNCHANGED <<call, calls, wait, job>>
    BY <1>13 DEF TimerTick, Owner, InitializeCall, RegisterEndpointCall, StartCall, StopSignals, StopJoins,
                 Marshal, Rest, vars, remoteVars, engineVars
  <2> QED
    BY <2>1, WaitingByJob
<1>14. CASE NetThread
  BY <1>3, <1>7, <1>8, <1>9, <1>10, <1>11, <1>14, NetIsThread DEF NetThread
<1> QED
  BY <1>1, <1>2, <1>3, <1>4, <1>5, <1>6, <1>12, <1>13, <1>14 DEF Next, Users

(* The invariant of the engine.                                            *)
THEOREM EngineInvariant == Spec => []EInv
<1>1. Init => EInv
  BY InitCalls, InitEngine DEF EInv
<1>2. EInv /\ [Next]_vars => EInv'
  BY CallsKept, EngineStepKept, WaitingKept DEF EInv
<1> QED
  BY <1>1, <1>2, PTL DEF Spec

-----------------------------------------------------------------------------
(* Targets are called by the network thread only.                          *)
LEMMA OnlyIncoming ==
  ASSUME [Next]_vars
  PROVE  Incoming \/ invoked' = invoked
<1>2. CASE \E t \in Threads : CallProceeds(t)
  <2>1. PICK t \in Threads : CallStep(t)
    BY <1>2 DEF CallProceeds
  <2> QED
    BY <2>1, CallSteps DEF Serialize, Finish
<1>3. CASE \E t \in Threads : \E s : Begin(t, s)
  BY <1>3 DEF Begin
<1>4. CASE RecvThread \/ TimerTick \/ Owner \/ Rest \/ UNCHANGED vars
  BY <1>4 DEF RecvThread, RecvPost, RecvTimeout, RecvLeaves, TimerTick, Owner, InitializeCall,
              RegisterEndpointCall, StartCall, StopSignals, StopJoins, Marshal, Rest, vars, remoteVars
<1>5. CASE Take \/ HandlerReturns \/ Timeout \/ Initialize \/ RegisterEndpoint \/ Start \/ Stop
  BY <1>5 DEF Take, HandlerReturns, Timeout, Initialize, RegisterEndpoint, Start, Stop, remoteVars
<1>6. CASE \E u \in Waiters : RemoteInvokeWait(u) \/ SendTimeout(u) \/ WaitReturns(u) \/ SendEnds(u)
  BY <1>6 DEF RemoteInvokeWait, SendTimeout, WaitReturns, SendEnds, remoteVars
<1>7. CASE (\E u \in Users : CallDirectly(u)) \/ HandlerSends \/ (\E u \in Waiters : SendBegins(u))
  BY <1>3, <1>7, NetIsThread DEF CallDirectly, HandlerSends, SendBegins, Users
<1>8. CASE (\E m \in air : ReceiveData(m)) \/ (\E a \in acks : ReceiveAck(a))
  BY <1>8 DEF ReceiveData, ReceiveAck
<1> QED
  BY <1>2, <1>4, <1>5, <1>6, <1>7, <1>8, NetIsThread DEF Next, NetThread, Users

(* Once Stop() has returned no target is called, whatever was in the       *)
(* queue, in the receive thread's hands or on its way, for every script of *)
(* the owner: with Stop() the receive thread is joined, and what it had    *)
(* marshalled was done before (NetworkEngine.cpp, Stop).                   *)
THEOREM NothingRunsAfterStop == Spec => NothingAfterStop
<1>1. EInv /\ [Next]_vars => (stopped => invoked' = invoked)
  <2> SUFFICES ASSUME EInv, [Next]_vars, stopped PROVE invoked' = invoked
    OBVIOUS
  <2>1. ~Incoming
    <3> SUFFICES ASSUME Incoming PROVE FALSE
      OBVIOUS
    <3>1. job \in RecvJobs
      BY DoingFacts DEF Incoming
    <3> QED
      BY <3>1 DEF EInv, Stopping, UnderWay
  <2> QED
    BY <2>1, OnlyIncoming
<1>2. EInv /\ [Next]_vars => [stopped => invoked' = invoked]_vars
  BY <1>1
<1> QED
  BY <1>2, EngineInvariant, PTL DEF Spec, NothingAfterStop

-----------------------------------------------------------------------------
(* The streams.                                                            *)

LEMMA TwoParts ==
  ASSUME NEW X, NEW x \in X, NEW y \in X
  PROVE  Append(<<>>, x) = <<x>> /\ Append(<<x>>, y) = <<x, y>> /\ SubSeq(<<x, y>>, 1, 2) = <<x, y>>
<1>1. Append(<<>>, x) = <<x>>
  <2>1. <<>> \in Seq(X)
    OBVIOUS
  <2> QED
    BY <2>1
<1>2. PICK q : q = <<x, y>>
  OBVIOUS
<1>3. q \in Seq(X) /\ Len(q) = 2 /\ q[1] = x /\ q[2] = y
  BY <1>2
<1>4. Append(<<x>>, y) = <<x, y>>
  <2>1. PICK s : s = <<x>>
    OBVIOUS
  <2>2. s \in Seq(X) /\ Len(s) = 1 /\ s[1] = x
    BY <2>1
  <2>3. PICK r : r = Append(s, y)
    OBVIOUS
  <2>4. \A i \in 1 .. 1 : r[i] = s[i]
    BY <2>2, <2>3
  <2>5. r \in Seq(X) /\ Len(r) = 2 /\ r[Len(s) + 1] = y
    BY <2>2, <2>3
  <2>6. r[1] = x /\ r[2] = y
    BY <2>2, <2>4, <2>5
  <2>7. \A i \in 1 .. 2 : r[i] = q[i]
    BY <1>3, <2>6
  <2>8. r = q
    BY <1>3, <2>5, <2>7, SeqEqual
  <2> QED
    BY <1>2, <2>1, <2>3, <2>8
<1>5. SubSeq(<<x, y>>, 1, 2) = <<x, y>>
  <2>1. SubSeq(q, 1, 2) \in Seq(X) /\ Len(SubSeq(q, 1, 2)) = 2 /\ \A i \in 1 .. 2 : SubSeq(q, 1, 2)[i] = q[i]
    BY <1>3
  <2>2. SubSeq(q, 1, 2) = q
    BY <1>3, <2>1, SeqEqual
  <2> QED
    BY <1>2, <2>2
<1> QED
  BY <1>1, <1>4, <1>5

LEMMA PartFacts ==
  ASSUME NEW n \in Calls
  PROVE  /\ Append(<<>>, <<n, 1>>) = Half(n) /\ Append(Half(n), <<n, 2>>) = Whole(n)
         /\ Len(Half(n)) = 1 /\ Len(Whole(n)) = 2 /\ SubSeq(Whole(n), 1, 2) = Whole(n)
<1>1. PICK x \in Calls \X {1, 2} : x = <<n, 1>>
  OBVIOUS
<1>2. PICK y \in Calls \X {1, 2} : y = <<n, 2>>
  OBVIOUS
<1>3. Half(n) = <<x>> /\ Whole(n) = <<x, y>>
  BY <1>1, <1>2 DEF Half, Whole
<1>4. Append(<<>>, x) = <<x>> /\ Append(<<x>>, y) = <<x, y>> /\ SubSeq(<<x, y>>, 1, 2) = <<x, y>>
  BY <1>1, <1>2, TwoParts
<1>5. Len(<<x>>) = 1 /\ Len(<<x, y>>) = 2
  OBVIOUS
<1> QED
  BY <1>1, <1>2, <1>3, <1>4, <1>5

(* Two threads in operator() write to different streams.                   *)
LEMMA Apart ==
  ASSUME StreamsAreOwn, EInv, NEW t1 \in Threads, NEW t2 \in Threads, t1 # t2,
         call[t1].pc # "idle", call[t2].pc # "idle"
  PROVE  WireOf(call[t1].via) # WireOf(call[t2].via)
<1> SUFFICES ASSUME WireOf(call[t1].via) = WireOf(call[t2].via) PROVE FALSE
  OBVIOUS
<1>1. /\ call[t1].via \in UsedBy(t1) /\ call[t2].via \in UsedBy(t2) /\ WireOf(call[t1].via) # Nil
      /\ call[t1].via \in Chans => sendMutex[call[t1].via] = t1
      /\ call[t2].via \in Chans => sendMutex[call[t2].via] = t2
  BY DEF EInv, Calling
<1>2. call[t1].via = call[t2].via /\ call[t1].via \in Chans
  BY <1>1 DEF StreamsAreOwn
<1> QED
  BY <1>1, <1>2

(* What a thread in operator() does to streams it does only to its own.    *)
LEMMA OthersHalfway ==
  ASSUME StreamsAreOwn, EInv, SInv, NEW t \in Threads, call[t].pc # "idle",
         \A x \in Threads : x # t => call'[x] = call[x],
         \A c \in Chans : c # WireOf(call[t].via) => stream'[c] = stream[c] /\ good'[c] = good[c],
         NEW x \in Threads, x # t
  PROVE  LET c == WireOf(call'[x].via)  n == call'[x].n
         IN  /\ call'[x].pc = "write 2" => stream'[c] \in {<<>>, Half(n)} /\ (good'[c] => stream'[c] = Half(n))
             /\ call'[x].pc = "dispatch" => stream'[c] \in PartsOf(n)
<1>1. call'[x] = call[x]
  OBVIOUS
<1>2. CASE call[x].pc = "idle"
  BY <1>1, <1>2
<1>3. CASE call[x].pc # "idle"
  <2>1. WireOf(call[x].via) \in Chans /\ WireOf(call[x].via) # WireOf(call[t].via)
    BY <1>3, InCall, Apart
  <2>2. stream'[WireOf(call[x].via)] = stream[WireOf(call[x].via)] /\ good'[WireOf(call[x].via)] = good[WireOf(call[x].via)]
    BY <2>1
  <2> QED
    BY <1>1, <2>2 DEF SInv, Halfway
<1> QED
  BY <1>2, <1>3

(* One argument is serialized.                                             *)
LEMMA SerializeStreams ==
  ASSUME StreamsAreOwn, EInv, SInv, NEW t \in Threads, NEW part \in {1, 2}, NEW next \in {"write 2", "dispatch"},
         Serialize(t, part, next),
         part = 1 => call[t].pc = "write" /\ next = "write 2",
         part = 2 => call[t].pc = "write 2" /\ next = "dispatch"
  PROVE  StreamsClean' /\ Halfway'
<1>1. PICK s, c, n : s = call[t].via /\ c = WireOf(s) /\ n = call[t].n
  OBVIOUS
<1>2. obj[s].wire = c /\ c \in Chans /\ n \in Calls /\ call[t].pc # "idle"
  BY <1>1, InCall
<1>3. /\ Serialize(t, part, next)
      /\ part = 1 => call[t].pc = "write" /\ next = "write 2"
      /\ part = 2 => call[t].pc = "write 2" /\ next = "dispatch"
  OBVIOUS
<1>4. /\ call \in [Threads -> CallType] /\ stream \in [Chans -> Seq(Calls \X {1, 2})] /\ good \in [Chans -> BOOLEAN]
  BY DEF EInv, CallTypes, PlaceTypes, StreamTypes
<1>5. part = 2 => stream[c] \in {<<>>, Half(n)} /\ (good[c] => stream[c] = Half(n))
  BY <1>1, <1>3 DEF SInv, Halfway
<1>6. PICK before : before = BeforePart(c, part)
  OBVIOUS
<1>7. before \in PartsOf(n) /\ (part = 1 => before = <<>>) /\ (part = 2 => before = stream[c])
  BY <1>3, <1>5, <1>6 DEF BeforePart, PartsOf
<1>8. /\ \A d \in Chans : d # c => stream'[d] = stream[d] /\ good'[d] = good[d]
      /\ stream'[c] \in PartsOf(n)
      /\ \A x \in Threads : x # t => call'[x] = call[x]
      /\ \/ call'[t].pc = next /\ call'[t].via = s /\ call'[t].n = n
            /\ (part = 1 => stream'[c] \in {<<>>, Half(n)} /\ (good'[c] => stream'[c] = Half(n)))
         \/ call'[t].pc = "dispatch" /\ call'[t].via = s /\ call'[t].n = n
         \/ call'[t] = NoCall
  <2>0. \A pc : [call[t] EXCEPT !.pc = pc].n = n /\ [call[t] EXCEPT !.pc = pc].via = s
                /\ [call[t] EXCEPT !.pc = pc].pc = pc
    <3>1. call[t] \in CallType
      BY <1>4
    <3> QED
      BY <1>1, <3>1 DEF CallType
  <2>1. CASE Write(c, n, part) /\ call' = [call EXCEPT ![t].pc = next]
    <3>1. /\ \A x \in Threads : x # t => call'[x] = call[x]
          /\ call'[t].pc = next /\ call'[t].via = s /\ call'[t].n = n
      <4>1. PICK k : k = [call[t] EXCEPT !.pc = next]
        OBVIOUS
      <4>2. call' = [call EXCEPT ![t] = k]
        BY <2>1, <4>1
      <4> QED
        BY <1>4, <2>0, <4>1, <4>2
    <3>2. CASE good[c] /\ stream' = [stream EXCEPT ![c] = Append(before, <<n, part>>)] /\ UNCHANGED good
      <4>1. stream'[c] = Append(before, <<n, part>>) /\ \A d \in Chans : d # c => stream'[d] = stream[d]
        BY <1>2, <1>4, <3>2
      <4>2. part = 1 => stream'[c] = Half(n)
        BY <1>2, <1>7, <4>1, PartFacts
      <4>3. part = 2 => stream'[c] = Whole(n)
        BY <1>2, <1>5, <1>7, <3>2, <4>1, PartFacts
      <4> QED
        BY <1>3, <3>1, <3>2, <4>1, <4>2, <4>3 DEF PartsOf
    <3>3. CASE good' = [good EXCEPT ![c] = FALSE] /\ stream' = [stream EXCEPT ![c] = before]
      <4>1. stream'[c] = before /\ good'[c] = FALSE
            /\ \A d \in Chans : d # c => stream'[d] = stream[d] /\ good'[d] = good[d]
        BY <1>2, <1>4, <3>3
      <4> QED
        BY <1>3, <1>7, <3>1, <4>1
    <3> QED
      BY <1>6, <2>1, <3>2, <3>3 DEF Write
  <2>2. CASE /\ LeaveCall(t) \/ call' = [call EXCEPT ![t].pc = "dispatch"]
             /\ stream' = [stream EXCEPT ![c] = before]
             /\ UNCHANGED good
    <3>1. stream'[c] = before /\ \A d \in Chans : d # c => stream'[d] = stream[d]
      BY <1>2, <1>4, <2>2
    <3>2. CASE LeaveCall(t)
      <4>1. call' = [call EXCEPT ![t] = NoCall]
        BY <3>2 DEF LeaveCall
      <4> QED
        BY <1>4, <1>7, <2>2, <3>1, <4>1
    <3>3. CASE call' = [call EXCEPT ![t].pc = "dispatch"]
      <4>1. PICK k : k = [call[t] EXCEPT !.pc = "dispatch"]
        OBVIOUS
      <4>2. call' = [call EXCEPT ![t] = k]
        BY <3>3, <4>1
      <4>3. call'[t] = k /\ \A x \in Threads : x # t => call'[x] = call[x]
        BY <1>4, <4>2
      <4>4. k.pc = "dispatch" /\ k.via = s /\ k.n = n
        BY <2>0, <4>1
      <4> QED
        BY <1>7, <2>2, <3>1, <4>3, <4>4
    <3> QED
      BY <2>2, <3>2, <3>3
  <2> QED
    BY <1>1, <1>2, <1>3, <1>6, <2>1, <2>2 DEF Serialize
<1>9. StreamsClean'
  BY <1>2, <1>8 DEF StreamsClean, SInv
<1>10. \A x \in Threads :
         LET d == WireOf(call'[x].via)  k == call'[x].n
         IN  /\ call'[x].pc = "write 2" => stream'[d] \in {<<>>, Half(k)} /\ (good'[d] => stream'[d] = Half(k))
             /\ call'[x].pc = "dispatch" => stream'[d] \in PartsOf(k)
  <2>1. SUFFICES ASSUME NEW x \in Threads
        PROVE  LET d == WireOf(call'[x].via)  k == call'[x].n
               IN  /\ call'[x].pc = "write 2" => stream'[d] \in {<<>>, Half(k)} /\ (good'[d] => stream'[d] = Half(k))
                   /\ call'[x].pc = "dispatch" => stream'[d] \in PartsOf(k)
    OBVIOUS
  <2>2. CASE x # t
    BY <1>1, <1>2, <1>8, <2>2, OthersHalfway
  <2>3. CASE x = t
    BY <1>1, <1>3, <1>8, <2>3, NoCallFacts
  <2> QED
    BY <2>2, <2>3
<1> QED
  BY <1>9, <1>10 DEF Halfway

(* operator() ends: what is sent is of one call, and the stream is empty.  *)
LEMMA FinishStreams ==
  ASSUME StreamsAreOwn, EInv, SInv, NEW t \in Threads, call[t].pc = "dispatch", Finish(t)
  PROVE  StreamsClean' /\ Halfway' /\ air' \subseteq Clean
<1>1. PICK s, c, n : s = call[t].via /\ c = WireOf(s) /\ n = call[t].n
  OBVIOUS
<1>2. obj[s].wire = c /\ c \in Chans /\ n \in Calls /\ call[t].pc # "idle" /\ obj[s] \in Delegates(s)
  BY <1>1, InCall
<1>3. /\ call \in [Threads -> CallType] /\ stream \in [Chans -> Seq(Calls \X {1, 2})] /\ good \in [Chans -> BOOLEAN]
      /\ m_seqNum \in 0 .. NumMod - 1 /\ air \subseteq Clean /\ StreamsClean
  BY DEF EInv, CallTypes, PlaceTypes, StreamTypes, SentTypes, SInv, OneCallsParts
<1>4. stream[c] \in PartsOf(n)
  BY <1>1 DEF SInv, Halfway
<1>5. call'[t] = NoCall /\ \A x \in Threads : x # t => call'[x] = call[x]
  BY <1>3 DEF Finish, LeaveCall
<1>6. CASE UNCHANGED <<stream, good, air>>
  <2>1. StreamsClean'
    BY <1>3, <1>6 DEF StreamsClean
  <2>2. \A d \in Chans : d # WireOf(call[t].via) => stream'[d] = stream[d] /\ good'[d] = good[d]
    BY <1>6
  <2>3. Halfway'
    <3>1. SUFFICES ASSUME NEW x \in Threads
          PROVE  LET d == WireOf(call'[x].via)  k == call'[x].n
                 IN  /\ call'[x].pc = "write 2" => stream'[d] \in {<<>>, Half(k)} /\ (good'[d] => stream'[d] = Half(k))
                     /\ call'[x].pc = "dispatch" => stream'[d] \in PartsOf(k)
      BY DEF Halfway
    <3> QED
      BY <1>2, <1>5, <2>2, OthersHalfway, NoCallFacts
  <2> QED
    BY <1>3, <1>6, <2>1, <2>3
<1>7. CASE Dispatch(s, c, n)
  <2>1. stream' = [stream EXCEPT ![c] = <<>>] /\ good' = [good EXCEPT ![c] = TRUE]
    BY <1>7 DEF Dispatch, ResetStream
  <2>2. stream'[c] = <<>> /\ \A d \in Chans : d # c => stream'[d] = stream[d] /\ good'[d] = good[d]
    BY <1>2, <1>3, <2>1
  <2>3. StreamsClean'
    BY <1>3, <2>2 DEF StreamsClean
  <2>4. Halfway'
    <3>1. SUFFICES ASSUME NEW x \in Threads
          PROVE  LET d == WireOf(call'[x].via)  k == call'[x].n
                 IN  /\ call'[x].pc = "write 2" => stream'[d] \in {<<>>, Half(k)} /\ (good'[d] => stream'[d] = Half(k))
                     /\ call'[x].pc = "dispatch" => stream'[d] \in PartsOf(k)
      BY DEF Halfway
    <3> QED
      BY <1>1, <1>2, <1>5, <2>2, OthersHalfway, NoCallFacts
  <2>5. air' \subseteq Clean
    <3>1. PICK m : m = [n |-> n, seq |-> m_seqNum, id |-> obj[s].id, parts |-> stream[c]]
      OBVIOUS
    <3>2. obj[s].id \in Ids /\ stream[c] \in Seq(Calls \X {1, 2})
      BY <1>2, <1>3 DEF Delegates
    <3>3. m \in Messages /\ m.parts = stream[c]
      BY <1>2, <1>3, <3>1, <3>2 DEF Messages
    <3>4. m \in Clean
      BY <1>2, <1>4, <3>3 DEF Clean
    <3>5. air' = air \/ air' = air \cup {m}
      BY <1>7, <3>1 DEF Dispatch, Transmit
    <3> QED
      BY <1>3, <3>4, <3>5
  <2> QED
    BY <2>3, <2>4, <2>5
<1> QED
  BY <1>1, <1>2, <1>6, <1>7 DEF Finish

(* Every step leaves the streams in order.                                 *)
LEMMA StreamsKept ==
  ASSUME StreamsAreOwn, EInv, SInv, [Next]_vars
  PROVE  StreamsClean' /\ Halfway' /\ air' \subseteq Clean
<1>1. StreamsClean /\ Halfway /\ air \subseteq Clean
  BY DEF SInv, OneCallsParts
<1>2. CASE CallsRest
  BY <1>1, <1>2 DEF CallsRest, StreamsClean, Halfway
<1>3. CASE \E t \in Threads : CallStep(t)
  <2>1. PICK t \in Threads : CallStep(t)
    BY <1>3
  <2>2. CASE call[t].pc = "dispatch" /\ Finish(t)
    BY <2>2, FinishStreams
  <2>3. CASE call[t].pc = "write" /\ Serialize(t, 1, "write 2")
    <3>1. 1 \in {1, 2} /\ "write 2" \in {"write 2", "dispatch"} /\ 1 # 2
      OBVIOUS
    <3>2. StreamsClean' /\ Halfway'
      BY <2>3, <3>1, SerializeStreams
    <3>3. air' = air
      BY <2>3 DEF Serialize
    <3> QED
      BY <1>1, <3>2, <3>3
  <2>4. CASE call[t].pc = "write 2" /\ Serialize(t, 2, "dispatch")
    <3>1. 2 \in {1, 2} /\ "dispatch" \in {"write 2", "dispatch"} /\ 1 # 2
      OBVIOUS
    <3>2. StreamsClean' /\ Halfway'
      BY <2>4, <3>1, SerializeStreams
    <3>3. air' = air
      BY <2>4 DEF Serialize
    <3> QED
      BY <1>1, <3>2, <3>3
  <2> QED
    BY <2>1, <2>2, <2>3, <2>4, CallSteps
<1>4. CASE \E t \in Threads : \E s \in UsedBy(t) : Begin(t, s)
  <2>1. PICK t \in Threads : \E s \in UsedBy(t) : Begin(t, s)
    BY <1>4
  <2>2. UNCHANGED <<stream, good, air>> /\ \A x \in Threads : call'[x] = call[x] \/ call'[x].pc = "write"
    BY <2>1, BeginPlaces DEF Begin
  <2>3. StreamsClean' /\ air' \subseteq Clean
    BY <1>1, <2>2 DEF StreamsClean
  <2>4. Halfway'
    <3>1. SUFFICES ASSUME NEW x \in Threads
          PROVE  LET d == WireOf(call'[x].via)  k == call'[x].n
                 IN  /\ call'[x].pc = "write 2" => stream'[d] \in {<<>>, Half(k)} /\ (good'[d] => stream'[d] = Half(k))
                     /\ call'[x].pc = "dispatch" => stream'[d] \in PartsOf(k)
      BY DEF Halfway
    <3> QED
      BY <1>1, <2>2 DEF Halfway
  <2> QED
    BY <2>3, <2>4
<1> QED
  BY <1>2, <1>3, <1>4, StepOfCalls

(* What the receive thread and the network thread have in hand.            *)
LEMMA InHandKept ==
  ASSUME EInv, SInv, [Next]_vars
  PROVE  /\ recv'.pc \in {"post", "posted", "late"} => recv'.m \in Clean
         /\ job' \in RecvJobs => job'.of \in Clean
<1>1. /\ air \subseteq Clean
      /\ recv.pc \in {"post", "posted", "late"} => recv.m \in Clean
      /\ job \in RecvJobs => job.of \in Clean
      /\ Nil \notin RecvJobs
  BY JobFacts DEF SInv, OneCallsParts
<1>2. CASE UNCHANGED <<recv, job>> \/ (UNCHANGED recv /\ job' = Nil)
  BY <1>1, <1>2
<1>3. CASE \E m \in air : ReceiveData(m)
  BY <1>1, <1>3 DEF ReceiveData
<1>4. CASE RecvThread
  <2>1. RecvTypes
    BY SameTypes
  <2>2. job' = job /\ (recv' = [pc |-> "receive", m |-> Nil] \/ recv' = [pc |-> "gone", m |-> Nil]
                       \/ (recv.pc \in {"post", "posted"} /\ \E pc \in {"posted", "late"} : recv' = [recv EXCEPT !.pc = pc]))
    BY <1>4 DEF RecvThread, RecvPost, RecvTimeout, RecvLeaves
  <2> QED
    BY <1>1, <2>1, <2>2 DEF RecvTypes
<1>5. CASE Take
  <2>1. recv' = recv /\ queue # <<>> /\ (job' = Nil \/ job' = queue[1])
    BY <1>5, SameTypes, Taken, JobSets DEF Take, recvVars
  <2>2. queue \in Seq(Jobs \cup {Skipped})
    BY SameTypes DEF QueueTypes
  <2>3. 1 \in 1 .. Len(queue)
    BY <2>1, <2>2
  <2>4. queue[1] \in RecvJobs => queue[1] = Job("in", recv.m) /\ recv.pc = "posted"
    BY <2>3, SameTypes DEF RecvPosting
  <2> QED
    BY <1>1, <2>1, <2>4 DEF Job
<1>6. CASE Incoming
  <2>1. job \in RecvJobs
    BY <1>6, IncomingSteps
  <2>2. CASE job' = Job("handler", job.of) /\ recv' = recv
    BY <1>1, <2>1, <2>2 DEF Job
  <2>3. CASE job' = Nil /\ (recv' = recv \/ recv' = [pc |-> "receive", m |-> Nil])
    BY <1>1, <2>3
  <2> QED
    BY <1>6, <2>2, <2>3, IncomingSteps
<1>7. CASE HandlerReturns \/ Start
  BY <1>1, <1>7 DEF HandlerReturns, Start, Signalled
<1>13. CASE HandlerSends
  <2>1. job \in RecvJobs /\ recv' = recv /\ job' = Job("reply", job.of)
    BY <1>13, DoingFacts DEF HandlerSends, InTarget, recvVars
  <2> QED
    BY <1>1, <2>1 DEF Job
<1>8. CASE \E u \in Waiters : RemoteInvokeWait(u) \/ SendTimeout(u) \/ WaitReturns(u) \/ SendBegins(u) \/ SendEnds(u)
  BY <1>2, <1>8 DEF RemoteInvokeWait, SendTimeout, WaitReturns, SendBegins, SendEnds, recvVars
<1>9. CASE (\E u \in Users : CallDirectly(u)) \/ (\E t \in Threads : CallProceeds(t))
  BY <1>2, <1>9 DEF CallDirectly, CallProceeds, engineVars, recvVars
<1>10. CASE \E a \in acks : ReceiveAck(a)
  BY <1>2, <1>10 DEF ReceiveAck
<1>11. CASE Timeout \/ Initialize \/ RegisterEndpoint \/ Stop
  BY <1>2, <1>11 DEF Timeout, Initialize, RegisterEndpoint, Stop, recvVars
<1>12. CASE TimerTick \/ Owner \/ Rest \/ UNCHANGED vars
  <2>1. UNCHANGED <<recv, job>>
    BY <1>12 DEF TimerTick, Owner, InitializeCall, RegisterEndpointCall, StartCall, StopSignals, StopJoins,
                 Marshal, Rest, vars, engineVars, recvVars
  <2> QED
    BY <1>2, <2>1
<1> QED
  BY <1>3, <1>4, <1>5, <1>6, <1>7, <1>8, <1>9, <1>10, <1>11, <1>12, <1>13, NetIsThread DEF Next, NetThread, Users

(* A target is called with the arguments of one call.                      *)
LEMMA WholeCallsKept ==
  ASSUME EInv, SInv, [Next]_vars
  PROVE  WholeCalls'
<1>1. WholeCalls
  BY DEF SInv
<1>2. CASE invoked' = invoked
  BY <1>1, <1>2 DEF WholeCalls
<1>3. CASE Incoming
  <2>1. PICK m \in Clean : m = job.of
    BY <1>3, DoingFacts DEF Incoming, SInv, OneCallsParts
  <2>2. m_receiveIdMap[m.id] \in Endpoints \cup {Nil}
    BY <2>1 DEF Clean, Messages, EInv, EngineTypes, MapTypes
  <2>3. invoked' = invoked \/ (Readable(m) /\ invoked' = invoked \cup {Invocation(m)})
    <3>1. CASE m_receiveIdMap[m.id] = Nil
      BY <1>3, <2>1, <3>1 DEF Incoming
    <3>2. CASE m_receiveIdMap[m.id] # Nil
      <4>1. PICK s \in Endpoints : s = m_receiveIdMap[m.id]
        BY <2>2, <3>2
      <4>2. Invoke(s, m)
        BY <1>3, <2>1, <3>2, <4>1 DEF Incoming
      <4> QED
        BY <4>2 DEF Invoke, InvokeFree, InvokeMember, InvokeFunction, Received
    <3> QED
      BY <3>1, <3>2
  <2>4. PICK n \in Calls : m.parts \in PartsOf(n)
    BY DEF Clean
  <2>5. Readable(m) => m.parts = Whole(n)
    BY <2>4, PartFacts DEF Readable, PartsOf
  <2>6. Readable(m) => Invocation(m) = Whole(n)
    BY <2>4, <2>5, PartFacts DEF Invocation
  <2> QED
    BY <1>1, <2>3, <2>4, <2>6 DEF WholeCalls, Whole
<1> QED
  BY <1>2, <1>3, OnlyIncoming

(* A remote call arrives whole or its caller knows, although callers share *)
(* channels and calls fail half-way and leave what they have written       *)
(* behind: the lock of the channel keeps a stream to one call at a time,   *)
(* and the serializer empties it first (RemoteChannel.h, DelegateRemote.h).*)
THEOREM CallsAlwaysExact ==
  ASSUME StreamsAreOwn
  PROVE  Spec => []CallsExact
<1>1. Init => SInv
  <2> SUFFICES ASSUME Init PROVE SInv
    OBVIOUS
  <2>1. StreamsClean /\ WholeCalls
    BY DEF Init, RemoteInit, StreamsClean, WholeCalls
  <2>2. Halfway
    BY NoCallFacts DEF Init, RemoteInit, Halfway
  <2>3. OneCallsParts
    BY JobFacts DEF Init, RemoteInit, OneCallsParts
  <2> QED
    BY <2>1, <2>2, <2>3 DEF SInv
<1>2. EInv /\ SInv /\ [Next]_vars => SInv'
  BY StreamsKept, InHandKept, WholeCallsKept DEF SInv, OneCallsParts
<1>3. EInv /\ SInv => CallsExact
  <2> SUFFICES ASSUME EInv, SInv PROVE CallsExact
    OBVIOUS
  <2>1. \A s \in Senders : obj[s].seq \in 0 .. NumMod - 1
    BY DEF EInv, CallTypes, ObjTypes, Delegates
  <2>2. \A c \in Chans : sendMutex[c] \in Threads \cup {Nil} /\ Len(stream[c]) <= 2 * MaxCalls
    <3> SUFFICES ASSUME NEW c \in Chans PROVE sendMutex[c] \in Threads \cup {Nil} /\ Len(stream[c]) <= 2 * MaxCalls
      OBVIOUS
    <3>1. Len(<<>>) = 0 /\ 0 <= 2 * MaxCalls
      BY RemoteConstants
    <3>2. \A n \in Calls : Len(Half(n)) = 1 /\ Len(Whole(n)) = 2 /\ 2 <= 2 * MaxCalls
      BY PartFacts, RemoteConstants DEF Calls
    <3>3. stream[c] = <<>> \/ \E n \in Calls : stream[c] = Half(n) \/ stream[c] = Whole(n)
      BY DEF SInv, StreamsClean, PartsOf
    <3>4. ASSUME stream[c] = <<>> PROVE Len(stream[c]) <= 2 * MaxCalls
      <4>1. Len(stream[c]) = 0
        BY <3>4
      <4> QED
        BY <4>1, RemoteConstants
    <3>5. ASSUME NEW n \in Calls, stream[c] = Half(n) \/ stream[c] = Whole(n)
          PROVE  Len(stream[c]) <= 2 * MaxCalls
      <4>1. CASE stream[c] = Half(n)
        <5>1. Len(stream[c]) = 1
          BY <3>2, <4>1
        <5> QED
          BY <3>2, <5>1, RemoteConstants
      <4>2. CASE stream[c] = Whole(n)
        <5>1. Len(stream[c]) = 2
          BY <3>2, <4>2
        <5> QED
          BY <3>2, <5>1
      <4> QED
        BY <3>5, <4>1, <4>2
    <3>6. Len(stream[c]) <= 2 * MaxCalls
      BY <3>3, <3>4, <3>5
    <3> QED
      BY <3>6 DEF EInv, CallTypes, MutexTypes
  <2>3. (\A t \in Threads : call[t].pc \in {"idle", "write", "write 2", "dispatch"}) /\ calls \in 0 .. MaxCalls
    BY DEF EInv, CallTypes, PlaceTypes, CallType
  <2>4. /\ \A u \in Waiters : wait[u].pc \in {"idle", "posted", "late", "wait", "return"} /\ Len(wait[u].early) <= EarlyMax
        /\ recv.pc \in {"none", "receive", "post", "posted", "late", "gone"}
        /\ Len(queue) <= Cap
    BY DEF EInv, EngineTypes, WaitTypes, WaitStates, RecvTypes, QueueTypes
  <2>5. owner.pc \in {"idle", "marshalled", "join"} /\ owner.at \in 1 .. Len(Script) + 1
    BY DEF EInv, EngineTypes, OwnerTypes
  <2>6. \A id \in Ids : m_receiveIdMap[id] \in Senders \cup {Nil}
    BY DEF EInv, EngineTypes, MapTypes, Endpoints, Senders
  <2>7. TypeOK
    BY <2>1, <2>2, <2>3, <2>4, <2>5, <2>6 DEF TypeOK
  <2> QED
    BY <2>7 DEF CallsExact, EInv, SInv
<1> QED
  BY <1>1, <1>2, <1>3, EngineInvariant, PTL DEF Spec

-----------------------------------------------------------------------------
(* Numbers.                                                                *)

(* What a step of operator() does to the message of its call.              *)
Sent(t) ==
  /\ m_seqNum' = (m_seqNum + 1) % NumMod
  /\ sentBy' = [sentBy EXCEPT ![call[t].n] = m_seqNum]
  /\ pending' = pending \cup {[seq |-> m_seqNum, id |-> obj[call[t].via].id, n |-> call[t].n]}
  /\ obj'[call[t].via].seq = m_seqNum
  /\ call'[t] = NoCall

NotSent(t) ==
  /\ UNCHANGED <<sentBy, pending>>
  /\ m_seqNum' = m_seqNum \/ (m_seqNum' = (m_seqNum + 1) % NumMod /\ call'[t] = NoCall)

LEMMA CallStepSends ==
  ASSUME EInv, NEW t \in Threads, CallStep(t)
  PROVE  /\ Sent(t) \/ NotSent(t)
         /\ \A s \in Senders : s # call[t].via => obj'[s] = obj[s]
<1>1. PICK s, c, n : s = call[t].via /\ c = obj[s].wire /\ n = call[t].n
  OBVIOUS
<1>2. s \in Senders /\ obj[s] \in Delegates(s) /\ call \in [Threads -> CallType] /\ m_seqNum \in 0 .. NumMod - 1
  BY <1>1, CallStepPlaces, InCall DEF EInv, CallTypes, PlaceTypes, SentTypes
<1>3. DOMAIN obj = Senders
  BY DEF EInv, CallTypes, ObjTypes
<1>4. CASE call[t].pc = "dispatch" /\ Finish(t)
  <2>1. call'[t] = NoCall
    BY <1>2, <1>4 DEF Finish, LeaveCall
  <2>2. CASE Dispatch(s, c, n)
    <3>1. CASE /\ Transmit([n |-> n, seq |-> m_seqNum, id |-> obj[s].id, parts |-> stream[c]])
               /\ pending' = pending \cup {[seq |-> m_seqNum, id |-> obj[s].id, n |-> n]}
               /\ sentBy' = [sentBy EXCEPT ![n] = m_seqNum]
               /\ obj' = [obj EXCEPT ![s].seq = m_seqNum]
      <4>1. m_seqNum' = (m_seqNum + 1) % NumMod
        BY <2>2 DEF Dispatch
      <4>2. PICK d : d = [obj[s] EXCEPT !.seq = m_seqNum]
        OBVIOUS
      <4>3. obj' = [obj EXCEPT ![s] = d] /\ d.seq = m_seqNum
        BY <1>2, <3>1, <4>2 DEF Delegates
      <4>4. \A x \in Senders : obj'[x] = IF x = s THEN d ELSE obj[x]
        BY <1>3, <4>3
      <4> QED
        BY <1>1, <1>2, <2>1, <3>1, <4>1, <4>3, <4>4 DEF Sent
    <3>2. CASE obj' = [obj EXCEPT ![s].seq = m_seqNum, ![s].err = "DISPATCH"] /\ UNCHANGED <<pending, sentBy>>
      <4>1. m_seqNum' = (m_seqNum + 1) % NumMod
        BY <2>2 DEF Dispatch
      <4>2. \A x \in Senders : x # s => obj'[x] = obj[x]
        BY <1>3, <3>2
      <4> QED
        BY <1>1, <2>1, <3>2, <4>1, <4>2 DEF NotSent
    <3> QED
      BY <2>2, <3>1, <3>2 DEF Dispatch
  <2>3. CASE RaiseError(s, n, "STREAM_NOT_GOOD") /\ UNCHANGED <<m_seqNum, pending, sentBy>>
    BY <1>1, <1>3, <2>3 DEF RaiseError, NotSent
  <2> QED
    BY <1>1, <1>4, <2>2, <2>3 DEF Finish
<1>5. CASE \E part \in {1, 2}, next \in {"write 2", "dispatch"} : Serialize(t, part, next)
  <2>1. UNCHANGED <<m_seqNum, pending, sentBy>> /\ (obj' = obj \/ RaiseError(s, n, "SERIALIZE"))
    BY <1>1, <1>5 DEF Serialize
  <2> QED
    BY <1>1, <1>3, <2>1 DEF RaiseError, NotSent
<1> QED
  BY <1>4, <1>5, CallSteps

LEMMA EndedFinite ==
  ASSUME EInv
  PROVE  IsFiniteSet(Ended) /\ Cardinality(Ended) \in Nat /\ calls \in Nat /\ IsFiniteSet(1 .. calls)
         /\ Cardinality(1 .. calls) = calls
<1>1. calls \in Nat
  BY RemoteConstants DEF EInv, CallTypes, PlaceTypes
<1>2. IsFiniteSet(1 .. calls) /\ Cardinality(1 .. calls) = calls
  BY <1>1, FS_Interval
<1>3. Ended \subseteq 1 .. calls
  BY DEF Ended
<1> QED
  BY <1>1, <1>2, <1>3, FS_Subset, FS_CardinalityType

(* Calls that have ended stay so.                                          *)
LEMMA EndedStays ==
  ASSUME EInv, [Next]_vars
  PROVE  Ended \subseteq Ended' /\ Cardinality(Ended) <= Cardinality(Ended')
<1>1. Ended \subseteq Ended'
  <2> SUFFICES ASSUME NEW n \in 1 .. calls, \A t \in Threads : call[t].n # n
               PROVE  n \in 1 .. calls' /\ \A t \in Threads : call'[t].n # n
    BY DEF Ended
  <2>1. calls \in Nat /\ n # 0 /\ n # calls + 1
    BY EndedFinite
  <2>2. CASE CallsRest
    BY <2>2 DEF CallsRest
  <2>3. CASE \E t \in Threads : CallStep(t)
    BY <2>1, <2>3, CallStepPlaces, NoCallFacts
  <2>4. CASE \E t \in Threads : \E s \in UsedBy(t) : Begin(t, s)
    <3>1. calls' = calls + 1 /\ \A x \in Threads : call'[x] = call[x] \/ call'[x].n = calls + 1
      BY <2>4, BeginPlaces
    <3> QED
      BY <2>1, <3>1
  <2> QED
    BY <2>2, <2>3, <2>4, StepOfCalls
<1>2. IsFiniteSet(Ended')
  <2>1. calls' \in Nat
    BY CallsKept, RemoteConstants DEF CallTypes, PlaceTypes
  <2>2. IsFiniteSet(1 .. calls')
    BY <2>1, FS_Interval
  <2>3. Ended' \subseteq 1 .. calls'
    BY DEF Ended
  <2> QED
    BY <2>2, <2>3, FS_Subset
<1> QED
  BY <1>1, <1>2, FS_Subset

(* One more has ended when a number is taken, and there are more numbers.  *)
LEMMA NumberTaken ==
  ASSUME NumbersSuffice, EInv, Numbered, NEW t \in Threads, CallStep(t), call'[t] = NoCall
  PROVE  /\ m_seqNum + 1 <= Cardinality(Ended')
         /\ (m_seqNum + 1) % NumMod = m_seqNum + 1
<1>1. PICK n : n = call[t].n
  OBVIOUS
<1>2. calls' = calls /\ call[t].pc # "idle" /\ n \in 1 .. calls
  BY <1>1, CallStepPlaces, InCall
<1>3. \A x \in Threads : x # t => call'[x].n = call[x].n
  BY CallStepPlaces
<1>4. NoCall.n = 0 /\ calls \in Nat /\ MaxCalls \in Nat /\ calls <= MaxCalls /\ NumMod \in Nat /\ m_seqNum \in Nat
      /\ MaxCalls < NumMod
  BY NoCallFacts, RemoteConstants DEF NumbersSuffice, EInv, CallTypes, PlaceTypes, SentTypes
<1>5. \A x \in Threads : call[x].n = n => x = t
  BY <1>1, <1>2, <1>4 DEF EInv, Calling
<1>6. n \notin Ended
  BY <1>1 DEF Ended
<1>7. Ended' = Ended \cup {n}
  BY <1>1, <1>2, <1>3, <1>4, <1>5 DEF Ended
<1>8. IsFiniteSet(Ended) /\ Cardinality(Ended) \in Nat
  BY EndedFinite
<1>9. Cardinality(Ended') = Cardinality(Ended) + 1
  BY <1>6, <1>7, <1>8, FS_AddElement
<1>10. Cardinality(Ended') <= calls
  <2>1. Ended' \subseteq 1 .. calls
    BY <1>2, <1>7 DEF Ended
  <2> QED
    BY <2>1, EndedFinite, FS_Subset
<1>11. m_seqNum + 1 < NumMod
  BY <1>4, <1>8, <1>9, <1>10 DEF Numbered
<1> QED
  BY <1>4, <1>8, <1>9, <1>11 DEF Numbered

LEMMA NumberedKept ==
  ASSUME NumbersSuffice, EInv, Numbered, [Next]_vars
  PROVE  Numbered'
<1>1. m_seqNum \in Nat /\ m_seqNum <= Cardinality(Ended) /\ Cardinality(Ended) \in Nat
      /\ sentBy \in [Calls -> (0 .. NumMod - 1) \cup {Nil}]
  BY EndedFinite DEF EInv, CallTypes, SentTypes, Numbered
<1>2. Cardinality(Ended) <= Cardinality(Ended')
  BY EndedStays
<1>3. Cardinality(Ended') \in Nat
  <2>1. calls' \in Nat
    BY CallsKept, RemoteConstants DEF CallTypes, PlaceTypes
  <2>2. IsFiniteSet(1 .. calls')
    BY <2>1, FS_Interval
  <2>3. Ended' \subseteq 1 .. calls'
    BY DEF Ended
  <2> QED
    BY <2>2, <2>3, FS_Subset, FS_CardinalityType
<1>4. CASE UNCHANGED <<m_seqNum, sentBy>>
  BY <1>1, <1>2, <1>3, <1>4 DEF Numbered
<1>5. ASSUME NEW t \in Threads, CallStep(t), call'[t] = NoCall, m_seqNum' = (m_seqNum + 1) % NumMod,
             sentBy' = sentBy \/ sentBy' = [sentBy EXCEPT ![call[t].n] = m_seqNum]
      PROVE  Numbered'
  <2>1. m_seqNum' = m_seqNum + 1 /\ m_seqNum' <= Cardinality(Ended')
    BY <1>5, NumberTaken
  <2>2. PICK n \in Calls : n = call[t].n /\ sentBy[n] = Nil
    BY <1>5, CallStepPlaces, InCall
  <2>3. \A k \in Calls : sentBy'[k] = sentBy[k] \/ (k = n /\ sentBy'[k] = m_seqNum)
    BY <1>1, <1>5, <2>2
  <2>4. \A k \in Calls : sentBy[k] = Nil \/ (sentBy[k] \in Nat /\ sentBy[k] < m_seqNum)
    BY <1>1, RemoteConstants DEF Numbered
  <2>5. m_seqNum \in 0 .. NumMod - 1 /\ m_seqNum # Nil
    BY RemoteConstants DEF EInv, CallTypes, SentTypes
  <2>6. \A k \in Calls : sentBy'[k] # Nil => sentBy'[k] < m_seqNum'
    BY <1>1, <2>1, <2>3, <2>4
  <2>7. \A k, l \in Calls : sentBy'[k] = sentBy'[l] /\ sentBy'[k] # Nil => k = l
    BY <1>1, <2>3, <2>4, <2>5 DEF Numbered
  <2> QED
    BY <2>1, <2>6, <2>7 DEF Numbered
<1>6. CASE \E t \in Threads : CallStep(t)
  <2>1. PICK t \in Threads : CallStep(t)
    BY <1>6
  <2>2. CASE Sent(t)
    BY <1>5, <2>1, <2>2 DEF Sent
  <2>3. CASE NotSent(t)
    BY <1>4, <1>5, <2>1, <2>3 DEF NotSent
  <2> QED
    BY <2>1, <2>2, <2>3, CallStepSends
<1> QED
  BY <1>4, <1>6, StepOfCalls DEF CallsRest, Begin

-----------------------------------------------------------------------------
(* Statuses.                                                               *)

(* The monitor reports a message: as acknowledged, or as expired.          *)
Reports(p, b) ==
  /\ OnSendStatus(p, b)
  /\ UNCHANGED <<sentBy, m_seqNum, call, calls, obj, job>>

Quiet == UNCHANGED <<sentBy, pending, acked>>

LEMMA StepOfMessages ==
  ASSUME EInv, [Next]_vars
  PROVE  \/ Quiet
         \/ \E p \in pending : \E b \in BOOLEAN : Reports(p, b)
         \/ \E t \in Threads : CallStep(t) /\ Sent(t) /\ UNCHANGED engineVars
<1>1. CASE \E t \in Threads : CallProceeds(t)
  <2>1. PICK t \in Threads : CallStep(t) /\ UNCHANGED engineVars
    BY <1>1 DEF CallProceeds
  <2>2. CASE Sent(t)
    BY <2>1, <2>2
  <2>3. CASE NotSent(t)
    BY <2>1, <2>3 DEF NotSent, Quiet, engineVars
  <2> QED
    BY <2>1, <2>2, <2>3, CallStepSends
<1>2. CASE (\E u \in Users : CallDirectly(u)) \/ HandlerSends \/ (\E u \in Waiters : SendBegins(u))
  BY <1>2 DEF CallDirectly, HandlerSends, SendBegins, Begin, Quiet, engineVars
<1>3. CASE \E a \in acks : ReceiveAck(a)
  <2>1. PICK a \in acks : ReceiveAck(a)
    BY <1>3
  <2>2. UNCHANGED <<sentBy, m_seqNum, call, calls, obj, job>>
    BY <2>1 DEF ReceiveAck
  <2>3. CASE \E p \in pending : p.seq = a.seq /\ p.id = a.id
    <3>1. PICK p \in pending : p = CHOOSE q \in pending : q.seq = a.seq /\ q.id = a.id
      BY <2>3
    <3>2. OnSendStatus(p, TRUE)
      BY <2>1, <2>3, <3>1 DEF ReceiveAck
    <3> QED
      BY <2>2, <3>2 DEF Reports
  <2>4. CASE UNCHANGED <<pending, wait, acked>>
    BY <2>2, <2>4 DEF Quiet
  <2> QED
    BY <2>1, <2>3, <2>4 DEF ReceiveAck
<1>4. CASE Timeout
  <2>1. CASE \E p \in pending : OnSendStatus(p, FALSE) /\ UNCHANGED job
    BY <1>4, <2>1 DEF Timeout, Reports
  <2>2. CASE UNCHANGED <<pending, wait, acked>>
    BY <1>4, <2>2 DEF Timeout, Quiet
  <2> QED
    BY <1>4, <2>1, <2>2 DEF Timeout
<1>5. CASE RecvThread \/ TimerTick \/ Owner \/ Rest \/ UNCHANGED vars
  BY <1>5 DEF RecvThread, RecvPost, RecvTimeout, RecvLeaves, TimerTick, Owner, InitializeCall,
              RegisterEndpointCall, StartCall, StopSignals, StopJoins, Marshal, Rest, vars, remoteVars, engineVars, Quiet
<1>6. CASE Take \/ Incoming \/ HandlerReturns \/ Initialize \/ RegisterEndpoint \/ Start \/ Stop
  BY <1>6 DEF Take, Incoming, HandlerReturns, Initialize, RegisterEndpoint, Start, Stop, remoteVars, Quiet
<1>7. CASE \E u \in Waiters : RemoteInvokeWait(u) \/ SendTimeout(u) \/ WaitReturns(u) \/ SendEnds(u)
  BY <1>7 DEF RemoteInvokeWait, SendTimeout, WaitReturns, SendEnds, remoteVars, Quiet
<1>8. CASE \E m \in air : ReceiveData(m)
  BY <1>8 DEF ReceiveData, Quiet
<1> QED
  BY <1>1, <1>2, <1>3, <1>4, <1>5, <1>6, <1>7, <1>8, NetIsThread DEF Next, NetThread, Users

(* A message gets its number once.                                         *)
LEMMA NumberOnce ==
  ASSUME EInv, NEW t \in Threads, CallStep(t), Sent(t)
  PROVE  /\ call[t].n \in Calls /\ sentBy[call[t].n] = Nil /\ m_seqNum # Nil
         /\ sentBy'[call[t].n] = m_seqNum
         /\ \A k \in Calls : k # call[t].n => sentBy'[k] = sentBy[k]
<1>1. call[t].n \in Calls /\ sentBy[call[t].n] = Nil
  BY CallStepPlaces, InCall
<1>2. m_seqNum \in 0 .. NumMod - 1 /\ sentBy \in [Calls -> (0 .. NumMod - 1) \cup {Nil}]
  BY DEF EInv, CallTypes, SentTypes
<1>3. m_seqNum # Nil
  BY <1>2, RemoteConstants
<1> QED
  BY <1>1, <1>2, <1>3 DEF Sent

LEMMA MessageTypes ==
  ASSUME EInv
  PROVE  /\ \A p \in pending : p \in [seq : 0 .. NumMod - 1, id : Ids, n : Calls] /\ p.n \in Calls /\ p.seq # Nil
         /\ acked \subseteq Calls
BY RemoteConstants DEF EInv, EngineTypes, MapTypes, CallTypes, SentTypes

LEMMA MonitoredKept ==
  ASSUME EInv, Monitored, [Next]_vars
  PROVE  Monitored'
<1>1. CASE Quiet
  BY <1>1 DEF Quiet, Monitored
<1>2. ASSUME NEW p \in pending, NEW b \in BOOLEAN, Reports(p, b)
      PROVE  Monitored'
  <2>1. pending' = pending \ {p} /\ sentBy' = sentBy /\ (acked' = acked \/ acked' = acked \cup {p.n})
    BY <1>2 DEF Reports, OnSendStatus
  <2>2. sentBy[p.n] # Nil
    BY MessageTypes DEF Monitored
  <2> QED
    BY <2>1, <2>2 DEF Monitored
<1>3. ASSUME NEW t \in Threads, CallStep(t), Sent(t), UNCHANGED engineVars
      PROVE  Monitored'
  <2>1. PICK n \in Calls : n = call[t].n
    BY <1>3, NumberOnce
  <2>2. sentBy[n] = Nil /\ m_seqNum # Nil /\ sentBy'[n] = m_seqNum /\ \A k \in Calls : k # n => sentBy'[k] = sentBy[k]
    BY <1>3, <2>1, NumberOnce
  <2>3. PICK x : x = [seq |-> m_seqNum, id |-> obj[call[t].via].id, n |-> n]
    OBVIOUS
  <2>4. x.seq = m_seqNum /\ x.n = n /\ pending' = pending \cup {x} /\ acked' = acked
    BY <1>3, <2>1, <2>3 DEF Sent, engineVars
  <2>5. (\A p \in pending : p.n \in Calls /\ p.n # n) /\ n \notin acked /\ acked \subseteq Calls
    BY <2>2, MessageTypes DEF Monitored
  <2> QED
    BY <2>2, <2>4, <2>5 DEF Monitored
<1> QED
  BY <1>1, <1>2, <1>3, StepOfMessages

(* What became of a message is so for good.                                *)
LEMMA AnsweredStays ==
  ASSUME EInv, Monitored, [Next]_vars, NEW k \in Calls, Answered(k)
  PROVE  Answered(k)' /\ sentBy'[k] = sentBy[k] /\ (k \in acked' <=> k \in acked)
<1>1. CASE Quiet
  BY <1>1 DEF Quiet, Answered
<1>2. ASSUME NEW p \in pending, NEW b \in BOOLEAN, Reports(p, b)
      PROVE  Answered(k)' /\ sentBy'[k] = sentBy[k] /\ (k \in acked' <=> k \in acked)
  <2>1. pending' = pending \ {p} /\ sentBy' = sentBy /\ (acked' = acked \/ acked' = acked \cup {p.n})
    BY <1>2 DEF Reports, OnSendStatus
  <2> QED
    BY <2>1 DEF Answered
<1>3. ASSUME NEW t \in Threads, CallStep(t), Sent(t), UNCHANGED engineVars
      PROVE  Answered(k)' /\ sentBy'[k] = sentBy[k] /\ (k \in acked' <=> k \in acked)
  <2>1. k # call[t].n /\ sentBy'[k] = sentBy[k]
    BY <1>3, NumberOnce DEF Answered
  <2>2. PICK x : x = [seq |-> m_seqNum, id |-> obj[call[t].via].id, n |-> call[t].n]
    OBVIOUS
  <2>3. x.n = call[t].n /\ pending' = pending \cup {x} /\ acked' = acked
    BY <1>3, <2>2 DEF Sent, engineVars
  <2> QED
    BY <2>1, <2>3 DEF Answered
<1> QED
  BY <1>1, <1>2, <1>3, StepOfMessages

(* A call whose number is recorded is over.                                *)
LEMMA RecordedStays ==
  ASSUME EInv, [Next]_vars, NEW u \in Waiters, wait[u].seqSet
  PROVE  wait[u].n \in Calls /\ sentBy'[wait[u].n] = sentBy[wait[u].n]
<1>1. PICK n : n = wait[u].n
  OBVIOUS
<1>2. CallOf(u) /\ SendPosting(u) /\ calls \in 0 .. MaxCalls /\ n \in Nat
  BY <1>1, WaitingFacts, WaiterTypes DEF EInv, CallTypes, PlaceTypes
<1>3. n \in Calls /\ job # SendJob(u)
  BY <1>1, <1>2, RemoteConstants DEF CallOf, SendPosting, UnderWay, Calls
<1>4. \A t \in Threads : call[t].n # n
  BY <1>1, <1>2, <1>3 DEF CallOf
<1>5. sentBy'[n] = sentBy[n]
  <2>1. CASE Quiet
    BY <2>1 DEF Quiet
  <2>2. CASE \E p \in pending : \E b \in BOOLEAN : Reports(p, b)
    BY <2>2 DEF Reports
  <2>3. CASE \E t \in Threads : CallStep(t) /\ Sent(t) /\ UNCHANGED engineVars
    BY <1>3, <1>4, <2>3, NumberOnce
  <2> QED
    BY <2>1, <2>2, <2>3, StepOfMessages
<1> QED
  BY <1>1, <1>3, <1>5

-----------------------------------------------------------------------------
(* RemoteInvokeWait() and its statuses.                                    *)

SameWait(w, x) ==
  /\ x.n = w.n /\ x.seqSet = w.seqSet /\ x.expectedSeq = w.expectedSeq /\ x.early = w.early
  /\ x.complete = w.complete /\ x.success = w.success
Fresh(x) == x.n = 0 /\ ~x.seqSet /\ ~x.complete /\ x.early = <<>>

LEMMA StepOfWaiter ==
  ASSUME EInv, [Next]_vars, NEW u \in Waiters
  PROVE  \/ SameWait(wait[u], wait'[u]) \/ Fresh(wait'[u]) \/ SendBegins(u) \/ SendEnds(u)
         \/ \E p \in pending : \E b \in BOOLEAN : Reports(p, b)
<1>1. wait \in [Waiters -> WaitStates]
  BY DEF EInv, EngineTypes, WaitTypes
<1>2. CASE wait' = wait
  BY <1>2 DEF SameWait
<1>3. ASSUME NEW v \in Waiters, RemoteInvokeWait(v) \/ WaitReturns(v)
      PROVE  SameWait(wait[u], wait'[u]) \/ Fresh(wait'[u])
  <2>1. PICK k : k = [NoWait EXCEPT !.pc = "posted"]
    OBVIOUS
  <2>2. Fresh(NoWait) /\ Fresh(k)
    BY <2>1, NoWaitFacts, Placed DEF Fresh
  <2>3. wait' = [wait EXCEPT ![v] = k] \/ wait' = [wait EXCEPT ![v] = NoWait]
    BY <1>3, <2>1 DEF RemoteInvokeWait, WaitReturns
  <2>4. wait'[u] = wait[u] \/ wait'[u] = k \/ wait'[u] = NoWait
    BY <1>1, <2>3
  <2> QED
    BY <2>2, <2>4 DEF SameWait
<1>4. ASSUME NEW v \in Waiters, SendTimeout(v)
      PROVE  SameWait(wait[u], wait'[u])
  <2>1. PICK pc \in {"late", "return"} : wait' = [wait EXCEPT ![v].pc = pc]
    BY <1>4 DEF SendTimeout
  <2>2. PICK k : k = [wait[v] EXCEPT !.pc = pc]
    OBVIOUS
  <2>3. SameWait(wait[v], k)
    BY <1>1, <2>2, Placed DEF SameWait
  <2>4. wait'[u] = wait[u] \/ (u = v /\ wait'[u] = k)
    BY <1>1, <2>1, <2>2
  <2> QED
    BY <2>3, <2>4 DEF SameWait
<1>5. ASSUME NEW v \in Waiters, SendBegins(v) \/ SendEnds(v)
      PROVE  SameWait(wait[u], wait'[u]) \/ SendBegins(u) \/ SendEnds(u)
  <2>1. CASE u = v
    BY <1>5, <2>1
  <2>2. CASE u # v
    <3>1. wait'[u] = wait[u]
      BY <1>1, <1>5, <2>2 DEF SendBegins, SendEnds
    <3> QED
      BY <3>1 DEF SameWait
  <2> QED
    BY <2>1, <2>2
<1>6. CASE \E a \in acks : ReceiveAck(a)
  <2>1. PICK a \in acks : ReceiveAck(a)
    BY <1>6
  <2>2. UNCHANGED <<sentBy, m_seqNum, call, calls, obj, job>>
    BY <2>1 DEF ReceiveAck
  <2>3. CASE \E p \in pending : p.seq = a.seq /\ p.id = a.id
    <3>1. PICK p \in pending : p = CHOOSE q \in pending : q.seq = a.seq /\ q.id = a.id
      BY <2>3
    <3>2. OnSendStatus(p, TRUE)
      BY <2>1, <2>3, <3>1 DEF ReceiveAck
    <3> QED
      BY <2>2, <3>2 DEF Reports
  <2> QED
    BY <1>2, <2>1, <2>3 DEF ReceiveAck
<1>7. CASE Timeout
  <2>1. CASE \E p \in pending : OnSendStatus(p, FALSE) /\ UNCHANGED job
    BY <1>7, <2>1 DEF Timeout, Reports
  <2> QED
    BY <1>2, <1>7, <2>1 DEF Timeout
<1>8. CASE RecvThread \/ TimerTick \/ Owner \/ Rest \/ UNCHANGED vars
  <2>1. wait' = wait
    BY <1>8 DEF RecvThread, RecvPost, RecvTimeout, RecvLeaves, TimerTick, Owner, InitializeCall,
                RegisterEndpointCall, StartCall, StopSignals, StopJoins, Marshal, Rest, vars, engineVars
  <2> QED
    BY <1>2, <2>1
<1>9. CASE Take \/ Incoming \/ HandlerReturns \/ Initialize \/ RegisterEndpoint \/ Start \/ Stop
  BY <1>2, <1>9 DEF Take, Incoming, HandlerReturns, Initialize, RegisterEndpoint, Start, Stop
<1>10. CASE (\E m \in air : ReceiveData(m)) \/ (\E t \in Users : CallDirectly(t)) \/ HandlerSends
            \/ (\E t \in Threads : CallProceeds(t))
  BY <1>2, <1>10 DEF ReceiveData, CallDirectly, HandlerSends, CallProceeds, engineVars
<1> QED
  BY <1>3, <1>4, <1>5, <1>6, <1>7, <1>8, <1>9, <1>10, NetIsThread DEF Next, NetThread, Users

LEMMA SendBeginsFacts ==
  ASSUME EInv, NEW u \in Waiters, SendBegins(u)
  PROVE  /\ wait'[u].n = calls + 1 /\ calls + 1 \in Calls /\ UNCHANGED <<sentBy, pending, acked>>
         /\ wait'[u].seqSet = wait[u].seqSet /\ wait'[u].complete = wait[u].complete /\ wait'[u].early = wait[u].early
         /\ ~wait[u].seqSet /\ sentBy[calls + 1] = Nil
<1>1. wait[u] \in WaitStates /\ wait \in [Waiters -> WaitStates] /\ calls \in Nat /\ CallOf(u)
  BY WaiterTypes, WaitingFacts DEF EInv, EngineTypes, WaitTypes
<1>2. calls < MaxCalls /\ UNCHANGED <<sentBy, pending, acked>> /\ wait[u].n = 0
  BY DEF SendBegins, Begin
<1>3. calls + 1 \in Calls
  BY <1>1, <1>2, RemoteConstants DEF Calls
<1>4. sentBy[calls + 1] = Nil
  BY <1>1, <1>3 DEF EInv, Calling
<1>5. PICK k : k = [wait[u] EXCEPT !.n = calls + 1]
  OBVIOUS
<1>6. k.n = calls + 1 /\ k.seqSet = wait[u].seqSet /\ k.complete = wait[u].complete /\ k.early = wait[u].early
  BY <1>1, <1>5 DEF WaitStates
<1>7. wait'[u] = k
  BY <1>1, <1>5 DEF SendBegins
<1> QED
  BY <1>1, <1>2, <1>3, <1>4, <1>6, <1>7 DEF CallOf

(* How the number of its message changes.                                  *)
LEMMA NumberOfWaiter ==
  ASSUME EInv, [Next]_vars, NEW u \in Waiters
  PROVE  \/ wait'[u].n = wait[u].n /\ (wait[u].seqSet => wait'[u].seqSet)
         \/ wait'[u].n = 0
         \/ wait'[u].n = calls + 1 /\ calls + 1 \in Calls /\ UNCHANGED <<sentBy, pending, acked>>
            /\ wait'[u].seqSet = wait[u].seqSet /\ wait'[u].complete = wait[u].complete /\ wait'[u].early = wait[u].early
            /\ ~wait[u].seqSet
<1>1. CASE SameWait(wait[u], wait'[u]) \/ Fresh(wait'[u])
  BY <1>1 DEF SameWait, Fresh
<1>2. CASE \E p \in pending : \E b \in BOOLEAN : Reports(p, b)
  <2>1. PICK p \in pending, b \in BOOLEAN : OnSendStatus(p, b)
    BY <1>2 DEF Reports
  <2> QED
    BY <2>1, StatusReaches
<1>3. CASE SendBegins(u)
  BY <1>3, SendBeginsFacts
<1>4. CASE SendEnds(u)
  <2>1. PICK w \in WaitStates, x \in WaitStates, k \in WaitStates : SendEnded(u, w, x, k)
    BY <1>4, SendEndsFacts
  <2>2. x.n = w.n /\ x.seqSet = w.seqSet
    BY <2>1, ReconcileFacts DEF SendEnded
  <2>3. k.n = wait[u].n /\ k.seqSet = TRUE /\ wait' = [wait EXCEPT ![u] = k]
    BY <2>1, <2>2 DEF SendEnded
  <2>4. wait'[u] = k
    BY <2>3 DEF EInv, EngineTypes, WaitTypes
  <2> QED
    BY <2>3, <2>4
<1> QED
  BY <1>1, <1>2, <1>3, <1>4, StepOfWaiter

(* What goes out of the network thread while it sends for RemoteInvokeWait *)
(* is its message.                                                         *)
LEMMA SendingForWaiter ==
  ASSUME EInv, NEW u \in Waiters, NEW t \in Threads, call[t].n = wait[u].n, wait[u].n # 0
  PROVE  t = Net /\ job = SendJob(u) /\ call[t].via = WaitChan
<1>1. t = Net /\ job = SendJob(u)
  BY WaitingFacts DEF CallOf
<1>2. call[t].pc # "idle"
  BY NoCallFacts DEF EInv, Calling
<1>3. call[t].via \in UsedBy(t)
  BY <1>2, InCall
<1> QED
  BY <1>1, <1>3 DEF UsedBy

LEMMA CallForWaiter ==
  ASSUME EInv, NEW u \in Waiters, job = SendJob(u), call[Net].pc # "idle"
  PROVE  call[Net].n = wait[u].n
BY JobKinds, DifferentJobs DEF EInv, Waiting, NetCall

(* The job of a send that has its number is not new.                       *)
LEMMA JobStays ==
  ASSUME EInv, [Next]_vars, NEW u \in Waiters, job' = SendJob(u), wait'[u].n # 0, wait'[u].n = wait[u].n,
         wait[u].seqSet => wait'[u].seqSet
  PROVE  job = SendJob(u)
<1>1. SendPosting(u)' /\ CallOf(u)'
  BY EngineStepKept, WaitingKept DEF Posting, Waiting
<1>2. ~wait'[u].seqSet
  BY <1>1 DEF SendPosting, UnderWay, CallOf
<1> QED
  BY <1>2, WaitingFacts DEF CallOf

LEMMA OwnPending ==
  ASSUME EInv, Monitored, NEW u \in Waiters, OwnMessage(u), [Next]_vars
  PROVE  \A p \in pending' : p.n = wait'[u].n => p.id = IdOf[WaitChan]
<1>1. SentTypes'
  BY CallsKept DEF CallTypes
<1>2. CASE wait'[u].n = 0
  <2>1. \A p \in pending' : p.n \in Calls
    BY <1>1 DEF SentTypes
  <2>2. 0 \notin Calls
    BY RemoteConstants DEF Calls
  <2> QED
    BY <1>2, <2>1, <2>2
<1>3. CASE wait'[u].n = calls + 1 /\ calls + 1 \in Calls /\ UNCHANGED pending
  <2>1. calls \in Nat
    BY WaitingFacts
  <2>2. sentBy[calls + 1] = Nil
    BY <1>3, <2>1 DEF EInv, Calling
  <2>3. \A p \in pending : p.n # calls + 1
    BY <2>2, MessageTypes DEF Monitored
  <2> QED
    BY <1>3, <2>3
<1>4. CASE wait'[u].n = wait[u].n
  <2>1. CASE pending' \subseteq pending
    BY <1>4, <2>1 DEF OwnMessage
  <2>2. ASSUME NEW t \in Threads, CallStep(t), Sent(t)
        PROVE  \A p \in pending' : p.n = wait'[u].n => p.id = IdOf[WaitChan]
    <3>1. PICK x : x = [seq |-> m_seqNum, id |-> obj[call[t].via].id, n |-> call[t].n]
      OBVIOUS
    <3>2. x.id = obj[call[t].via].id /\ x.n = call[t].n /\ pending' = pending \cup {x}
      BY <2>2, <3>1 DEF Sent
    <3>3. call[t].n \in Calls /\ 0 \notin Calls
      BY <2>2, NumberOnce, RemoteConstants DEF Calls
    <3>4. x.n = wait[u].n => x.id = IdOf[WaitChan]
      BY <3>2, <3>3, SendingForWaiter DEF EInv, CallTypes, ObjTypes
    <3> QED
      BY <1>4, <3>2, <3>4 DEF OwnMessage
  <2>3. CASE \E p \in pending : \E b \in BOOLEAN : Reports(p, b)
    BY <2>1, <2>3 DEF Reports, OnSendStatus
  <2> QED
    BY <2>1, <2>2, <2>3, StepOfMessages DEF Quiet
<1> QED
  BY <1>2, <1>3, <1>4, NumberOfWaiter

LEMMA OwnNumber ==
  ASSUME EInv, NEW u \in Waiters, OwnMessage(u), [Next]_vars,
         job' = SendJob(u), wait'[u].n # 0, call'[Net].pc = "idle", sentBy'[wait'[u].n] # Nil
  PROVE  obj'[WaitChan].seq = sentBy'[wait'[u].n]
<1>1. CASE wait'[u].n = calls + 1 /\ calls + 1 \in Calls /\ UNCHANGED sentBy
  <2>1. calls \in Nat
    BY WaitingFacts
  <2>2. sentBy[calls + 1] = Nil
    BY <1>1, <2>1 DEF EInv, Calling
  <2> QED
    BY <1>1, <2>2
<1>2. CASE wait'[u].n = wait[u].n /\ (wait[u].seqSet => wait'[u].seqSet)
  <2>1. job = SendJob(u)
    BY <1>2, JobStays
  <2>2. PICK n : n = wait[u].n /\ n # 0
    BY <1>2
  <2>3. Net \in Threads /\ WaitChan \in Senders
    BY NetIsThread, Wired
  <2>4. call[Net].pc = "idle" /\ sentBy[n] # Nil => obj[WaitChan].seq = sentBy[n]
    BY <2>1, <2>2 DEF OwnMessage
  <2>5. obj[WaitChan] \in Delegates(WaitChan) /\ obj \in [Senders -> UNION {Delegates(s) : s \in Senders}]
    BY <2>3 DEF EInv, CallTypes, ObjTypes
  <2>6. CASE CallsRest
    <3>1. call' = call /\ sentBy' = sentBy /\ obj'[WaitChan].seq = obj[WaitChan].seq
      <4>1. CASE obj' = obj
        BY <2>6, <4>1 DEF CallsRest
      <4>2. CASE \E s : \E e \in {"SUCCESS", "DESERIALIZE"} : obj' = [obj EXCEPT ![s].err = e]
        <5>1. PICK s, e : obj' = [obj EXCEPT ![s].err = e]
          BY <4>2
        <5>2. PICK d : d = [obj[WaitChan] EXCEPT !.err = e]
          OBVIOUS
        <5>3. d.seq = obj[WaitChan].seq
          BY <2>5, <5>2 DEF Delegates
        <5>4. obj'[WaitChan] = IF s = WaitChan THEN d ELSE obj[WaitChan]
          BY <2>3, <2>5, <5>1, <5>2
        <5> QED
          BY <2>6, <5>3, <5>4 DEF CallsRest
      <4> QED
        BY <2>6, <4>1, <4>2 DEF CallsRest
    <3> QED
      BY <1>2, <2>2, <2>4, <3>1
  <2>7. ASSUME NEW t \in Threads, CallStep(t)
        PROVE  obj'[WaitChan].seq = sentBy'[wait'[u].n]
    <3>1. CASE t = Net
      <4>1. call[Net].pc # "idle" /\ call[Net].n = n
        BY <2>1, <2>2, <2>7, <3>1, CallStepPlaces, CallForWaiter
      <4>2. call[Net].via = WaitChan /\ sentBy[n] = Nil
        BY <2>2, <2>3, <4>1, SendingForWaiter, InCall
      <4>3. CASE NotSent(Net)
        BY <1>2, <2>2, <4>2, <4>3 DEF NotSent
      <4>4. CASE Sent(Net)
        <5>1. obj'[WaitChan].seq = m_seqNum
          BY <4>2, <4>4 DEF Sent
        <5>2. sentBy'[n] = m_seqNum
          BY <2>7, <3>1, <4>1, <4>4, NumberOnce
        <5> QED
          BY <1>2, <2>2, <5>1, <5>2
      <4> QED
        BY <2>7, <3>1, <4>3, <4>4, CallStepSends
    <3>2. CASE t # Net
      <4>1. call[t].via # WaitChan
        BY <2>7, <3>2, CallStepPlaces, InCall, Used
      <4>2. obj'[WaitChan] = obj[WaitChan] /\ call'[Net] = call[Net]
        BY <2>3, <2>7, <3>2, <4>1, CallStepSends, CallStepPlaces
      <4>3. call[t].n # n
        BY <2>2, <3>2, SendingForWaiter
      <4>4. sentBy'[n] = sentBy[n]
        <5>1. n \in Calls
          <6>1. n \in Nat /\ n <= calls /\ calls \in 0 .. MaxCalls
            BY <2>2, WaitingFacts DEF CallOf, EInv, CallTypes, PlaceTypes
          <6> QED
            BY <2>2, <6>1, RemoteConstants DEF Calls
        <5> QED
          BY <2>7, <4>3, <5>1, CallStepSends, NumberOnce DEF NotSent
      <4> QED
        BY <1>2, <2>2, <2>4, <4>2, <4>4
    <3> QED
      BY <3>1, <3>2
  <2>8. ASSUME NEW t \in Threads, NEW s \in UsedBy(t), Begin(t, s)
        PROVE  obj'[WaitChan].seq = sentBy'[wait'[u].n]
    <3>1. sentBy' = sentBy /\ call[Net].pc = "idle"
      BY <2>3, <2>8, BeginPlaces DEF Begin
    <3>2. obj'[WaitChan].seq = obj[WaitChan].seq
      <4>1. CASE obj' = obj
        BY <4>1
      <4>2. CASE obj' = [obj EXCEPT ![s].err = "NO_SERIALIZER"]
        <5>1. PICK d : d = [obj[WaitChan] EXCEPT !.err = "NO_SERIALIZER"]
          OBVIOUS
        <5>2. d.seq = obj[WaitChan].seq
          BY <2>5, <5>1 DEF Delegates
        <5>3. obj'[WaitChan] = d \/ obj'[WaitChan] = obj[WaitChan]
          BY <2>3, <2>5, <4>2, <5>1
        <5> QED
          BY <5>2, <5>3
      <4> QED
        BY <2>8, <4>1, <4>2 DEF Begin, RaiseError
    <3> QED
      BY <1>2, <2>2, <2>4, <3>1, <3>2
  <2> QED
    BY <2>6, <2>7, <2>8, StepOfCalls
<1> QED
  BY <1>1, <1>2, NumberOfWaiter

LEMMA OwnMessageKept ==
  ASSUME EInv, Monitored, NEW u \in Waiters, OwnMessage(u), [Next]_vars
  PROVE  OwnMessage(u)'
BY OwnPending, OwnNumber DEF OwnMessage

(* What RemoteInvokeWait() knows stays true.                               *)
LEMMA KnownStays ==
  ASSUME EInv, Monitored, [Next]_vars, NEW w \in WaitStates, Known(w), w.complete => w.seqSet,
         w.seqSet => w.n \in Calls /\ sentBy'[w.n] = sentBy[w.n]
  PROVE  Known(w)'
<1>1. ASSUME NEW i \in 1 .. Len(w.early)
      PROVE  \E k \in Calls : Answered(k)' /\ sentBy'[k] = w.early[i].seq /\ (w.early[i].success <=> k \in acked')
  <2>1. PICK k \in Calls : Answered(k) /\ sentBy[k] = w.early[i].seq /\ (w.early[i].success <=> k \in acked)
    BY DEF Known
  <2> QED
    BY <2>1, AnsweredStays
<1>2. w.complete /\ sentBy'[w.n] # Nil => Answered(w.n)' /\ (w.success <=> w.n \in acked')
  <2> SUFFICES ASSUME w.complete, sentBy'[w.n] # Nil PROVE Answered(w.n)' /\ (w.success <=> w.n \in acked')
    OBVIOUS
  <2>1. PICK n \in Calls : n = w.n
    OBVIOUS
  <2>2. Answered(n) /\ (w.success <=> n \in acked)
    BY <2>1 DEF Known
  <2>3. Answered(n)' /\ (n \in acked' <=> n \in acked)
    BY <2>2, AnsweredStays
  <2> QED
    BY <2>1, <2>2, <2>3
<1> QED
  BY <1>1, <1>2 DEF Known

(* The monitor's report is the answer to a message.                        *)
LEMMA ReportAnswers ==
  ASSUME EInv, Monitored, NEW p \in pending, NEW b \in BOOLEAN, Reports(p, b)
  PROVE  /\ p.n \in Calls /\ Answered(p.n)' /\ sentBy'[p.n] = p.seq /\ (b <=> p.n \in acked')
         /\ sentBy[p.n] = p.seq /\ p.seq # Nil /\ sentBy' = sentBy /\ p \notin pending'
         /\ (acked' = acked \/ (b /\ acked' = acked \cup {p.n}))
         /\ \E r \in Status : r.seq = p.seq /\ r.success = b
<1>1. pending' = pending \ {p} /\ sentBy' = sentBy /\ acked' = IF b THEN acked \cup {p.n} ELSE acked
  BY DEF Reports, OnSendStatus
<1>2. p.n \in Calls /\ sentBy[p.n] = p.seq /\ p.seq # Nil /\ p.n \notin acked
      /\ p \in [seq : 0 .. NumMod - 1, id : Ids, n : Calls]
  BY MessageTypes DEF Monitored
<1>3. Answered(p.n)'
  BY <1>1, <1>2 DEF Answered, Monitored
<1>4. [seq |-> p.seq, success |-> b] \in Status
  BY <1>2 DEF Status
<1> QED
  BY <1>1, <1>2, <1>3, <1>4

LEMMA EarlyTypes ==
  ASSUME NEW w \in WaitStates, NEW r \in Status
  PROVE  /\ w.early \in Seq(Status) /\ Len(w.early) \in Nat
         /\ Append(w.early, r) \in Seq(Status) /\ Len(Append(w.early, r)) = Len(w.early) + 1
         /\ Append(w.early, r)[Len(w.early) + 1] = r
         /\ \A i \in 1 .. Len(w.early) : Append(w.early, r)[i] = w.early[i]
BY DEF WaitStates, Status

(* A status comes to RemoteInvokeWait().                                   *)
LEMMA KnownByReport ==
  ASSUME EInv, Numbered, Monitored, [Next]_vars, NEW p \in pending, NEW b \in BOOLEAN, Reports(p, b),
         NEW w \in WaitStates, Len(w.early) <= EarlyMax, Known(w), w.complete => w.seqSet, w.seqSet => w.n \in Calls,
         NEW x, x = StatusCb(w, p.seq, b)
  PROVE  Known(x)'
<1>1. PICK r \in Status : r.seq = p.seq /\ r.success = b
  BY ReportAnswers
<1>2. x = StatusCb(w, r.seq, r.success)
  BY <1>1
<1>3. /\ x \in WaitStates /\ x.n = w.n /\ x.seqSet = w.seqSet /\ x.expectedSeq = w.expectedSeq
      /\ ~w.seqSet => x.complete = w.complete /\ (x.early = Append(w.early, r) \/ x.early = w.early)
      /\ w.seqSet => /\ x.early = w.early
                     /\ x = w \/ (r.seq = w.expectedSeq /\ x.complete /\ x.success = r.success)
  BY <1>2, StatusFacts
<1>4. p.n \in Calls /\ Answered(p.n)' /\ sentBy'[p.n] = p.seq /\ (b <=> p.n \in acked') /\ sentBy' = sentBy
      /\ p.seq # Nil
  BY ReportAnswers
<1>5. Known(w)'
  BY <1>4, KnownStays
<1>6. ASSUME NEW i \in 1 .. Len(x.early)
      PROVE  \E k \in Calls : Answered(k)' /\ sentBy'[k] = x.early[i].seq /\ (x.early[i].success <=> k \in acked')
  <2>1. CASE x.early = w.early
    BY <1>5, <1>6, <2>1 DEF Known
  <2>2. CASE x.early = Append(w.early, r)
    <3>1. i = Len(w.early) + 1 \/ i \in 1 .. Len(w.early)
      BY <1>6, <2>2, EarlyTypes
    <3>2. CASE i \in 1 .. Len(w.early)
      <4>1. x.early[i] = w.early[i]
        BY <2>2, <3>2, EarlyTypes
      <4> QED
        BY <1>5, <3>2, <4>1 DEF Known
    <3>3. CASE i = Len(w.early) + 1
      <4>1. x.early[i] = r
        BY <2>2, <3>3, EarlyTypes
      <4> QED
        BY <1>1, <1>4, <4>1
    <3> QED
      BY <3>1, <3>2, <3>3
  <2> QED
    BY <1>3, <2>1, <2>2
<1>7. x.seqSet /\ sentBy'[x.n] # Nil => x.expectedSeq = sentBy'[x.n]
  BY <1>3, <1>5 DEF Known
<1>8. x.complete /\ sentBy'[x.n] # Nil => Answered(x.n)' /\ (x.success <=> x.n \in acked')
  <2> SUFFICES ASSUME x.complete, sentBy'[x.n] # Nil PROVE Answered(x.n)' /\ (x.success <=> x.n \in acked')
    OBVIOUS
  <2>1. w.seqSet
    BY <1>3
  <2>2. CASE x = w
    BY <1>5, <2>2 DEF Known
  <2>3. CASE r.seq = w.expectedSeq /\ x.success = r.success
    <3>1. w.expectedSeq = sentBy[w.n]
      BY <1>3, <1>4, <2>1 DEF Known
    <3>2. sentBy[w.n] = sentBy[p.n]
      BY <1>1, <1>4, <2>3, <3>1
    <3>3. p.n = w.n
      BY <1>3, <1>4, <2>1, <3>2 DEF Numbered
    <3> QED
      BY <1>1, <1>3, <1>4, <2>3, <3>3
  <2> QED
    BY <1>3, <2>1, <2>2, <2>3
<1> QED
  BY <1>6, <1>7, <1>8 DEF Known

(* The send lambda records the number and looks at the early statuses.     *)
LEMMA SendEndsKnows ==
  ASSUME EInv, Numbered, NEW u \in Waiters, OwnMessage(u), Known(wait[u]), SendEnds(u)
  PROVE  /\ Known(wait[u])'
         /\ wait'[u].seqSet /\ wait'[u].n = wait[u].n /\ Quiet /\ ~wait[u].seqSet
         /\ (\E i \in 1 .. Len(wait[u].early) : wait[u].early[i].seq = sentBy[wait[u].n]) /\ sentBy[wait[u].n] # Nil
              => wait'[u].complete
<1>1. PICK w \in WaitStates, x \in WaitStates, k \in WaitStates : SendEnded(u, w, x, k)
  BY SendEndsFacts
<1>2. CallOf(u) /\ SendPosting(u) /\ job = SendJob(u) /\ wait[u].n # 0 /\ call[Net].pc = "idle" /\ Quiet
      /\ calls \in 0 .. MaxCalls /\ wait[u].n \in Nat
  BY WaitingFacts, WaiterTypes DEF SendEnds, SendJob, Quiet, EInv, CallTypes, PlaceTypes
<1>3. ~wait[u].seqSet /\ ~wait[u].complete
  BY <1>2 DEF CallOf, SendPosting, UnderWay
<1>4. PICK n \in Calls : n = wait[u].n
  BY <1>2, RemoteConstants DEF CallOf, Calls
<1>5. w.n = n /\ w.early = wait[u].early /\ w.expectedSeq = obj[WaitChan].seq /\ ~w.complete /\ x = Reconcile(w)
  BY <1>1, <1>3, <1>4 DEF SendEnded
<1>6. /\ x.n = n /\ x.early = w.early /\ x.seqSet /\ x.expectedSeq = w.expectedSeq
      /\ \/ x = w /\ \A i \in 1 .. Len(w.early) : w.early[i].seq # w.expectedSeq
         \/ \E i \in 1 .. Len(w.early) :
              w.early[i].seq = w.expectedSeq /\ x.complete /\ x.success = w.early[i].success
  BY <1>1, <1>5, ReconcileFacts DEF SendEnded
<1>7. k.n = n /\ k.early = w.early /\ k.seqSet /\ k.expectedSeq = w.expectedSeq /\ k.complete = x.complete
      /\ k.success = x.success
  BY <1>1, <1>6 DEF SendEnded
<1>8. wait'[u] = k
  BY <1>1 DEF SendEnded, EInv, EngineTypes, WaitTypes
<1>9. sentBy[n] # Nil => w.expectedSeq = sentBy[n]
  BY <1>2, <1>4, <1>5 DEF OwnMessage
<1>10. \A i \in 1 .. Len(w.early) :
         \E l \in Calls : Answered(l) /\ sentBy[l] = w.early[i].seq /\ (w.early[i].success <=> l \in acked)
  BY <1>5 DEF Known
<1>11. k.complete /\ sentBy[n] # Nil => Answered(n) /\ (k.success <=> n \in acked)
  <2> SUFFICES ASSUME k.complete, sentBy[n] # Nil PROVE Answered(n) /\ (k.success <=> n \in acked)
    OBVIOUS
  <2>1. PICK i \in 1 .. Len(w.early) : w.early[i].seq = w.expectedSeq /\ x.success = w.early[i].success
    BY <1>5, <1>6, <1>7
  <2>2. PICK l \in Calls : Answered(l) /\ sentBy[l] = w.early[i].seq /\ (w.early[i].success <=> l \in acked)
    BY <1>10
  <2>3. l = n
    BY <1>9, <2>1, <2>2 DEF Numbered
  <2> QED
    BY <1>7, <2>1, <2>2, <2>3
<1>12. Known(k)'
  <2>1. Known(k)
    BY <1>7, <1>9, <1>10, <1>11 DEF Known
  <2> QED
    BY <1>2, <2>1 DEF Known, Quiet, Answered
<1>13. Known(wait[u])'
  BY <1>8, <1>12 DEF Known
<1>14. (\E i \in 1 .. Len(wait[u].early) : wait[u].early[i].seq = sentBy[n]) /\ sentBy[n] # Nil => k.complete
  BY <1>5, <1>6, <1>7, <1>9
<1> QED
  BY <1>2, <1>3, <1>4, <1>7, <1>8, <1>13, <1>14

LEMMA WaiterKnows ==
  ASSUME EInv, NEW u \in Waiters
  PROVE  /\ wait[u] \in WaitStates /\ Len(wait[u].early) <= EarlyMax
         /\ wait[u].success => wait[u].complete
         /\ wait[u].complete => wait[u].seqSet
         /\ wait[u].seqSet => wait[u].n \in Calls
         /\ wait[u].n # 0 => wait[u].pc # "idle"
         /\ wait[u].n # 0 /\ wait[u].pc \in {"wait", "return"} => wait[u].seqSet
<1>1. CallOf(u) /\ wait[u] \in WaitStates /\ Len(wait[u].early) <= EarlyMax /\ SendPosting(u)
      /\ calls \in 0 .. MaxCalls /\ wait[u].n \in Nat
  BY WaitingFacts, WaiterTypes DEF EInv, CallTypes, PlaceTypes
<1>2. wait[u].seqSet => wait[u].n \in Calls
  BY <1>1, RemoteConstants DEF CallOf, Calls
<1>3. wait[u].n # 0 /\ wait[u].pc \in {"wait", "return"} => wait[u].seqSet
  BY <1>1 DEF CallOf, SendPosting, UnderWay
<1> QED
  BY <1>1, <1>2, <1>3, NoWaitFacts DEF CallOf

LEMMA ReportReaches ==
  ASSUME EInv, NEW u \in Waiters, NEW p \in pending, NEW b \in BOOLEAN, Reports(p, b)
  PROVE  IF wait[u].pc # "idle" /\ p.id = IdOf[WaitChan] THEN wait'[u] = StatusCb(wait[u], p.seq, b)
                                                         ELSE wait'[u] = wait[u]
BY DEF Reports, OnSendStatus

LEMMA KnownKept ==
  ASSUME EInv, Numbered, Monitored, NEW u \in Waiters, OwnMessage(u), Known(wait[u]), [Next]_vars
  PROVE  Known(wait[u])'
<1>1. PICK w \in WaitStates : w = wait[u]
  BY WaiterKnows
<1>2. Known(w) /\ Len(w.early) <= EarlyMax /\ (w.complete => w.seqSet) /\ (w.seqSet => w.n \in Calls)
  BY <1>1, WaiterKnows DEF Known
<1>3. Known(w)'
  BY <1>1, <1>2, KnownStays, RecordedStays
<1>4. CASE SameWait(wait[u], wait'[u])
  BY <1>1, <1>3, <1>4 DEF SameWait, Known
<1>5. CASE Fresh(wait'[u])
  <2>1. 1 .. Len(wait'[u].early) = {}
    BY <1>5 DEF Fresh
  <2> QED
    BY <1>5, <2>1 DEF Fresh, Known
<1>6. CASE SendBegins(u)
  <2>1. wait'[u].early = w.early /\ ~wait'[u].seqSet /\ ~wait'[u].complete
    BY <1>1, <1>2, <1>6, SendBeginsFacts
  <2> QED
    BY <1>3, <2>1 DEF Known
<1>7. CASE SendEnds(u)
  BY <1>7, SendEndsKnows
<1>8. ASSUME NEW p \in pending, NEW b \in BOOLEAN, Reports(p, b)
      PROVE  Known(wait[u])'
  <2>1. CASE wait'[u] = w
    BY <1>3, <2>1 DEF Known
  <2>2. CASE wait'[u] = StatusCb(w, p.seq, b)
    <3>1. PICK x : x = StatusCb(w, p.seq, b)
      OBVIOUS
    <3>2. Known(x)'
      BY <1>2, <1>8, <3>1, KnownByReport
    <3> QED
      BY <2>2, <3>1, <3>2 DEF Known
  <2> QED
    BY <1>1, <1>8, <2>1, <2>2, ReportReaches
<1> QED
  BY <1>4, <1>5, <1>6, <1>7, <1>8, StepOfWaiter

(* No acknowledgment is missed, as long as a list that is full drops none. *)
LEMMA NoticedKept ==
  ASSUME EInv, AInv, NEW u \in Waiters, Noticed(wait[u]), [Next]_vars,
         wait[u].pc # "idle" /\ ~wait[u].seqSet /\ Len(wait[u].early) = EarlyMax => pending \subseteq pending'
  PROVE  Noticed(wait[u])'
<1>1. Numbered /\ Monitored /\ OwnMessage(u) /\ Known(wait[u])
  BY DEF AInv
<1>2. PICK w \in WaitStates : w = wait[u]
  BY WaiterKnows
<1>3. /\ Noticed(w) /\ Len(w.early) <= EarlyMax /\ (w.complete => w.seqSet) /\ (w.seqSet => w.n \in Calls)
      /\ w.n # 0 => w.pc # "idle"
  BY <1>2, WaiterKnows DEF Noticed
<1>4. acked \subseteq Calls /\ 0 \notin Calls /\ (\A n \in acked : sentBy[n] # Nil)
  BY <1>1, MessageTypes, RemoteConstants DEF Calls, Monitored
<1>5. CASE Quiet /\ SameWait(wait[u], wait'[u])
  BY <1>2, <1>3, <1>5 DEF Quiet, SameWait, Noticed
<1>6. CASE Quiet /\ Fresh(wait'[u])
  BY <1>4, <1>6 DEF Quiet, Fresh, Noticed
<1>7. CASE Quiet /\ SendBegins(u)
  BY <1>4, <1>7, SendBeginsFacts DEF Quiet, Noticed
<1>8. CASE Quiet /\ SendEnds(u)
  <2>1. wait'[u].seqSet /\ wait'[u].n = w.n /\ ~w.seqSet
        /\ ((\E i \in 1 .. Len(w.early) : w.early[i].seq = sentBy[w.n]) /\ sentBy[w.n] # Nil => wait'[u].complete)
    BY <1>1, <1>2, <1>8, SendEndsKnows
  <2>2. w.n \in acked => wait'[u].complete
    BY <1>3, <1>4, <2>1 DEF Noticed
  <2> QED
    BY <1>8, <2>1, <2>2 DEF Quiet, Noticed
<1>9. ASSUME NEW t \in Threads, CallStep(t), Sent(t), UNCHANGED engineVars
      PROVE  Noticed(wait[u])'
  <2>1. wait' = wait /\ acked' = acked
    BY <1>9 DEF engineVars
  <2>2. w.n \in acked => sentBy'[w.n] = sentBy[w.n]
    BY <1>4, <1>9, NumberOnce
  <2> QED
    BY <1>2, <1>3, <2>1, <2>2 DEF Noticed
<1>10. ASSUME NEW p \in pending, NEW b \in BOOLEAN, Reports(p, b)
       PROVE  Noticed(wait[u])'
  <2>1. /\ p.n \in Calls /\ sentBy[p.n] = p.seq /\ p.seq # Nil /\ sentBy' = sentBy /\ p \notin pending'
        /\ (acked' = acked \/ (b /\ acked' = acked \cup {p.n}))
    BY <1>1, <1>10, ReportAnswers
  <2>2. PICK r \in Status : r.seq = p.seq /\ r.success = b
    BY <1>1, <1>10, ReportAnswers
  <2>3. PICK x : x = wait'[u]
    OBVIOUS
  <2>4. w.n = p.n => w.pc # "idle" /\ p.id = IdOf[WaitChan]
    BY <1>1, <1>2, <1>3, <1>4, <2>1 DEF OwnMessage
  <2>5. CASE x = w
    <3>1. w.n = p.n => w.seqSet \/ Len(w.early) < EarlyMax
      <4>1. w.n = p.n /\ ~w.seqSet => Len(w.early) # EarlyMax
        BY <1>2, <2>1, <2>4
      <4> QED
        BY <1>3, <4>1, EngineConstants DEF WaitStates
    <3>2. w.n = p.n => x = StatusCb(w, r.seq, r.success)
      BY <1>2, <1>10, <2>2, <2>3, <2>4, ReportReaches
    <3>3. w.n = p.n /\ w.seqSet => w.complete \/ r.seq # w.expectedSeq
      BY <1>3, <2>5, <3>2, StatusFacts
    <3>4. w.n = p.n /\ w.seqSet => w.expectedSeq = r.seq
      BY <1>1, <1>2, <2>1, <2>2 DEF Known
    <3>5. w.n = p.n /\ ~w.seqSet => x.early = Append(w.early, r)
      BY <1>3, <3>1, <3>2, StatusFacts
    <3>6. w.n = p.n /\ ~w.seqSet => FALSE
      BY <2>2, <2>5, <3>5, EarlyTypes
    <3> QED
      BY <1>2, <1>3, <2>1, <2>3, <2>5, <3>3, <3>4, <3>6 DEF Noticed
  <2>6. CASE x = StatusCb(w, r.seq, r.success)
    <3>1. /\ x.n = w.n /\ x.seqSet = w.seqSet
          /\ ~w.seqSet => IF Len(w.early) < EarlyMax THEN x.early = Append(w.early, r) ELSE x.early = w.early
          /\ w.seqSet => IF ~w.complete /\ r.seq = w.expectedSeq THEN x.complete ELSE x = w
      BY <1>3, <2>6, StatusFacts
    <3>2. w.n \in acked' => w.n \in acked \/ w.n = p.n
      BY <2>1
    <3>3. w.seqSet /\ w.n \in acked' => x.complete
      <4>1. w.n = p.n /\ w.seqSet => w.expectedSeq = r.seq
        BY <1>1, <1>2, <2>1, <2>2 DEF Known
      <4> QED
        BY <1>3, <3>1, <3>2, <4>1 DEF Noticed
    <3>4. ~w.seqSet /\ w.n \in acked => \E i \in 1 .. Len(x.early) : x.early[i].seq = sentBy[w.n]
      <4> SUFFICES ASSUME ~w.seqSet, w.n \in acked PROVE \E i \in 1 .. Len(x.early) : x.early[i].seq = sentBy[w.n]
        OBVIOUS
      <4>1. PICK i \in 1 .. Len(w.early) : w.early[i].seq = sentBy[w.n]
        BY <1>3 DEF Noticed
      <4>2. CASE x.early = w.early
        BY <4>1, <4>2
      <4>3. CASE x.early = Append(w.early, r)
        <5>1. i \in 1 .. Len(x.early) /\ x.early[i] = w.early[i]
          BY <4>1, <4>3, <2>2, EarlyTypes
        <5> QED
          BY <4>1, <5>1
      <4> QED
        BY <3>1, <4>2, <4>3
    <3>5. ~w.seqSet /\ w.n = p.n => \E i \in 1 .. Len(x.early) : x.early[i].seq = sentBy[w.n]
      <4> SUFFICES ASSUME ~w.seqSet, w.n = p.n PROVE \E i \in 1 .. Len(x.early) : x.early[i].seq = sentBy[w.n]
        OBVIOUS
      <4>1. Len(w.early) # EarlyMax
        BY <1>2, <2>1, <2>4
      <4>2. Len(w.early) < EarlyMax
        BY <1>3, <4>1, EngineConstants DEF WaitStates
      <4>3. x.early = Append(w.early, r)
        BY <3>1, <4>2
      <4>4. Len(w.early) + 1 \in 1 .. Len(x.early) /\ x.early[Len(w.early) + 1] = r
        BY <2>2, <4>3, EarlyTypes
      <4> QED
        BY <2>1, <2>2, <4>4
    <3> QED
      BY <2>1, <2>3, <3>1, <3>2, <3>3, <3>4, <3>5 DEF Noticed
  <2> QED
    BY <1>2, <1>10, <2>2, <2>3, <2>5, <2>6, ReportReaches
<1> QED
  BY <1>5, <1>6, <1>7, <1>8, <1>9, <1>10, StepOfMessages, StepOfWaiter

LEMMA InitAnswers ==
  ASSUME Init
  PROVE  AInv /\ NInv
<1>1. \A n \in Calls : sentBy[n] = Nil
  BY DEF Init, RemoteInit
<1>2. Numbered
  <2>1. calls = 0 /\ m_seqNum = 0
    BY DEF Init, RemoteInit
  <2>2. Ended = {}
    BY <2>1 DEF Ended
  <2>3. Cardinality(Ended) = 0
    BY <2>2, FS_EmptySet
  <2> QED
    BY <1>1, <2>1, <2>3 DEF Numbered
<1>3. Monitored
  BY DEF Init, RemoteInit, Monitored
<1>4. ASSUME NEW u \in Waiters
      PROVE  OwnMessage(u) /\ Known(wait[u]) /\ Noticed(wait[u])
  <2>1. wait[u] = NoWait /\ job = Nil /\ pending = {} /\ acked = {}
    BY DEF Init, RemoteInit
  <2>2. 1 .. Len(NoWait.early) = {}
    BY NoWaitFacts
  <2>3. Nil # SendJob(u)
    BY JobFacts
  <2> QED
    BY <2>1, <2>2, <2>3, NoWaitFacts DEF OwnMessage, Known, Noticed
<1> QED
  BY <1>2, <1>3, <1>4 DEF AInv, NInv

LEMMA AnswersKept ==
  ASSUME NumbersSuffice, EInv, AInv, [Next]_vars
  PROVE  AInv'
<1>1. Numbered' /\ Monitored'
  BY NumberedKept, MonitoredKept DEF AInv
<1>2. ASSUME NEW u \in Waiters
      PROVE  OwnMessage(u)' /\ Known(wait[u])'
  BY OwnMessageKept, KnownKept DEF AInv
<1> QED
  BY <1>1, <1>2 DEF AInv

(* What RemoteInvokeWait() returns is true only for a message that was     *)
(* acknowledged, however many statuses come to its channel, before its     *)
(* number is known or after (NetworkEngine.h, InvokeWaitState).            *)
THEOREM TrueAnswers ==
  ASSUME NumbersSuffice
  PROVE  Spec => [](EInv /\ AInv /\ TrueMeansAcked)
<1>1. EInv /\ AInv /\ [Next]_vars => AInv'
  BY AnswersKept
<1>2. EInv /\ AInv => TrueMeansAcked
  BY WaiterKnows DEF AInv, Known, TrueMeansAcked
<1> QED
  BY <1>1, <1>2, InitAnswers, EngineInvariant, PTL DEF Spec

(* RemoteInvokeWait() returns what became of its own message, and hears of *)
(* an acknowledgment that comes before the network thread has recorded the *)
(* number: unless the list of such statuses, eight in the code, is full    *)
(* when one comes (NetworkEngine.h, InvokeWaitState).                      *)
THEOREM AnswersAlwaysExact ==
  ASSUME NumbersSuffice
  PROVE  Spec /\ NoStatusDropped => []AnswersExact
<1>1. ASSUME EInv, AInv, NInv, [Next]_vars,
             [(\E u \in Waiters : wait[u].pc # "idle" /\ ~wait[u].seqSet /\ Len(wait[u].early) = EarlyMax)
                => pending \subseteq pending']_vars
      PROVE  NInv'
  <2> SUFFICES ASSUME NEW u \in Waiters PROVE Noticed(wait[u])'
    BY DEF NInv
  <2>1. Noticed(wait[u])
    BY <1>1 DEF NInv
  <2>2. wait[u].pc # "idle" /\ ~wait[u].seqSet /\ Len(wait[u].early) = EarlyMax => pending \subseteq pending'
    BY <1>1 DEF vars, remoteVars
  <2> QED
    BY <1>1, <2>1, <2>2, NoticedKept
<1>2. EInv /\ AInv /\ NInv => FastAckKept
  <2> SUFFICES ASSUME EInv, AInv, NInv, NEW u \in Waiters, wait[u].pc \in {"wait", "return"}, wait[u].n \in acked
               PROVE  wait[u].success
    BY DEF FastAckKept
  <2>1. Monitored /\ Known(wait[u]) /\ Noticed(wait[u])
    BY DEF AInv, NInv
  <2>2. wait[u].n # 0 /\ sentBy[wait[u].n] # Nil
    BY <2>1, MessageTypes, RemoteConstants DEF Calls, Monitored
  <2>3. wait[u].complete
    BY <2>1, <2>2, WaiterKnows DEF Noticed
  <2> QED
    BY <2>1, <2>2, <2>3 DEF Known
<1> QED
  BY <1>1, <1>2, InitAnswers, EngineInvariant, TrueAnswers, PTL DEF Spec, NoStatusDropped, AnswersExact

(* The statuses that came early are of different messages.                 *)
Distinct(w) == \A i, j \in 1 .. Len(w.early) : w.early[i].seq = w.early[j].seq => i = j
DInv == \A u \in Waiters : Distinct(wait[u])

LEMMA DistinctKept ==
  ASSUME EInv, AInv, NEW u \in Waiters, Distinct(wait[u]), [Next]_vars
  PROVE  Distinct(wait[u])'
<1>1. Monitored /\ OwnMessage(u) /\ Known(wait[u]) /\ Numbered
  BY DEF AInv
<1>2. PICK w \in WaitStates : w = wait[u]
  BY WaiterKnows
<1>3. Distinct(w) /\ Known(w) /\ Len(w.early) <= EarlyMax
  BY <1>1, <1>2, WaiterKnows DEF Distinct, Known
<1>4. CASE wait'[u].early = w.early
  BY <1>3, <1>4 DEF Distinct
<1>5. CASE Fresh(wait'[u])
  <2>1. 1 .. Len(wait'[u].early) = {}
    BY <1>5 DEF Fresh
  <2> QED
    BY <2>1 DEF Distinct
<1>6. CASE SendEnds(u)
  <2>1. PICK v \in WaitStates, x \in WaitStates, k \in WaitStates : SendEnded(u, v, x, k)
    BY <1>6, SendEndsFacts
  <2>2. x.early = v.early
    BY <2>1, ReconcileFacts DEF SendEnded
  <2>3. wait'[u] = k /\ k.early = w.early
    BY <1>2, <2>1, <2>2 DEF SendEnded, EInv, EngineTypes, WaitTypes
  <2> QED
    BY <1>4, <2>3
<1>7. ASSUME NEW p \in pending, NEW b \in BOOLEAN, Reports(p, b)
      PROVE  Distinct(wait[u])'
  <2>1. PICK r \in Status : r.seq = p.seq /\ r.success = b
    BY <1>1, <1>7, ReportAnswers
  <2>2. PICK x : x = wait'[u]
    OBVIOUS
  <2>3. x.early = w.early \/ x.early = Append(w.early, r)
    <3>1. CASE x = w
      BY <3>1
    <3>2. CASE x = StatusCb(w, r.seq, r.success)
      BY <1>3, <3>2, StatusFacts
    <3> QED
      BY <1>2, <1>7, <2>1, <2>2, <3>1, <3>2, ReportReaches
  <2>4. \A i \in 1 .. Len(w.early) : w.early[i].seq # r.seq
    <3> SUFFICES ASSUME NEW i \in 1 .. Len(w.early), w.early[i].seq = r.seq PROVE FALSE
      OBVIOUS
    <3>1. PICK k \in Calls : Answered(k) /\ sentBy[k] = w.early[i].seq
      BY <1>3 DEF Known
    <3>2. sentBy[k] = sentBy[p.n] /\ p.n \in Calls /\ sentBy[k] # Nil
      BY <1>1, <1>7, <2>1, <3>1, ReportAnswers
    <3>3. k = p.n
      BY <1>1, <3>2 DEF Numbered
    <3> QED
      BY <3>1, <3>3 DEF Answered
  <2>5. CASE x.early = Append(w.early, r)
    <3>1. \A i \in 1 .. Len(x.early) :
            \/ i \in 1 .. Len(w.early) /\ x.early[i] = w.early[i]
            \/ i = Len(w.early) + 1 /\ x.early[i] = r
      BY <2>1, <2>5, EarlyTypes
    <3>2. \A i, j \in 1 .. Len(x.early) : x.early[i].seq = x.early[j].seq => i = j
      BY <1>3, <2>4, <3>1 DEF Distinct
    <3> QED
      BY <2>2, <3>2 DEF Distinct
  <2> QED
    BY <1>4, <2>2, <2>3, <2>5
<1> QED
  BY <1>2, <1>4, <1>5, <1>6, <1>7, SendBeginsFacts, StepOfWaiter DEF SameWait

(* A list that is full has a status of every call there can be.            *)
LEMMA FullKnowsAll ==
  ASSUME EInv, AInv, MaxCalls <= EarlyMax, NEW u \in Waiters, Distinct(wait[u]), Len(wait[u].early) = EarlyMax
  PROVE  pending = {}
<1> SUFFICES ASSUME NEW p \in pending PROVE FALSE
  OBVIOUS
<1>1. PICK early : early = wait[u].early
  OBVIOUS
<1>2. \A i \in 1 .. EarlyMax : \E k \in Calls : Answered(k) /\ sentBy[k] = early[i].seq
  BY <1>1 DEF AInv, Known
<1>3. PICK of : of = [i \in 1 .. EarlyMax |-> CHOOSE k \in Calls : Answered(k) /\ sentBy[k] = early[i].seq]
  OBVIOUS
<1>4. \A i \in 1 .. EarlyMax : of[i] \in Calls /\ Answered(of[i]) /\ sentBy[of[i]] = early[i].seq
  BY <1>2, <1>3
<1>5. p.n \in Calls /\ \A i \in 1 .. EarlyMax : of[i] # p.n
  BY <1>4, MessageTypes DEF Answered
<1>6. PICK Others : Others = Calls \ {p.n}
  OBVIOUS
<1>7. of \in [1 .. EarlyMax -> Others]
  BY <1>3, <1>4, <1>5, <1>6
<1>8. \A i, j \in 1 .. EarlyMax : of[i] = of[j] => i = j
  BY <1>1, <1>4 DEF Distinct
<1>9. IsInjective(of)
  BY <1>3, <1>8 DEF IsInjective
<1>10. IsFiniteSet(Calls) /\ Cardinality(Calls) = MaxCalls
  BY RemoteConstants, FS_Interval DEF Calls
<1>11. IsFiniteSet(Others) /\ Cardinality(Others) = MaxCalls - 1
  BY <1>5, <1>6, <1>10, FS_RemoveElement
<1>12. IsFiniteSet(1 .. EarlyMax) /\ Cardinality(1 .. EarlyMax) = EarlyMax
  BY EngineConstants, FS_Interval
<1>13. Cardinality(1 .. EarlyMax) <= Cardinality(Others)
  BY <1>7, <1>9, <1>11, FS_Injection DEF Injection
<1> QED
  BY <1>11, <1>12, <1>13, RemoteConstants, EngineConstants

(* As long as there are no more calls than the list has places, none is    *)
(* dropped (NetworkEngine.h, InvokeWaitState).                             *)
THEOREM NoneDropped ==
  ASSUME NumbersSuffice, MaxCalls <= EarlyMax
  PROVE  Spec => NoStatusDropped
<1>1. Init => DInv
  <2> SUFFICES ASSUME Init, NEW u \in Waiters PROVE Distinct(wait[u])
    BY DEF DInv
  <2>1. 1 .. Len(wait[u].early) = {}
    BY NoWaitFacts DEF Init
  <2> QED
    BY <2>1 DEF Distinct
<1>2. ASSUME EInv, AInv, DInv, [Next]_vars
      PROVE  DInv'
  <2> SUFFICES ASSUME NEW u \in Waiters PROVE Distinct(wait[u])'
    BY DEF DInv
  <2>1. Distinct(wait[u])
    BY <1>2 DEF DInv
  <2> QED
    BY <1>2, <2>1, DistinctKept
<1>3. ASSUME EInv, AInv, DInv
      PROVE  (\E u \in Waiters : wait[u].pc # "idle" /\ ~wait[u].seqSet /\ Len(wait[u].early) = EarlyMax)
               => pending = {}
  <2> SUFFICES ASSUME NEW u \in Waiters, Len(wait[u].early) = EarlyMax PROVE pending = {}
    OBVIOUS
  <2>1. Distinct(wait[u])
    BY <1>3 DEF DInv
  <2> QED
    BY <1>3, <2>1, FullKnowsAll
<1>4. EInv /\ AInv /\ DInv /\ [Next]_vars =>
        [(\E u \in Waiters : wait[u].pc # "idle" /\ ~wait[u].seqSet /\ Len(wait[u].early) = EarlyMax)
           => pending \subseteq pending']_vars
  BY <1>3
<1> QED
  BY <1>1, <1>2, <1>4, TrueAnswers, PTL DEF Spec, NoStatusDropped

(* So a program of few calls always has its answers.                       *)
COROLLARY FewAnswersExact ==
  ASSUME NumbersSuffice, MaxCalls <= EarlyMax
  PROVE  Spec => []AnswersExact
BY NoneDropped, AnswersAlwaysExact, PTL
====
